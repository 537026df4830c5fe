--------------------------- MODULE CryptoProofs ---------------------------
(***************************************************************************)
(* Proofs about CryptoPipe, for any sizes, sources and queues: the blocks  *)
(* in the two channels and in the hands of the loops are, from the output  *)
(* back to the source, numbered without a gap, and writeLoop has nothing   *)
(* left and no error only when all of them have gone through.              *)
(***************************************************************************)
EXTENDS CryptoPipe, TLAPS

(* How a source of s bytes is cut: the size of a block, how many there     *)
(* are, how far the first i of them reach, and the size of the i-th.       *)
Size(e) == IF e THEN Block ELSE Block + Tag
Count(e, s) == (s + Size(e) - 1) \div Size(e)
Upto(e, s, i) == IF i * Size(e) <= s THEN i * Size(e) ELSE s
Part(e, s, i) == Upto(e, s, i) - Upto(e, s, i - 1)

(* A buffer that holds a block of the source, and one that was sealed or   *)
(* opened as well.                                                         *)
Good(e, s, b) ==
  /\ b \in Buffers /\ b.idx \in 1 .. Count(e, s) /\ b.n = Part(e, s, b.idx)
  /\ b.plen = IF e THEN b.n ELSE IF b.n <= Tag THEN Block ELSE b.n - Tag
Crypted(e, s, b) == Good(e, s, b) /\ (e \/ b.plen + Tag = b.n)

---------------------------------------------------------------------------
(* Division, as the number of blocks needs it.                             *)
LEMMA Division ==
  ASSUME NEW a \in Nat, NEW r \in Nat \ {0}
  PROVE  /\ (a + r - 1) \div r \in Nat
         /\ a <= ((a + r - 1) \div r) * r
         /\ ((a + r - 1) \div r) * r < a + r
BY SMTT(30)

(* Products with a positive number.                                        *)
LEMMA Product ==
  ASSUME NEW i \in Nat, NEW j \in Nat, NEW r \in Nat \ {0}
  PROVE  /\ i * r \in Nat /\ i <= i * r /\ (i + 1) * r = i * r + r
         /\ i < j => i * r + r <= j * r
         /\ i * r < j * r => i < j
BY SMTT(30)

(* A block is not empty.                                                  *)
LEMMA SizeType == ASSUME NEW e \in BOOLEAN PROVE Size(e) \in Nat \ {0}
BY CryptoAssumption DEF Size

(* All that is used of the cutting: where blocks begin and end.            *)
LEMMA Cutting ==
  ASSUME NEW e \in BOOLEAN, NEW s \in Nat
  PROVE  /\ Count(e, s) \in Nat /\ Count(e, s) <= s
         /\ Upto(e, s, 0) = 0
         /\ \A i \in Nat : Upto(e, s, i) \in 0 .. s
         /\ \A i \in Nat : i < Count(e, s) =>
              /\ Upto(e, s, i) = i * Size(e) /\ i * Size(e) < s
              /\ Upto(e, s, i + 1) = IF s - Upto(e, s, i) < Size(e) THEN s ELSE Upto(e, s, i) + Size(e)
              /\ s - Upto(e, s, i) <= Size(e) <=> i + 1 = Count(e, s)
         /\ \A i \in Nat : i >= Count(e, s) => Upto(e, s, i) = s
<1> DEFINE r == Size(e)  k == Count(e, s)
<1>1. r \in Nat \ {0} BY SizeType
<1>2. k \in Nat /\ s <= k * r /\ k * r < s + r
      BY <1>1, Division DEF Count
<1>3. \A i, j \in Nat : /\ i * r \in Nat /\ i <= i * r /\ (i + 1) * r = i * r + r
                        /\ (i < j => i * r + r <= j * r) /\ (i * r < j * r => i < j)
      BY <1>1, Product
<1>4. 0 * r = 0 BY <1>1
<1> HIDE DEF r, k
<1>5. k <= s
  <2>1. CASE k = 0 BY <2>1
  <2>2. CASE k # 0
    <3>1. k - 1 \in Nat /\ (k - 1) + 1 = k BY <1>2, <2>2
    <3>2. (k - 1) * r + r = k * r /\ k - 1 <= (k - 1) * r /\ (k - 1) * r \in Nat BY <3>1, <1>3
    <3> QED BY <1>1, <1>2, <3>1, <3>2
  <2> QED BY <2>1, <2>2
<1>6. ASSUME NEW i \in Nat, i < k
      PROVE  /\ i * r < s /\ (i + 1) * r = i * r + r /\ i * r \in Nat
             /\ s - i * r <= r <=> i + 1 = k
  <2>1. i * r + r <= k * r /\ i * r \in Nat /\ k * r \in Nat BY <1>2, <1>3, <1>6
  <2>2. i * r < s BY <2>1, <1>1, <1>2
  <2>3. i + 1 \in Nat /\ (i + 1) * r = i * r + r BY <1>3
  <2>4. ASSUME i + 1 < k PROVE s - i * r > r
    <3>1. (i + 1) * r + r <= k * r BY <1>2, <1>3, <2>3, <2>4
    <3> QED BY <3>1, <2>1, <2>3, <1>1, <1>2
  <2>5. ASSUME i + 1 = k PROVE s - i * r <= r BY <2>5, <2>1, <2>3, <1>1, <1>2
  <2> QED BY <2>1, <2>2, <2>3, <2>4, <2>5, <1>1, <1>2, <1>6
<1>7. ASSUME NEW i \in Nat, i >= k PROVE i * r >= s /\ i * r \in Nat
  <2>1. i * r \in Nat /\ (k < i => k * r + r <= i * r) BY <1>2, <1>3
  <2> QED BY <2>1, <1>1, <1>2, <1>7
<1>8. \A i \in Nat : Upto(e, s, i) = IF i * r <= s THEN i * r ELSE s BY DEF Upto, r
<1>9. \A i \in Nat : i * r \in Nat BY <1>3
<1>10. /\ Upto(e, s, 0) = 0
       /\ \A i \in Nat : Upto(e, s, i) \in 0 .. s
       /\ \A i \in Nat : i >= k => Upto(e, s, i) = s
       BY <1>4, <1>7, <1>8, <1>9
<1>11. ASSUME NEW i \in Nat, i < k
       PROVE  /\ Upto(e, s, i) = i * r /\ i * r < s
              /\ Upto(e, s, i + 1) = IF s - Upto(e, s, i) < r THEN s ELSE Upto(e, s, i) + r
              /\ s - Upto(e, s, i) <= r <=> i + 1 = k
  <2>1. Upto(e, s, i) = i * r BY <1>6, <1>8, <1>11
  <2>2. i + 1 \in Nat /\ Upto(e, s, i + 1) = IF i * r + r <= s THEN i * r + r ELSE s BY <1>6, <1>8, <1>11
  <2> QED BY <2>1, <2>2, <1>1, <1>6, <1>11
<1> QED BY <1>2, <1>5, <1>10, <1>11 DEF r, k

(* Where the block after the first i ends.                                 *)
LEMMA NextBlock ==
  ASSUME NEW e \in BOOLEAN, NEW s \in Nat, NEW i \in Nat, i < Count(e, s),
         NEW p, p = Upto(e, s, i)
  PROVE  /\ Upto(e, s, i + 1) = IF s - p < Size(e) THEN s ELSE p + Size(e)
         /\ s - p <= Size(e) <=> i + 1 = Count(e, s)
<1>1. /\ Upto(e, s, i + 1) = IF s - Upto(e, s, i) < Size(e) THEN s ELSE Upto(e, s, i) + Size(e)
      /\ s - Upto(e, s, i) <= Size(e) <=> i + 1 = Count(e, s)
      BY Cutting, ZenonT(30)
<1> QED BY <1>1

(* The size of a block: none is empty, only the last one may be short.     *)
LEMMA Parts ==
  ASSUME NEW e \in BOOLEAN, NEW s \in Nat, NEW i \in 1 .. Count(e, s)
  PROVE  /\ Part(e, s, i) \in 1 .. Size(e)
         /\ Upto(e, s, i) = Upto(e, s, i - 1) + Part(e, s, i)
         /\ Part(e, s, i) = LET left == s - (i - 1) * Size(e)
                            IN  IF left < Size(e) THEN left ELSE Size(e)
<1>1. Count(e, s) \in Nat /\ Size(e) \in Nat \ {0} BY Cutting, SizeType
<1>2. PICK j \in Nat : j + 1 = i /\ j = i - 1 /\ j < Count(e, s) BY <1>1
<1>3. /\ Upto(e, s, j) = j * Size(e) /\ j * Size(e) < s
      /\ Upto(e, s, j + 1) = IF s - Upto(e, s, j) < Size(e) THEN s ELSE Upto(e, s, j) + Size(e)
      /\ Upto(e, s, j) \in 0 .. s
  <2>1. Upto(e, s, j) = j * Size(e) /\ j * Size(e) < s /\ Upto(e, s, j) \in 0 .. s
        BY <1>2, Cutting, ZenonT(30)
  <2> QED BY <1>2, <2>1, NextBlock
<1> DEFINE u == Upto(e, s, i - 1)  v == Upto(e, s, i)  r == Size(e)
<1>4. /\ u = (i - 1) * r /\ u \in 0 .. s /\ u < s /\ r \in Nat \ {0}
      /\ v = IF s - u < r THEN s ELSE u + r
      BY <1>1, <1>2, <1>3
<1>5. Part(e, s, i) = v - u BY DEF Part
<1> HIDE DEF u, v, r
<1>6. v - u \in 1 .. r /\ v = u + (v - u) /\ v - u = IF s - u < r THEN s - u ELSE r
      BY <1>4
<1> QED BY <1>4, <1>5, <1>6 DEF u, v, r

---------------------------------------------------------------------------
(* The block in the hands of cryptLoop.                                    *)
Held == IF cryptPc \in {"send", "reject"} THEN 1 ELSE 0

(* The blocks that cryptLoop has had, and those that were sent to it.      *)
Had == Len(out) + Len(writeCh) + Held
Sent == Had + Len(cryptCh)

(* WriteTo has read the first nonce blocks.                                *)
Reading ==
  /\ readPc = "init" => nonce = 0 /\ pos = 0
  /\ readPc \in {"get", "send", "last"} =>
       nonce <= Count(encrypt, srcLen) /\ pos = Upto(encrypt, srcLen, nonce)
  /\ readPc \in {"send", "last"} => Good(encrypt, srcLen, readBuf) /\ readBuf.idx = nonce
  /\ readPc = "last" => nonce = Count(encrypt, srcLen)
  /\ nonce <= Count(encrypt, srcLen) + 1

(* The blocks from the output back to cryptCh.                             *)
Ordered ==
  /\ \A i \in 1 .. Len(out) :
       /\ out[i].idx = i
       /\ out[i].whole =>
            out[i].len = IF encrypt THEN Part(encrypt, srcLen, i) + Tag
                                    ELSE Part(encrypt, srcLen, i) - Tag
       /\ ~out[i].whole => i = Len(out) /\ report = "err"
  /\ Len(out) <= Count(encrypt, srcLen)
  /\ \A i \in 1 .. Len(writeCh) :
       Crypted(encrypt, srcLen, writeCh[i]) /\ writeCh[i].idx = Len(out) + i
  /\ cryptPc \in {"send", "reject"} =>
       Good(encrypt, srcLen, cryptBuf) /\ cryptBuf.idx = Len(out) + Len(writeCh) + 1
  /\ cryptPc = "send" => Crypted(encrypt, srcLen, cryptBuf)
  /\ cryptPc # "done" => \A i \in 1 .. Len(cryptCh) :
       Good(encrypt, srcLen, cryptCh[i]) /\ cryptCh[i].idx = Had + i

(* As long as cryptLoop runs no block has gone missing.                    *)
Complete ==
  cryptPc # "done" =>
    /\ readPc \in {"init", "get"} => Sent = nonce
    /\ readPc \in {"send", "last"} => Sent + 1 = nonce
    /\ readPc \in {"eof", "wait"} /\ "read" \notin failed => Sent = Count(encrypt, srcLen)

(* Which loops run, by the place of WriteTo.                               *)
Started ==
  /\ readPc = "init" => cryptPc = "none" /\ writePc = "none" /\ closed = {} /\ failed = {}
  /\ cryptPc = "none" <=> writePc = "none"
  /\ writePc = "none" => readPc = "init" \/ (readPc = "done" /\ result = "err")
  /\ writePc \in {"none", "recv"} <=> report = "none"
  /\ writePc = "done" => readPc = "done"
  /\ readPc = "done" => writePc \in {"none", "done"}
  /\ result = "none" <=> readPc # "done"
  /\ "cryptErrCh" \in closed => writePc = "done"

(* What a failure, a closed channel and a report tell.                     *)
Ended ==
  /\ "read" \in failed => readPc = "wait" \/ result = "err"
  /\ "cancelCh" \in closed => "read" \in failed \/ result = "err"
  /\ "cryptCh" \in closed => readPc \in {"wait", "done"} /\ "read" \notin failed
  /\ "writeCh" \in closed => cryptPc = "done"
  /\ cryptPc \notin {"reject", "done"} => "open" \notin failed
  /\ cryptPc = "done" => \/ report = "err" \/ "cancelCh" \in closed
                         \/ /\ Len(out) + Len(writeCh) = Count(encrypt, srcLen)
                            /\ "open" \notin failed /\ "read" \notin failed
                            /\ readPc \in {"wait", "done"}
  /\ "write" \in failed => report = "err" \/ result = "err"
  /\ report = "nil" => "cancelCh" \in closed \/ (writeCh = <<>> /\ "writeCh" \in closed)
  /\ result = "nil" => report = "nil" /\ "read" \notin failed

(* writerTo.nn, as long as no write fails.                                 *)
Counted ==
  writePc # "none" /\ "write" \notin failed =>
    nn = (IF encrypt THEN 0 ELSE HeaderLen) + Upto(encrypt, srcLen, Len(out))

(* The inductive invariant.                                                *)
IInv == TypeOK /\ Reading /\ Ordered /\ Complete /\ Started /\ Ended /\ Counted

---------------------------------------------------------------------------
(* The cutting of the source in a state.                                   *)
LEMMA CutState ==
  ASSUME TypeOK
  PROVE  /\ encrypt \in BOOLEAN /\ srcLen \in Nat /\ srcLen <= MaxLen
         /\ Size(encrypt) \in Nat \ {0} /\ Size(encrypt) = ReadSize
         /\ Blocks = Count(encrypt, srcLen)
         /\ Count(encrypt, srcLen) \in Nat /\ Count(encrypt, srcLen) <= srcLen
         /\ Upto(encrypt, srcLen, 0) = 0
         /\ Upto(encrypt, srcLen, Count(encrypt, srcLen)) = srcLen
<1>1. encrypt \in BOOLEAN /\ srcLen \in Nat /\ srcLen <= MaxLen
      BY CryptoAssumption DEF TypeOK
<1>2. Size(encrypt) = ReadSize /\ Blocks = Count(encrypt, srcLen)
      BY DEF Blocks, ReadSize, Count, Size
<1> QED BY <1>1, <1>2, Cutting, SizeType

(* The invariant holds at first.                                           *)
LEMMA InitInv == Init => IInv
<1> SUFFICES ASSUME Init PROVE IInv
    OBVIOUS
<1> USE CryptoAssumption
<1>1. TypeOK
  <2>1. NoBuf \in Buffers BY DEF NoBuf, Buffers
  <2>2. Blocks <= MaxLen /\ Blocks \in Nat
    <3>1. Blocks = Count(encrypt, srcLen) BY DEF Blocks, ReadSize, Count, Size
    <3>2. encrypt \in BOOLEAN /\ srcLen \in Nat /\ srcLen <= MaxLen BY DEF Init
    <3> QED BY <3>1, <3>2, Cutting
  <2>3. bad \in SUBSET (1 .. MaxLen)
    <3>1. bad = {} \/ bad \in SUBSET (1 .. Blocks) BY Zenon DEF Init
    <3> QED BY <2>2, <3>1
  <2>4. /\ cryptCh = <<>> /\ cryptCh \in Seq(Buffers) /\ Len(cryptCh) = 0
        /\ writeCh = <<>> /\ writeCh \in Seq(Buffers) /\ Len(writeCh) = 0
        /\ out = <<>> /\ out \in Seq([idx : 1 .. MaxLen, len : 0 .. Block + Tag, whole : BOOLEAN])
        BY DEF Init
  <2>5. /\ readBuf \in Buffers /\ cryptBuf \in Buffers /\ panicked \in BOOLEAN
        /\ closed \in SUBSET Chans /\ failed \in SUBSET {"read", "write", "open"}
        BY <2>1, Zenon DEF Init
  <2>6. /\ encrypt \in BOOLEAN /\ srcLen \in 0 .. MaxLen /\ pos \in 0 .. srcLen
        /\ nonce \in 0 .. MaxLen + 1 /\ nn \in Int
        BY DEF Init
  <2> QED BY <2>3, <2>4, <2>5, <2>6 DEF Init, TypeOK
<1>0. Count(encrypt, srcLen) \in Nat BY <1>1, CutState
<1>2. Reading BY <1>0 DEF Init, Reading
<1>3. Ordered BY <1>0 DEF Init, Ordered
<1>4. Complete BY DEF Init, Complete, Sent, Had, Held
<1>5. Started BY DEF Init, Started
<1>6. Ended BY DEF Init, Ended
<1>7. Counted BY DEF Init, Counted
<1> QED BY <1>1, <1>2, <1>3, <1>4, <1>5, <1>6, <1>7 DEF IInv

(* The header cannot be written: nothing has started.                      *)
LEMMA WriteHeaderFailsInv == IInv /\ WriteHeaderFails => IInv'
<1> SUFFICES ASSUME IInv, WriteHeaderFails PROVE IInv'
    OBVIOUS
<1>0. TypeOK /\ Reading /\ Ordered /\ Complete /\ Started /\ Ended /\ Counted BY Zenon DEF IInv
<1> USE CryptoAssumption DEF WriteHeaderFails, inputs, readVars, cryptVars, writeVars
<1>1. TypeOK' BY <1>0 DEF TypeOK
<1>2. Reading' BY <1>0 DEF TypeOK, Reading, Started
<1>3. Ordered' BY <1>0 DEF TypeOK, Ordered, Started, Had, Held
<1>4. Complete' BY <1>0 DEF TypeOK, Complete, Started, Ended, Sent, Had, Held
<1>5. Started' BY <1>0 DEF TypeOK, Started
<1>6. Ended' BY <1>0 DEF TypeOK, Started, Ended
<1>7. Counted' BY <1>0 DEF TypeOK, Counted, Started
<1> QED BY <1>1, <1>2, <1>3, <1>4, <1>5, <1>6, <1>7 DEF IInv

(* The loops start, with empty channels.                                   *)
LEMMA GoLoopsInv == IInv /\ GoLoops => IInv'
<1> SUFFICES ASSUME IInv, GoLoops PROVE IInv'
    OBVIOUS
<1>0. TypeOK /\ Reading /\ Ordered /\ Complete /\ Started /\ Ended /\ Counted BY Zenon DEF IInv
<1> USE CryptoAssumption DEF GoLoops, inputs, readVars, cryptVars, writeVars
<1>1. TypeOK' BY <1>0 DEF TypeOK
<1>2. Reading' BY <1>0, CutState DEF TypeOK, Reading, Started
<1>3. Ordered'
  <2>1. Len(out) = 0 /\ Len(writeCh) = 0 /\ Len(cryptCh) = 0
        BY <1>0 DEF TypeOK, Reading, Complete, Started, Sent, Had, Held, GoLoops
  <2> QED BY <1>0, <2>1, CutState DEF Ordered, GoLoops, Had, Held, inputs
<1>4. Complete' BY <1>0 DEF TypeOK, Complete, Started, Ended, Sent, Had, Held
<1>5. Started' BY <1>0 DEF TypeOK, Started
<1>6. Ended' BY <1>0 DEF TypeOK, Started, Ended
<1>7. Counted'
  <2>1. Len(out) = 0
        BY <1>0 DEF TypeOK, Reading, Complete, Started, Sent, Had, Held, GoLoops
  <2> QED BY <1>0, <2>1, CutState DEF Counted, GoLoops, inputs
<1> QED BY <1>1, <1>2, <1>3, <1>4, <1>5, <1>6, <1>7 DEF IInv

(* A buffer of the pool is as good as new.                                 *)
LEMMA PoolBuffersAreReset ==
  ASSUME NEW p \in PoolBuffers
  PROVE  InitBuffer(p) = [plen |-> Block, short |-> FALSE]
<1>1. PICK n \in 1 .. Block : p = [plen |-> n, short |-> n # Block] BY DEF PoolBuffers
<1>2. WithRead(0) = [plen |-> Block, short |-> FALSE]
  <2>1. 0 - Tag <= 0 /\ 0 <= 0 /\ (Block # Block) = FALSE BY CryptoAssumption
  <2> QED BY <2>1 DEF WithRead
<1>3. CASE n = Block BY <1>1, <1>2, <1>3 DEF InitBuffer
<1>4. CASE n # Block BY <1>1, <1>2, <1>4 DEF InitBuffer
<1> QED BY <1>3, <1>4

(* The next block is read, or the source is at its end.                    *)
LEMMA ReadBlockInv == IInv /\ ReadBlock => IInv'
<1> SUFFICES ASSUME IInv, ReadBlock PROVE IInv'
    OBVIOUS
<1>0. TypeOK /\ Reading /\ Ordered /\ Complete /\ Started /\ Ended /\ Counted BY Zenon DEF IInv
<1> USE CryptoAssumption
<1> DEFINE k == Count(encrypt, srcLen)  r == Size(encrypt)
<1>1. /\ encrypt \in BOOLEAN /\ srcLen \in Nat /\ srcLen <= MaxLen
      /\ r \in Nat \ {0} /\ k \in Nat /\ k <= srcLen
      /\ r = IF encrypt THEN Block ELSE Block + Tag
      BY <1>0, CutState DEF Size
<1>2. /\ readPc = "get" /\ nonce' = nonce + 1
      /\ UNCHANGED <<inputs, cryptCh, cryptVars, writeCh, writeVars, closed, result, failed, panicked>>
      BY DEF ReadBlock
<1>3. nonce \in Nat /\ nonce <= k /\ pos = Upto(encrypt, srcLen, nonce) /\ pos \in 0 .. srcLen
      BY <1>0, <1>2 DEF TypeOK, Reading
<1>4. \/ /\ srcLen - pos >= r /\ pos' = pos + r /\ readPc' = "send"
         /\ readBuf' = [plen |-> Block, short |-> FALSE, idx |-> nonce + 1, n |-> r]
      \/ /\ 0 < srcLen - pos /\ srcLen - pos < r /\ pos' = srcLen /\ readPc' = "last"
         /\ readBuf' = Numbered(WithRead(srcLen - pos), nonce + 1, srcLen - pos)
      \/ srcLen - pos = 0 /\ readPc' = "eof" /\ UNCHANGED <<readBuf, pos>>
  <2>1. SrcSize([plen |-> Block, short |-> FALSE]) = r BY <1>1 DEF SrcSize
  <2>2. \A i, n : Numbered([plen |-> Block, short |-> FALSE], i, n)
                    = [plen |-> Block, short |-> FALSE, idx |-> i, n |-> n] BY DEF Numbered
  <2> QED BY <2>1, <2>2, PoolBuffersAreReset DEF ReadBlock
<1>5. nonce < k <=> pos < srcLen
  <2>1. nonce < k => pos < srcLen BY <1>1, <1>3, Cutting
  <2>2. nonce >= k => pos = srcLen BY <1>1, <1>3, Cutting
  <2> QED BY <2>1, <2>2, <1>1, <1>3
<1>6. nonce + 1 \in Nat /\ (nonce + 1) - 1 = nonce BY <1>3
<1>7. UNCHANGED <<encrypt, srcLen, bad, nn, cryptPc, writePc, cryptBuf, cryptCh, writeCh, report, out,
                  closed, result, failed, panicked>>
      BY <1>2 DEF inputs, cryptVars, writeVars
<1>8. CASE 0 < srcLen - pos
  <2>1. nonce < k BY <1>1, <1>3, <1>5, <1>8
  <2>2. /\ Upto(encrypt, srcLen, nonce + 1) = IF srcLen - pos < r THEN srcLen ELSE pos + r
        /\ srcLen - pos <= r <=> nonce + 1 = k
    <3> HIDE DEF r, k
    <3>1. /\ nonce < Count(encrypt, srcLen) BY <2>1 DEF k
    <3>2. /\ Upto(encrypt, srcLen, nonce + 1)
               = IF srcLen - pos < Size(encrypt) THEN srcLen ELSE pos + Size(encrypt)
          /\ srcLen - pos <= Size(encrypt) <=> nonce + 1 = Count(encrypt, srcLen)
      <4>1. encrypt \in BOOLEAN /\ srcLen \in Nat /\ nonce \in Nat /\ Upto(encrypt, srcLen, nonce) = pos
            BY <1>1, <1>3
      <4> QED BY <3>1, <4>1, NextBlock
    <3> QED BY <3>2 DEF r, k
  <2> HIDE DEF r, k
  <2>3. pos' = Upto(encrypt, srcLen, nonce + 1) /\ readPc' \in {"send", "last"}
        /\ (readPc' = "last" => nonce + 1 = k)
        BY <1>1, <1>3, <1>4, <1>8, <2>2
  <2>4. Part(encrypt, srcLen, nonce + 1) = pos' - pos
    <3> QED BY <1>3, <1>6, <2>3 DEF Part
  <2>5. pos' \in 0 .. srcLen /\ nonce + 1 <= k BY <1>1, <1>3, <1>4, <2>1
  <2>6. /\ readBuf' \in Buffers /\ readBuf'.idx = nonce + 1 /\ readBuf'.n = pos' - pos
        /\ readBuf'.plen = IF encrypt THEN readBuf'.n
                            ELSE IF readBuf'.n <= Tag THEN Block ELSE readBuf'.n - Tag
    <3>1. CASE srcLen - pos >= r
      <4>1. readBuf' = [plen |-> Block, short |-> FALSE, idx |-> nonce + 1, n |-> r] /\ pos' = pos + r
            BY <1>1, <1>3, <1>4, <3>1
      <4>2. nonce + 1 \in 0 .. MaxLen /\ r \in 0 .. Block + Tag /\ Block \in 0 .. Block
            BY <1>1, <1>3, <2>1
      <4> QED BY <1>1, <1>3, <4>1, <4>2 DEF Buffers
    <3>2. CASE srcLen - pos < r
      <4> DEFINE l == srcLen - pos  w == WithRead(l)
      <4>1. readBuf' = Numbered(w, nonce + 1, l) /\ pos' = srcLen
            BY <1>1, <1>3, <1>4, <1>8, <3>2
      <4>2. l \in 1 .. Block + Tag /\ (encrypt => l < Block) /\ (~encrypt => l < Block + Tag)
            BY <1>1, <1>3, <1>8, <3>2
      <4>3. nonce + 1 \in 0 .. MaxLen BY <1>1, <1>3, <2>1
      <4>4. pos' - pos = l BY <4>1
      <4> HIDE DEF l
      <4>5. /\ w.plen = IF encrypt THEN l ELSE IF l <= Tag THEN Block ELSE l - Tag
            /\ w.short \in BOOLEAN
            BY <4>2 DEF WithRead
      <4>6. w.plen \in 0 .. Block BY <4>2, <4>5
      <4> HIDE DEF w
      <4>7. readBuf' = [plen |-> w.plen, short |-> w.short, idx |-> nonce + 1, n |-> l]
            BY <4>1 DEF Numbered
      <4> QED BY <4>2, <4>3, <4>4, <4>5, <4>6, <4>7 DEF Buffers
    <3> QED BY <1>1, <1>3, <3>1, <3>2
  <2>7. Good(encrypt, srcLen, readBuf')
    <3>1. nonce + 1 \in 1 .. k BY <1>1, <1>3, <2>5
    <3> QED BY <2>4, <2>6, <3>1 DEF Good, k
  <2>8. TypeOK'
    <3>1. nonce' \in 0 .. MaxLen + 1 BY <1>1, <1>2, <1>3, <2>5
    <3> QED BY <1>0, <1>7, <2>3, <2>5, <2>6, <3>1 DEF TypeOK
  <2>9. Reading' BY <1>1, <1>2, <1>3, <1>7, <2>3, <2>5, <2>6, <2>7 DEF Reading, k
  <2>10. Ordered' BY <1>0, <1>7 DEF Ordered, Had, Held
  <2>11. Complete' BY <1>0, <1>2, <1>3, <1>7, <2>3 DEF Complete, Sent, Had, Held
  <2>12. Started' BY <1>0, <1>2, <1>7, <2>3 DEF Started
  <2>13. Ended' BY <1>0, <1>2, <1>7, <2>3 DEF Ended, Started
  <2>14. Counted' BY <1>0, <1>7 DEF Counted
  <2> QED BY <2>8, <2>9, <2>10, <2>11, <2>12, <2>13, <2>14 DEF IInv
<1>9. CASE srcLen - pos = 0
  <2>1. nonce = k BY <1>1, <1>3, <1>5, <1>9
  <2>2. readPc' = "eof" /\ UNCHANGED <<readBuf, pos>> BY <1>1, <1>4, <1>9
  <2>3. TypeOK'
    <3>1. nonce' \in 0 .. MaxLen + 1 BY <1>1, <1>2, <1>3, <2>1
    <3> QED BY <1>0, <1>7, <2>2, <3>1 DEF TypeOK
  <2>4. Reading' BY <1>1, <1>2, <1>3, <1>7, <2>1, <2>2 DEF Reading
  <2>5. Ordered' BY <1>0, <1>7 DEF Ordered, Had, Held
  <2>6. Complete' BY <1>0, <1>2, <1>3, <1>7, <2>1, <2>2 DEF Complete, Sent, Had, Held
  <2>7. Started' BY <1>0, <1>2, <1>7, <2>2 DEF Started
  <2>8. Ended' BY <1>0, <1>2, <1>7, <2>2 DEF Ended, Started
  <2>9. Counted' BY <1>0, <1>7 DEF Counted
  <2> QED BY <2>3, <2>4, <2>5, <2>6, <2>7, <2>8, <2>9 DEF IInv
<1> QED BY <1>1, <1>3, <1>8, <1>9

(* A failed read cancels the loops.                                        *)
LEMMA ReadFailsInv == IInv /\ ReadFails => IInv'
<1> SUFFICES ASSUME IInv, ReadFails PROVE IInv'
    OBVIOUS
<1>0. TypeOK /\ Reading /\ Ordered /\ Complete /\ Started /\ Ended /\ Counted BY Zenon DEF IInv
<1> USE CryptoAssumption DEF ReadFails, inputs, readVars, cryptVars, writeVars
<1>1. TypeOK'
  <2>1. closed' \in SUBSET Chans BY <1>0, Zenon DEF TypeOK, Chans
  <2> QED BY <1>0, <2>1 DEF TypeOK
<1>2. Reading' BY <1>0 DEF TypeOK, Reading, Started
<1>3. Ordered' BY <1>0 DEF TypeOK, Ordered, Started, Had, Held
<1>4. Complete' BY <1>0 DEF TypeOK, Complete, Started, Ended, Sent, Had, Held
<1>5. Started' BY <1>0 DEF TypeOK, Started
<1>6. Ended' BY <1>0 DEF TypeOK, Started, Ended
<1>7. Counted' BY <1>0 DEF TypeOK, Counted, Started
<1> QED BY <1>1, <1>2, <1>3, <1>4, <1>5, <1>6, <1>7 DEF IInv

(* The block that was read is the next one of cryptCh.                     *)
LEMMA SendBlockInv == IInv /\ SendBlock => IInv'
<1> SUFFICES ASSUME IInv, SendBlock PROVE IInv'
    OBVIOUS
<1>0. TypeOK /\ Reading /\ Ordered /\ Complete /\ Started /\ Ended /\ Counted BY Zenon DEF IInv
<1> USE CryptoAssumption DEF SendBlock, inputs, readVars, cryptVars, writeVars
<1>1. TypeOK' BY <1>0 DEF TypeOK
<1>2. Reading' BY <1>0 DEF TypeOK, Reading, Started
<1>5. Started' BY <1>0 DEF TypeOK, Started
<1>6. Ended' BY <1>0 DEF TypeOK, Started, Ended
<1>7. Counted' BY <1>0 DEF TypeOK, Counted, Started
<1> HIDE DEF SendBlock, inputs, readVars, cryptVars, writeVars
<1>a. /\ readPc \in {"send", "last"} /\ cryptCh' = Append(cryptCh, readBuf)
      /\ readPc' = IF readPc = "send" THEN "get" ELSE "eof"
      /\ UNCHANGED <<encrypt, srcLen, nonce, cryptPc, cryptBuf, writeCh, out, writePc, report, failed>>
      BY DEF SendBlock, inputs, cryptVars, writeVars
<1>b. /\ Len(cryptCh') = Len(cryptCh) + 1 /\ cryptCh'[Len(cryptCh) + 1] = readBuf
      /\ \A i \in 1 .. Len(cryptCh) : cryptCh'[i] = cryptCh[i]
      /\ Len(cryptCh) \in Nat /\ Len(out) \in Nat /\ Len(writeCh) \in Nat
      BY <1>0, <1>a DEF TypeOK
<1>c. cryptPc # "done" => Sent + 1 = nonce BY <1>0, <1>a DEF Complete
<1>d. Good(encrypt, srcLen, readBuf) /\ readBuf.idx = nonce /\ nonce \in Nat
      /\ (readPc = "last" => nonce = Count(encrypt, srcLen))
      BY <1>0, <1>a DEF Reading, TypeOK
<1>3. Ordered'
  <2>1. cryptPc' # "done" => \A i \in 1 .. Len(cryptCh') :
          Good(encrypt, srcLen, cryptCh'[i]) /\ cryptCh'[i].idx = Had + i
    <3> SUFFICES ASSUME cryptPc # "done", NEW i \in 1 .. Len(cryptCh')
                 PROVE  Good(encrypt, srcLen, cryptCh'[i]) /\ cryptCh'[i].idx = Had + i
        BY <1>a
    <3>1. CASE i = Len(cryptCh) + 1 BY <1>b, <1>c, <1>d, <3>1 DEF Sent, Had, Held
    <3>2. CASE i \in 1 .. Len(cryptCh) BY <1>0, <1>b, <3>2 DEF Ordered
    <3> QED BY <1>b, <3>1, <3>2
  <2>2. Had' = Had BY <1>a DEF Had, Held
  <2> HIDE DEF Had
  <2> QED BY <1>0, <1>a, <2>1, <2>2 DEF Ordered
<1>4. Complete'
  <2>1. Had' = Had /\ Had \in Nat BY <1>a, <1>b DEF Had, Held
  <2>2. Sent' = Sent + 1 BY <1>b, <2>1 DEF Sent
  <2> QED BY <1>a, <1>c, <1>d, <2>2 DEF Complete
<1> QED BY <1>1, <1>2, <1>3, <1>4, <1>5, <1>6, <1>7 DEF IInv

(* WriteTo gives up sending when writeLoop has reported.                   *)
LEMMA DoneWhileSendingInv == IInv /\ DoneWhileSending => IInv'
<1> SUFFICES ASSUME IInv, DoneWhileSending PROVE IInv'
    OBVIOUS
<1>0. TypeOK /\ Reading /\ Ordered /\ Complete /\ Started /\ Ended /\ Counted BY Zenon DEF IInv
<1> USE CryptoAssumption DEF DoneWhileSending, ReturnClosing, inputs, readVars, cryptVars, writeVars
<1>1. TypeOK'
  <2>1. closed' \in SUBSET Chans BY <1>0, Zenon DEF TypeOK, Chans
  <2> QED BY <1>0, <2>1 DEF TypeOK
<1>2. Reading' BY <1>0 DEF TypeOK, Reading, Started
<1>3. Ordered' BY <1>0 DEF TypeOK, Ordered, Started, Had, Held
<1>4. Complete' BY <1>0 DEF TypeOK, Complete, Started, Ended, Sent, Had, Held
<1>5. Started' BY <1>0 DEF TypeOK, Started
<1>6. Ended' BY <1>0 DEF TypeOK, Started, Ended
<1>7. Counted' BY <1>0 DEF TypeOK, Counted, Started
<1> QED BY <1>1, <1>2, <1>3, <1>4, <1>5, <1>6, <1>7 DEF IInv

(* At the end of the source all blocks were sent.                          *)
LEMMA CloseCryptChInv == IInv /\ CloseCryptCh => IInv'
<1> SUFFICES ASSUME IInv, CloseCryptCh PROVE IInv'
    OBVIOUS
<1>0. TypeOK /\ Reading /\ Ordered /\ Complete /\ Started /\ Ended /\ Counted BY Zenon DEF IInv
<1> USE CryptoAssumption DEF CloseCryptCh, inputs, readVars, cryptVars, writeVars
<1>1. TypeOK'
  <2>1. closed' \in SUBSET Chans BY <1>0, Zenon DEF TypeOK, Chans
  <2> QED BY <1>0, <2>1 DEF TypeOK
<1>2. Reading' BY <1>0 DEF TypeOK, Reading, Started
<1>3. Ordered' BY <1>0 DEF TypeOK, Ordered, Started, Had, Held
<1>4. Complete' BY <1>0 DEF TypeOK, Complete, Started, Ended, Sent, Had, Held
<1>5. Started' BY <1>0 DEF TypeOK, Started
<1>6. Ended' BY <1>0 DEF TypeOK, Started, Ended
<1>7. Counted' BY <1>0 DEF TypeOK, Counted, Started
<1> QED BY <1>1, <1>2, <1>3, <1>4, <1>5, <1>6, <1>7 DEF IInv

(* WriteTo returns what writeLoop reports.                                 *)
LEMMA DoneReceivedInv == IInv /\ DoneReceived => IInv'
<1> SUFFICES ASSUME IInv, DoneReceived PROVE IInv'
    OBVIOUS
<1>0. TypeOK /\ Reading /\ Ordered /\ Complete /\ Started /\ Ended /\ Counted BY Zenon DEF IInv
<1> USE CryptoAssumption DEF DoneReceived, ReturnClosing, inputs, readVars, cryptVars, writeVars
<1>1. TypeOK'
  <2>1. closed' \in SUBSET Chans BY <1>0, Zenon DEF TypeOK, Chans
  <2> QED BY <1>0, <2>1 DEF TypeOK
<1>2. Reading' BY <1>0 DEF TypeOK, Reading, Started
<1>3. Ordered' BY <1>0 DEF TypeOK, Ordered, Started, Had, Held
<1>4. Complete' BY <1>0 DEF TypeOK, Complete, Started, Ended, Sent, Had, Held
<1>5. Started' BY <1>0 DEF TypeOK, Started
<1>6. Ended' BY <1>0 DEF TypeOK, Started, Ended
<1>7. Counted' BY <1>0 DEF TypeOK, Counted, Started
<1> QED BY <1>1, <1>2, <1>3, <1>4, <1>5, <1>6, <1>7 DEF IInv

(* cryptLoop takes the next block.                                         *)
LEMMA CryptInv == IInv /\ Crypt => IInv'
<1> SUFFICES ASSUME IInv, Crypt PROVE IInv'
    OBVIOUS
<1>0. TypeOK /\ Reading /\ Ordered /\ Complete /\ Started /\ Ended /\ Counted BY Zenon DEF IInv
<1> USE CryptoAssumption DEF Crypt, inputs, readVars, cryptVars, writeVars
<1>1. TypeOK' BY <1>0 DEF TypeOK
<1>2. Reading' BY <1>0 DEF TypeOK, Reading, Started
<1>4. Complete' BY <1>0 DEF TypeOK, Complete, Started, Ended, Sent, Had, Held
<1>5. Started' BY <1>0 DEF TypeOK, Started
<1>6. Ended' BY <1>0 DEF TypeOK, Started, Ended
<1>7. Counted' BY <1>0 DEF TypeOK, Counted, Started
<1> HIDE DEF Crypt, inputs, readVars, cryptVars, writeVars
<1>a. /\ cryptPc = "recv" /\ cryptCh # <<>> /\ cryptBuf' = Head(cryptCh) /\ cryptCh' = Tail(cryptCh)
      /\ cryptPc' = IF encrypt \/ Authentic(cryptBuf') THEN "send" ELSE "reject"
      /\ UNCHANGED <<encrypt, srcLen, writeCh, out, writePc, report>>
      BY DEF Crypt, inputs, writeVars
<1>b. /\ Len(cryptCh') = Len(cryptCh) - 1 /\ cryptBuf' = cryptCh[1] /\ 1 \in 1 .. Len(cryptCh)
      /\ \A i \in 1 .. Len(cryptCh') : cryptCh'[i] = cryptCh[i + 1] /\ i + 1 \in 1 .. Len(cryptCh)
      /\ Len(cryptCh) \in Nat /\ Len(out) \in Nat /\ Len(writeCh) \in Nat
      BY <1>0, <1>a DEF TypeOK
<1>c. Had = Len(out) + Len(writeCh) /\ Had \in Nat /\ Had' = Had + 1 BY <1>a, <1>b DEF Had, Held
<1>d. \A i \in 1 .. Len(cryptCh) : Good(encrypt, srcLen, cryptCh[i]) /\ cryptCh[i].idx = Had + i
      BY <1>0, <1>a DEF Ordered
<1>3. Ordered'
  <2>1. Good(encrypt, srcLen, cryptBuf') /\ cryptBuf'.idx = Len(out) + Len(writeCh) + 1
        BY <1>b, <1>c, <1>d
  <2>2. cryptPc' = "send" => Crypted(encrypt, srcLen, cryptBuf')
        BY <1>a, <2>1 DEF Crypted, Authentic, SrcSize
  <2>3. ASSUME NEW i \in 1 .. Len(cryptCh')
        PROVE  Good(encrypt, srcLen, cryptCh'[i]) /\ cryptCh'[i].idx = Had' + i
    <3>1. /\ i \in Nat /\ cryptCh'[i] = cryptCh[i + 1] /\ Good(encrypt, srcLen, cryptCh[i + 1])
          /\ cryptCh[i + 1].idx = Had + (i + 1)
          BY <1>b, <1>d
    <3> HIDE DEF Had
    <3>2. Had + (i + 1) = Had' + i BY <1>c, <3>1
    <3> QED BY <3>1, <3>2
  <2> HIDE DEF Had
  <2> QED BY <1>0, <1>a, <2>1, <2>2, <2>3 DEF Ordered
<1> QED BY <1>1, <1>2, <1>3, <1>4, <1>5, <1>6, <1>7 DEF IInv

(* The block cryptLoop holds is the next one of writeCh.                   *)
LEMMA CryptSendsInv == IInv /\ CryptSends => IInv'
<1> SUFFICES ASSUME IInv, CryptSends PROVE IInv'
    OBVIOUS
<1>0. TypeOK /\ Reading /\ Ordered /\ Complete /\ Started /\ Ended /\ Counted BY Zenon DEF IInv
<1> USE CryptoAssumption DEF CryptSends, inputs, readVars, cryptVars, writeVars
<1>1. TypeOK' BY <1>0 DEF TypeOK
<1>2. Reading' BY <1>0 DEF TypeOK, Reading, Started
<1>4. Complete' BY <1>0 DEF TypeOK, Complete, Started, Ended, Sent, Had, Held
<1>5. Started' BY <1>0 DEF TypeOK, Started
<1>6. Ended' BY <1>0 DEF TypeOK, Started, Ended
<1>7. Counted' BY <1>0 DEF TypeOK, Counted, Started
<1> HIDE DEF CryptSends, inputs, readVars, cryptVars, writeVars
<1>a. /\ cryptPc = "send" /\ writeCh' = Append(writeCh, cryptBuf) /\ cryptPc' = "recv"
      /\ UNCHANGED <<encrypt, srcLen, cryptCh, out, writePc, report>>
      BY DEF CryptSends, inputs, writeVars
<1>b. /\ Len(writeCh') = Len(writeCh) + 1 /\ writeCh'[Len(writeCh) + 1] = cryptBuf
      /\ \A i \in 1 .. Len(writeCh) : writeCh'[i] = writeCh[i]
      /\ Len(out) \in Nat /\ Len(writeCh) \in Nat
      BY <1>0, <1>a DEF TypeOK
<1>3. Ordered'
  <2>1. Had' = Had BY <1>a, <1>b DEF Had, Held
  <2>2. ASSUME NEW i \in 1 .. Len(writeCh')
        PROVE  Crypted(encrypt, srcLen, writeCh'[i]) /\ writeCh'[i].idx = Len(out) + i
    <3>1. CASE i = Len(writeCh) + 1
      <4>1. Crypted(encrypt, srcLen, cryptBuf) /\ cryptBuf.idx = Len(out) + Len(writeCh) + 1
            BY <1>0, <1>a DEF Ordered
      <4> QED BY <1>b, <3>1, <4>1
    <3>2. CASE i \in 1 .. Len(writeCh)
      <4>1. Crypted(encrypt, srcLen, writeCh[i]) /\ writeCh[i].idx = Len(out) + i
            BY <1>0, <3>2, Zenon DEF Ordered
      <4> QED BY <1>b, <3>2, <4>1
    <3> QED BY <1>b, <3>1, <3>2
  <2> HIDE DEF Had
  <2> QED BY <1>0, <1>a, <2>1, <2>2 DEF Ordered
<1> QED BY <1>1, <1>2, <1>3, <1>4, <1>5, <1>6, <1>7 DEF IInv

(* The error of Open reaches writeLoop.                                    *)
LEMMA CryptErrSentInv == IInv /\ CryptErrSent => IInv'
<1> SUFFICES ASSUME IInv, CryptErrSent PROVE IInv'
    OBVIOUS
<1>0. TypeOK /\ Reading /\ Ordered /\ Complete /\ Started /\ Ended /\ Counted BY Zenon DEF IInv
<1> USE CryptoAssumption DEF CryptErrSent, CryptEnds, inputs, readVars, cryptVars, writeVars
<1>1. TypeOK'
  <2>1. closed' \in SUBSET Chans BY <1>0, Zenon DEF TypeOK, Chans
  <2> QED BY <1>0, <2>1 DEF TypeOK
<1>2. Reading' BY <1>0 DEF TypeOK, Reading, Started
<1>3. Ordered' BY <1>0 DEF TypeOK, Ordered, Started, Had, Held
<1>4. Complete' BY <1>0 DEF TypeOK, Complete, Started, Ended, Sent, Had, Held
<1>5. Started' BY <1>0 DEF TypeOK, Started
<1>6. Ended' BY <1>0 DEF TypeOK, Started, Ended
<1>7. Counted' BY <1>0 DEF TypeOK, Counted, Started
<1> QED BY <1>1, <1>2, <1>3, <1>4, <1>5, <1>6, <1>7 DEF IInv

(* A panic leaves the rest alone.                                          *)
LEMMA CryptErrPanicsInv == IInv /\ CryptErrPanics => IInv'
<1> SUFFICES ASSUME IInv, CryptErrPanics PROVE IInv'
    OBVIOUS
<1>0. TypeOK /\ Reading /\ Ordered /\ Complete /\ Started /\ Ended /\ Counted BY Zenon DEF IInv
<1> USE CryptoAssumption DEF CryptErrPanics, inputs, readVars, cryptVars, writeVars
<1>1. TypeOK' BY <1>0 DEF TypeOK
<1>2. Reading' BY <1>0 DEF TypeOK, Reading, Started
<1>3. Ordered' BY <1>0 DEF TypeOK, Ordered, Started, Had, Held
<1>4. Complete' BY <1>0 DEF TypeOK, Complete, Started, Ended, Sent, Had, Held
<1>5. Started' BY <1>0 DEF TypeOK, Started
<1>6. Ended' BY <1>0 DEF TypeOK, Started, Ended
<1>7. Counted' BY <1>0 DEF TypeOK, Counted, Started
<1> QED BY <1>1, <1>2, <1>3, <1>4, <1>5, <1>6, <1>7 DEF IInv

(* cryptLoop is cancelled.                                                 *)
LEMMA CryptCancelledInv == IInv /\ CryptCancelled => IInv'
<1> SUFFICES ASSUME IInv, CryptCancelled PROVE IInv'
    OBVIOUS
<1>0. TypeOK /\ Reading /\ Ordered /\ Complete /\ Started /\ Ended /\ Counted BY Zenon DEF IInv
<1> USE CryptoAssumption DEF CryptCancelled, CryptEnds, inputs, readVars, cryptVars, writeVars
<1>1. TypeOK'
  <2>1. closed' \in SUBSET Chans BY <1>0, Zenon DEF TypeOK, Chans
  <2> QED BY <1>0, <2>1 DEF TypeOK
<1>2. Reading' BY <1>0 DEF TypeOK, Reading, Started
<1>3. Ordered' BY <1>0 DEF TypeOK, Ordered, Started, Had, Held
<1>4. Complete' BY <1>0 DEF TypeOK, Complete, Started, Ended, Sent, Had, Held
<1>5. Started' BY <1>0 DEF TypeOK, Started
<1>6. Ended' BY <1>0 DEF TypeOK, Started, Ended
<1>7. Counted' BY <1>0 DEF TypeOK, Counted, Started
<1> QED BY <1>1, <1>2, <1>3, <1>4, <1>5, <1>6, <1>7 DEF IInv

(* cryptLoop ends after the last block.                                    *)
LEMMA CryptEndInv == IInv /\ CryptEnd => IInv'
<1> SUFFICES ASSUME IInv, CryptEnd PROVE IInv'
    OBVIOUS
<1>0. TypeOK /\ Reading /\ Ordered /\ Complete /\ Started /\ Ended /\ Counted BY Zenon DEF IInv
<1> USE CryptoAssumption DEF CryptEnd, CryptEnds, inputs, readVars, cryptVars, writeVars
<1>1. TypeOK'
  <2>1. closed' \in SUBSET Chans BY <1>0, Zenon DEF TypeOK, Chans
  <2> QED BY <1>0, <2>1 DEF TypeOK
<1>2. Reading' BY <1>0 DEF TypeOK, Reading, Started
<1>3. Ordered' BY <1>0 DEF TypeOK, Ordered, Started, Had, Held
<1>4. Complete' BY <1>0 DEF TypeOK, Complete, Started, Ended, Sent, Had, Held
<1>5. Started' BY <1>0 DEF TypeOK, Started
<1>6. Ended'
  <2>1. /\ cryptPc = "recv" /\ Len(cryptCh) = 0 /\ "cryptCh" \in closed /\ cryptPc' = "done"
        /\ closed' = closed \cup {"writeCh"}
        /\ UNCHANGED <<encrypt, srcLen, readPc, writeCh, report, out, result, failed>>
        BY DEF CryptEnd, CryptEnds, inputs, readVars, writeVars
  <2>2. readPc \in {"wait", "done"} /\ "read" \notin failed /\ "open" \notin failed
        BY <1>0, <2>1 DEF Ended
  <2>3. readPc = "wait" => Len(out) + Len(writeCh) = Count(encrypt, srcLen)
    <3>1. Len(out) \in Nat /\ Len(writeCh) \in Nat BY <1>0 DEF TypeOK
    <3> QED BY <1>0, <2>1, <2>2, <3>1 DEF Complete, Sent, Had, Held
  <2>4. readPc = "done" => report = "err" \/ "cancelCh" \in closed
        BY <1>0, <2>1 DEF TypeOK, Started, Ended
  <2> QED BY <1>0, <2>1, <2>2, <2>3, <2>4 DEF Ended
<1>7. Counted' BY <1>0 DEF TypeOK, Counted, Started
<1> QED BY <1>1, <1>2, <1>3, <1>4, <1>5, <1>6, <1>7 DEF IInv

(* writeLoop ends after the last block.                                    *)
LEMMA WriteEndInv == IInv /\ WriteEnd => IInv'
<1> SUFFICES ASSUME IInv, WriteEnd PROVE IInv'
    OBVIOUS
<1>0. TypeOK /\ Reading /\ Ordered /\ Complete /\ Started /\ Ended /\ Counted BY Zenon DEF IInv
<1> USE CryptoAssumption DEF WriteEnd, Report, inputs, readVars, cryptVars, writeVars
<1>1. TypeOK' BY <1>0 DEF TypeOK
<1>2. Reading' BY <1>0 DEF TypeOK, Reading, Started
<1>3. Ordered' BY <1>0 DEF TypeOK, Ordered, Started, Had, Held
<1>4. Complete' BY <1>0 DEF TypeOK, Complete, Started, Ended, Sent, Had, Held
<1>5. Started' BY <1>0 DEF TypeOK, Started
<1>6. Ended' BY <1>0 DEF TypeOK, Started, Ended
<1>7. Counted' BY <1>0 DEF TypeOK, Counted, Started
<1> QED BY <1>1, <1>2, <1>3, <1>4, <1>5, <1>6, <1>7 DEF IInv

(* writeLoop is cancelled.                                                 *)
LEMMA WriteCancelledInv == IInv /\ WriteCancelled => IInv'
<1> SUFFICES ASSUME IInv, WriteCancelled PROVE IInv'
    OBVIOUS
<1>0. TypeOK /\ Reading /\ Ordered /\ Complete /\ Started /\ Ended /\ Counted BY Zenon DEF IInv
<1> USE CryptoAssumption DEF WriteCancelled, Report, inputs, readVars, cryptVars, writeVars
<1>1. TypeOK' BY <1>0 DEF TypeOK
<1>2. Reading' BY <1>0 DEF TypeOK, Reading, Started
<1>3. Ordered' BY <1>0 DEF TypeOK, Ordered, Started, Had, Held
<1>4. Complete' BY <1>0 DEF TypeOK, Complete, Started, Ended, Sent, Had, Held
<1>5. Started' BY <1>0 DEF TypeOK, Started
<1>6. Ended' BY <1>0 DEF TypeOK, Started, Ended
<1>7. Counted' BY <1>0 DEF TypeOK, Counted, Started
<1> QED BY <1>1, <1>2, <1>3, <1>4, <1>5, <1>6, <1>7 DEF IInv

(* A write, whole or not, takes the next block to the output.              *)
LEMMA WriteInv ==
  ASSUME IInv, NEW n \in 0 .. Block + Tag, NEW ok \in BOOLEAN, Write(n, ok)
  PROVE  IInv'
<1>0. TypeOK /\ Reading /\ Ordered /\ Complete /\ Started /\ Ended /\ Counted BY Zenon DEF IInv
<1> USE CryptoAssumption
<1> DEFINE b == writeCh[1]  o == [idx |-> b.idx, len |-> n, whole |-> ok]
<1>a. /\ writePc = "recv" /\ writeCh # <<>> /\ writeCh' = Tail(writeCh) /\ b = Head(writeCh)
      /\ (ok => n = ResultSize(b)) /\ out' = Append(out, o)
      /\ nn' = nn + (IF encrypt THEN n - Tag ELSE n + Tag)
      BY <1>0 DEF Write, TypeOK
<1>b. UNCHANGED <<encrypt, srcLen, bad, pos, nonce, readPc, readBuf, cryptCh, cryptPc, cryptBuf,
                  closed, result, panicked>>
      BY DEF Write, inputs, readVars, cryptVars
<1>c. /\ ok => UNCHANGED <<writePc, report, failed>>
      /\ ~ok => writePc' = "report" /\ report' = "err" /\ failed' = failed \cup {"write"}
      BY DEF Write, Report
<1>d. /\ Len(writeCh) \in Nat /\ Len(out) \in Nat /\ Len(writeCh') = Len(writeCh) - 1
      /\ 1 \in 1 .. Len(writeCh) /\ b \in Buffers /\ Len(out') = Len(out) + 1
      BY <1>0, <1>a DEF TypeOK
<1>e. /\ out'[Len(out) + 1] = o /\ \A i \in 1 .. Len(out) : out'[i] = out[i]
      /\ \A i \in 1 .. Len(writeCh') : writeCh'[i] = writeCh[i + 1] /\ i + 1 \in 1 .. Len(writeCh)
  <2>1. /\ out \in Seq([idx : 1 .. MaxLen, len : 0 .. Block + Tag, whole : BOOLEAN])
        /\ writeCh \in Seq(Buffers) BY <1>0 DEF TypeOK
  <2>2. out' = Append(out, o) /\ writeCh # <<>> /\ writeCh' = Tail(writeCh) BY <1>a
  <2> HIDE DEF o, b
  <2>3. out'[Len(out) + 1] = o /\ \A i \in 1 .. Len(out) : out'[i] = out[i] BY <2>1, <2>2
  <2>4. \A i \in 1 .. Len(writeCh') : writeCh'[i] = writeCh[i + 1] /\ i + 1 \in 1 .. Len(writeCh)
        BY <2>1, <2>2, <1>d
  <2> QED BY <2>3, <2>4, Zenon
<1>f. Crypted(encrypt, srcLen, b) /\ b.idx = Len(out) + 1 BY <1>0, <1>d DEF Ordered
<1>g. /\ b.idx \in 1 .. Count(encrypt, srcLen) /\ b.n = Part(encrypt, srcLen, Len(out) + 1)
      /\ (encrypt => b.plen = b.n) /\ (~encrypt => b.plen + Tag = b.n)
      BY <1>f DEF Crypted, Good
<1>h. /\ encrypt \in BOOLEAN /\ srcLen \in Nat /\ srcLen <= MaxLen
      /\ Count(encrypt, srcLen) \in Nat /\ Count(encrypt, srcLen) <= srcLen
      BY <1>0, CutState
<1>i. b.plen \in Nat /\ b.n \in Nat BY <1>d DEF Buffers
<1>j. report = "none" BY <1>0, <1>a DEF Started
<1>k. ok => n = IF encrypt THEN b.n + Tag ELSE b.n - Tag
      BY <1>a, <1>g, <1>h, <1>i DEF ResultSize
<1> HIDE DEF b
<1>1. TypeOK'
  <2>1. o \in [idx : 1 .. MaxLen, len : 0 .. Block + Tag, whole : BOOLEAN]
    <3>1. b.idx \in 1 .. MaxLen BY <1>g, <1>h
    <3> QED BY <3>1
  <2>2. out' \in Seq([idx : 1 .. MaxLen, len : 0 .. Block + Tag, whole : BOOLEAN])
        BY <1>0, <1>a, <2>1 DEF TypeOK
  <2>3. writeCh' \in Seq(Buffers) /\ Len(writeCh') <= BlockQueue BY <1>0, <1>a, <1>d DEF TypeOK
  <2>4. failed' \in SUBSET {"read", "write", "open"} BY <1>0, <1>c DEF TypeOK
  <2>5. nn' \in Int BY <1>0, <1>a DEF TypeOK
  <2> HIDE DEF o
  <2> QED BY <1>0, <1>b, <1>c, <2>2, <2>3, <2>4, <2>5 DEF TypeOK
<1>2. Reading' BY <1>0, <1>b DEF Reading
<1>x. Had' = Had /\ Sent' = Sent BY <1>b, <1>d DEF Had, Sent, Held
<1>3. Ordered'
  <2>1. ASSUME NEW i \in 1 .. Len(out')
        PROVE  /\ out'[i].idx = i
               /\ out'[i].whole => out'[i].len = IF encrypt THEN Part(encrypt, srcLen, i) + Tag
                                                            ELSE Part(encrypt, srcLen, i) - Tag
               /\ ~out'[i].whole => i = Len(out') /\ report' = "err"
    <3>1. CASE i \in 1 .. Len(out)
      <4>1. /\ out[i].idx = i /\ out[i].whole
            /\ out[i].len = IF encrypt THEN Part(encrypt, srcLen, i) + Tag
                                        ELSE Part(encrypt, srcLen, i) - Tag
            BY <1>0, <1>j, <3>1 DEF Ordered
      <4> QED BY <1>e, <3>1, <4>1
    <3>2. CASE i = Len(out) + 1
      <4>1. out'[i] = o /\ i = Len(out') BY <1>d, <1>e, <3>2
      <4>2. o.idx = b.idx /\ o.len = n /\ o.whole = ok OBVIOUS
      <4> HIDE DEF o
      <4> QED BY <1>c, <1>f, <1>g, <1>k, <3>2, <4>1, <4>2
    <3> QED BY <1>d, <3>1, <3>2
  <2>2. Len(out') <= Count(encrypt, srcLen) BY <1>d, <1>f, <1>g, <1>h
  <2>3. ASSUME NEW i \in 1 .. Len(writeCh')
        PROVE  Crypted(encrypt, srcLen, writeCh'[i]) /\ writeCh'[i].idx = Len(out') + i
    <3>1. /\ i \in Nat /\ writeCh'[i] = writeCh[i + 1] /\ Crypted(encrypt, srcLen, writeCh[i + 1])
          /\ writeCh[i + 1].idx = Len(out) + (i + 1)
      <4>1. \A j \in 1 .. Len(writeCh) : Crypted(encrypt, srcLen, writeCh[j]) /\ writeCh[j].idx = Len(out) + j
            BY <1>0, Zenon DEF Ordered
      <4>2. i \in Nat BY <1>d
      <4>3. writeCh'[i] = writeCh[i + 1] /\ i + 1 \in 1 .. Len(writeCh) BY <1>e, Zenon
      <4> QED BY <4>1, <4>2, <4>3, Zenon
    <3>2. Len(out) + (i + 1) = Len(out') + i BY <1>d, <3>1
    <3> QED BY <3>1, <3>2
  <2>4. Len(out') + Len(writeCh') = Len(out) + Len(writeCh) BY <1>d
  <2> HIDE DEF Had
  <2> QED BY <1>0, <1>b, <1>x, <2>1, <2>2, <2>3, <2>4 DEF Ordered
<1>4. Complete'
  <2>1. "read" \in failed' <=> "read" \in failed BY <1>c
  <2> HIDE DEF Sent
  <2> QED BY <1>0, <1>b, <1>x, <2>1 DEF Complete
<1>5. Started' BY <1>0, <1>a, <1>b, <1>c DEF Started
<1>6. Ended'
  <2>1. /\ "read" \in failed' <=> "read" \in failed
        /\ "open" \in failed' <=> "open" \in failed
        /\ "write" \in failed' => "write" \in failed \/ report' = "err"
        BY <1>c
  <2>2. Len(out') + Len(writeCh') = Len(out) + Len(writeCh) BY <1>d
  <2>3. result # "nil" /\ report' \in {"none", "err"} BY <1>0, <1>c, <1>j DEF Ended
  <2> QED BY <1>0, <1>b, <1>j, <2>1, <2>2, <2>3 DEF Ended
<1>7. Counted'
  <2>1. ASSUME "write" \notin failed'
        PROVE  nn' = (IF encrypt THEN 0 ELSE HeaderLen) + Upto(encrypt, srcLen, Len(out'))
    <3>1. ok /\ "write" \notin failed BY <1>c, <2>1
    <3>2. nn = (IF encrypt THEN 0 ELSE HeaderLen) + Upto(encrypt, srcLen, Len(out))
          BY <1>0, <1>a, <3>1 DEF Counted
    <3>3. nn' = nn + b.n
      <4>1. nn \in Int /\ n \in Int /\ b.n \in Int BY <1>0, <1>i DEF TypeOK
      <4>2. nn' = nn + (IF encrypt THEN n - Tag ELSE n + Tag) BY <1>a
      <4>3. n = IF encrypt THEN b.n + Tag ELSE b.n - Tag BY <1>k, <3>1
      <4> QED BY <4>1, <4>2, <4>3
    <3>4. Upto(encrypt, srcLen, Len(out) + 1) = Upto(encrypt, srcLen, Len(out)) + b.n
      <4>1. (Len(out) + 1) - 1 = Len(out) /\ Len(out) + 1 \in 1 .. Count(encrypt, srcLen)
            BY <1>d, <1>f, <1>g
      <4> DEFINE j == Len(out) + 1
      <4>2. encrypt \in BOOLEAN /\ srcLen \in Nat /\ j \in 1 .. Count(encrypt, srcLen) BY <1>h, <4>1
      <4> HIDE DEF j
      <4>3. Upto(encrypt, srcLen, j) = Upto(encrypt, srcLen, j - 1) + Part(encrypt, srcLen, j)
            BY <4>2, Parts, Zenon
      <4> QED BY <1>g, <4>1, <4>3 DEF j
    <3>5. Upto(encrypt, srcLen, Len(out)) \in Nat BY <1>d, <1>h, Cutting
    <3> QED BY <1>d, <1>i, <3>2, <3>3, <3>4, <3>5
  <2> QED BY <1>b, <2>1 DEF Counted
<1> QED BY <1>1, <1>2, <1>3, <1>4, <1>5, <1>6, <1>7 DEF IInv

(* Every step preserves the invariant.                                     *)
LEMMA StepInv == IInv /\ [Next]_vars => IInv'
<1> SUFFICES ASSUME IInv, [Next]_vars PROVE IInv'
    OBVIOUS
<1>1. CASE WriteHeaderFails BY <1>1, WriteHeaderFailsInv
<1>2. CASE GoLoops BY <1>2, GoLoopsInv
<1>3. CASE ReadBlock BY <1>3, ReadBlockInv
<1>4. CASE ReadFails BY <1>4, ReadFailsInv
<1>5. CASE SendBlock BY <1>5, SendBlockInv
<1>6. CASE DoneWhileSending BY <1>6, DoneWhileSendingInv
<1>7. CASE CloseCryptCh BY <1>7, CloseCryptChInv
<1>8. CASE DoneReceived BY <1>8, DoneReceivedInv
<1>9. CASE Crypt BY <1>9, CryptInv
<1>10. CASE CryptSends BY <1>10, CryptSendsInv
<1>11. CASE CryptErrSent BY <1>11, CryptErrSentInv
<1>12. CASE CryptErrPanics BY <1>12, CryptErrPanicsInv
<1>13. CASE CryptCancelled BY <1>13, CryptCancelledInv
<1>14. CASE CryptEnd BY <1>14, CryptEndInv
<1>15. CASE WriteEnd BY <1>15, WriteEndInv
<1>16. CASE WriteCancelled BY <1>16, WriteCancelledInv
<1>17. CASE \E n \in 0 .. Block + Tag, ok \in BOOLEAN : Write(n, ok) BY <1>17, WriteInv
<1>18. CASE UNCHANGED vars
  <2>1. TypeOK /\ Reading /\ Ordered /\ Complete /\ Started /\ Ended /\ Counted BY Zenon DEF IInv
  <2>2. UNCHANGED <<encrypt, srcLen, bad, pos, nonce, nn, readPc, readBuf, cryptCh, cryptPc, cryptBuf,
                    writeCh, writePc, report, out, closed, result, failed, panicked>>
        BY <1>18 DEF vars, inputs, readVars, cryptVars, writeVars
  <2>3. TypeOK' BY <2>1, <2>2 DEF TypeOK
  <2>4. Reading' /\ Started' BY <2>1, <2>2 DEF Reading, Started
  <2>5. Ordered' BY <2>1, <2>2 DEF Ordered, Had, Held
  <2>6. Complete' BY <2>1, <2>2 DEF Complete, Sent, Had, Held
  <2>7. Ended' /\ Counted' BY <2>1, <2>2 DEF Ended, Counted
  <2> QED BY <2>3, <2>4, <2>5, <2>6, <2>7 DEF IInv
<1> QED BY <1>1, <1>2, <1>3, <1>4, <1>5, <1>6, <1>7, <1>8, <1>9,
           <1>10, <1>11, <1>12, <1>13, <1>14, <1>15, <1>16, <1>17, <1>18, Zenon
        DEF Next, Reader, Crypter, Writer

---------------------------------------------------------------------------
(* The inductive invariant holds in every reachable state.                 *)
THEOREM PipeInvariance == Spec => []IInv
BY InitInv, StepInv, PTL DEF Spec

(* The variables have their types.                                         *)
THEOREM PipeTypes == Spec => []TypeOK
<1>1. IInv => TypeOK BY Zenon DEF IInv
<1> QED BY <1>1, PipeInvariance, PTL

(* The output is the source's blocks in order, each of the right length.   *)
LEMMA OutOfInvariant == IInv => OutInOrder
<1> SUFFICES ASSUME IInv, NEW i \in 1 .. Len(out)
             PROVE  /\ out[i].idx = i
                    /\ out[i].whole =>
                         out[i].len = LET left == srcLen - (i - 1) * ReadSize
                                          read == IF left < ReadSize THEN left ELSE ReadSize
                                      IN  IF encrypt THEN read + Tag ELSE read - Tag
                    /\ ~out[i].whole => i = Len(out)
    BY DEF OutInOrder
<1>1. TypeOK /\ Ordered BY Zenon DEF IInv
<1>2. encrypt \in BOOLEAN /\ srcLen \in Nat /\ Size(encrypt) = ReadSize BY <1>1, CutState
<1>3. i \in 1 .. Count(encrypt, srcLen)
  <2>1. Len(out) \in Nat BY <1>1 DEF TypeOK
  <2>2. Len(out) <= Count(encrypt, srcLen) /\ Count(encrypt, srcLen) \in Nat
        BY <1>1, CutState DEF Ordered
  <2> QED BY <2>1, <2>2
<1>4. Part(encrypt, srcLen, i) = LET left == srcLen - (i - 1) * ReadSize
                                 IN  IF left < ReadSize THEN left ELSE ReadSize
      BY <1>2, <1>3, Parts
<1>5. /\ out[i].idx = i /\ (~out[i].whole => i = Len(out))
      /\ out[i].whole => out[i].len = IF encrypt THEN Part(encrypt, srcLen, i) + Tag
                                                 ELSE Part(encrypt, srcLen, i) - Tag
      BY <1>1, Zenon DEF Ordered
<1> QED BY <1>4, <1>5

(* When WriteTo has returned no error, everything went through.            *)
LEMMA SuccessOfInvariant == IInv => SuccessMeansAll
<1> SUFFICES ASSUME IInv, result = "nil"
             PROVE  /\ failed = {} /\ Len(out) = Blocks
                    /\ nn = IF encrypt THEN srcLen ELSE HeaderLen + srcLen
    BY DEF SuccessMeansAll
<1>1. TypeOK /\ Started /\ Ended /\ Counted BY Zenon DEF IInv
<1>2. report = "nil" /\ "read" \notin failed /\ "cancelCh" \notin closed /\ "write" \notin failed
      BY <1>1 DEF Ended
<1>3. /\ writeCh = <<>> /\ cryptPc = "done" /\ Len(out) + Len(writeCh) = Count(encrypt, srcLen)
      /\ "open" \notin failed
      BY <1>1, <1>2 DEF Ended
<1>4. Len(out) = Count(encrypt, srcLen)
  <2>1. Len(out) \in Nat /\ Len(writeCh) = 0 BY <1>1, <1>3 DEF TypeOK
  <2> QED BY <1>3, <2>1
<1>5. failed = {} BY <1>1, <1>2, <1>3 DEF TypeOK
<1>6. writePc # "none" BY <1>1, <1>2 DEF Started
<1>7. nn = (IF encrypt THEN 0 ELSE HeaderLen) + srcLen BY <1>1, <1>2, <1>4, <1>6, CutState DEF Counted
<1> QED BY <1>1, <1>4, <1>5, <1>7, CutState, CryptoAssumption

(* Whatever the sizes, the queues and the order the goroutines run in, the *)
(* destination gets the blocks in order and each as long as it should be.  *)
THEOREM OutIsInOrder == Spec => []OutInOrder
BY PipeInvariance, OutOfInvariant, PTL

(* WriteTo returns nil only when all blocks were written and nothing       *)
(* failed, and nn is then the length of the source.                        *)
THEOREM SuccessIsComplete == Spec => []SuccessMeansAll
BY PipeInvariance, SuccessOfInvariant, PTL

(* The deferred close of cryptErrCh never comes before writeLoop's report. *)
THEOREM ErrChannelIsOpen == Spec => []ErrChannelOutlivesWriter
<1>1. IInv => ErrChannelOutlivesWriter
  <2>1. IInv => Started BY Zenon DEF IInv
  <2> QED BY <2>1 DEF Started, ErrChannelOutlivesWriter
<1> QED BY <1>1, PipeInvariance, PTL

---------------------------------------------------------------------------
(* The blocks that were written whole, and the outcome, as BlockCopy has   *)
(* them.                                                                   *)
Whole == IF out # <<>> /\ ~out[Len(out)].whole THEN Len(out) - 1 ELSE Len(out)
Outcome == CASE result = "none" -> "running" [] result = "nil" -> "ok" [] OTHER -> "err"

(* As long as no write was cut short, all blocks of the output are whole.  *)
LEMMA WholeIsOut == ASSUME TypeOK, Ordered, report # "err" PROVE Whole = Len(out)
<1>1. CASE out = <<>> BY <1>1 DEF Whole
<1>2. CASE out # <<>>
  <2>1. Len(out) \in 1 .. Len(out) BY <1>2 DEF TypeOK
  <2>2. out[Len(out)].whole BY <2>1 DEF Ordered
  <2> QED BY <2>2 DEF Whole
<1> QED BY <1>1, <1>2

(* Every step copies a block, ends the copy, or changes nothing that       *)
(* BlockCopy sees.                                                         *)
LEMMA StepCopies ==
  ASSUME IInv, IInv', [Next]_vars
  PROVE  \/ /\ Outcome = "running" /\ Whole < Blocks /\ Whole' = Whole + 1
            /\ UNCHANGED <<Blocks, Outcome>>
         \/ /\ Outcome = "running" /\ Whole = Blocks /\ Outcome' = "ok"
            /\ UNCHANGED <<Blocks, Whole>>
         \/ Outcome = "running" /\ Outcome' = "err" /\ UNCHANGED <<Blocks, Whole>>
         \/ UNCHANGED <<Blocks, Whole, Outcome>>
<1>1. TypeOK /\ Ordered /\ Started /\ Ended BY Zenon DEF IInv
<1>2. CASE \E n \in 0 .. Block + Tag, ok \in BOOLEAN : Write(n, ok)
  <2>1. PICK n \in 0 .. Block + Tag, ok \in BOOLEAN : Write(n, ok) BY <1>2
  <2>2. /\ writePc = "recv" /\ out' = Append(out, [idx |-> Head(writeCh).idx, len |-> n, whole |-> ok])
        /\ UNCHANGED <<encrypt, srcLen, result>>
        BY <2>1 DEF Write, inputs
  <2>3. result = "none" /\ report = "none" BY <1>1, <2>2 DEF TypeOK, Started
  <2>4. Outcome = "running" /\ Whole = Len(out) BY <1>1, <2>3, WholeIsOut DEF Outcome
  <2>5. UNCHANGED <<Blocks, Outcome>> BY <2>2 DEF Blocks, ReadSize, Outcome
  <2>6. Len(out') = Len(out) + 1 /\ Len(out) \in Nat /\ out' # <<>> /\ out'[Len(out')].whole = ok
    <3> DEFINE o == [idx |-> Head(writeCh).idx, len |-> n, whole |-> ok]
    <3>1. Len(out') = Len(out) + 1 /\ Len(out) \in Nat /\ out'[Len(out) + 1] = o /\ out' = Append(out, o)
          BY <1>1, <2>2 DEF TypeOK
    <3>2. o.whole = ok OBVIOUS
    <3> HIDE DEF o
    <3>3. out' # <<>>
      <4>1. Len(out') # 0 BY <3>1
      <4> QED BY <4>1
    <3>4. out'[Len(out')] = o BY <3>1
    <3> QED BY <3>1, <3>2, <3>3, <3>4
  <2>7. CASE ~ok
    <3>1. Whole' = Len(out') - 1 BY <2>6, <2>7 DEF Whole
    <3> QED BY <2>4, <2>5, <2>6, <3>1
  <2>8. CASE ok
    <3>1. Whole' = Len(out') BY <2>6, <2>8 DEF Whole
    <3>2. Len(out') <= Blocks'
      <4>1. TypeOK' /\ Ordered' BY Zenon DEF IInv
      <4>2. Len(out') <= Count(encrypt', srcLen') BY <4>1 DEF Ordered
      <4>3. Blocks' = Count(encrypt', srcLen') BY DEF Blocks, ReadSize, Count, Size
      <4> QED BY <4>2, <4>3
    <3>3. Blocks \in Nat BY <1>1, CutState
    <3>4. Len(out) < Blocks BY <2>5, <2>6, <3>2, <3>3
    <3> QED BY <2>4, <2>5, <2>6, <3>1, <3>4
  <2> QED BY <2>7, <2>8
<1>3. CASE WriteHeaderFails
  <2>1. /\ readPc = "init" /\ result' = "err" /\ UNCHANGED <<encrypt, srcLen, out>>
        BY <1>3 DEF WriteHeaderFails, inputs, writeVars
  <2>2. result = "none" BY <1>1, <2>1 DEF Started
  <2> QED BY <2>1, <2>2 DEF Outcome, Whole, Blocks, ReadSize
<1>4. CASE DoneWhileSending \/ DoneReceived
  <2>1. /\ readPc # "done" /\ result' \in {"err", report} /\ readPc' = "done" /\ writePc = "report"
        /\ UNCHANGED <<encrypt, srcLen, out, report>>
        BY <1>4 DEF DoneWhileSending, DoneReceived, ReturnClosing, inputs
  <2>2. result = "none" /\ report \in {"nil", "err"} BY <1>1, <2>1 DEF Started, TypeOK
  <2>3. UNCHANGED <<Blocks, Whole>> BY <2>1 DEF Blocks, ReadSize, Whole
  <2>4. CASE result' = "err" BY <2>2, <2>3, <2>4 DEF Outcome
  <2>5. CASE result' = "nil"
    <3>1. Len(out') = Blocks'
      <4>1. SuccessMeansAll'
        <5>1. IInv' => SuccessMeansAll' BY SuccessOfInvariant, PTL
        <5> QED BY <5>1
      <4> QED BY <2>5, <4>1 DEF SuccessMeansAll
    <3>2. report # "err" BY <2>1, <2>2, <2>5
    <3>3. Whole = Blocks BY <1>1, <2>1, <2>3, <3>1, <3>2, WholeIsOut
    <3> QED BY <2>2, <2>3, <2>5, <3>3 DEF Outcome
  <2> QED BY <2>1, <2>2, <2>4, <2>5
<1>5. CASE UNCHANGED <<encrypt, srcLen, out, result>> BY <1>5 DEF Outcome, Whole, Blocks, ReadSize
<1>6. GoLoops \/ ReadBlock \/ ReadFails \/ SendBlock \/ CloseCryptCh \/ Crypt \/ CryptSends
      \/ CryptErrSent \/ CryptErrPanics \/ CryptCancelled \/ CryptEnd \/ WriteEnd \/ WriteCancelled
      \/ UNCHANGED vars => UNCHANGED <<encrypt, srcLen, out, result>>
  <2> USE DEF inputs, writeVars
  <2>1. GoLoops \/ ReadBlock \/ ReadFails \/ SendBlock \/ CloseCryptCh
          => UNCHANGED <<encrypt, srcLen, out, result>>
        BY DEF GoLoops, ReadBlock, ReadFails, SendBlock, CloseCryptCh
  <2>2. Crypt \/ CryptSends \/ CryptErrSent \/ CryptErrPanics \/ CryptCancelled \/ CryptEnd
          => UNCHANGED <<encrypt, srcLen, out, result>>
        BY DEF Crypt, CryptSends, CryptErrSent, CryptErrPanics, CryptCancelled, CryptEnd
  <2>3. WriteEnd \/ WriteCancelled => UNCHANGED <<encrypt, srcLen, out, result>>
        BY DEF WriteEnd, WriteCancelled
  <2>4. UNCHANGED vars => UNCHANGED <<encrypt, srcLen, out, result>> BY DEF vars
  <2> QED BY <2>1, <2>2, <2>3, <2>4
<1> QED BY <1>2, <1>3, <1>4, <1>5, <1>6, Zenon DEF Next, Reader, Crypter, Writer

(* WriteTo implements BlockCopy: the blocks reach the destination one by   *)
(* one, success is reported when all have, and then nothing is written.    *)
THEOREM PipeCopiesBlocks == Spec => CopiesBlocks
<1>1. Init => Promise!CopyInit
  <2> SUFFICES ASSUME Init PROVE Promise!CopyInit
      OBVIOUS
  <2>1. TypeOK BY InitInv, Zenon DEF IInv
  <2>2. Blocks \in Nat BY <2>1, CutState
  <2>3. out = <<>> /\ Len(out) = 0 /\ result = "none" BY DEF Init
  <2> QED BY <2>2, <2>3 DEF Promise!CopyInit
<1>2. IInv /\ IInv' /\ [Next]_vars => [Promise!CopyNext]_(Promise!copyVars)
  <2> SUFFICES ASSUME IInv, IInv', [Next]_vars PROVE [Promise!CopyNext]_(Promise!copyVars)
      OBVIOUS
  <2> QED BY StepCopies, Zenon DEF Promise!CopyNext, Promise!CopyBlock, Promise!Succeed, Promise!Fail,
                            Promise!copyVars, Whole, Outcome
<1> QED BY <1>1, <1>2, PipeInvariance, PTL DEF Spec, CopiesBlocks, Promise!CopySpec

===========================================================================
