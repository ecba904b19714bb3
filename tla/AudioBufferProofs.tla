------------------------- MODULE AudioBufferProofs -------------------------
(***************************************************************************)
(* Proofs about the ring buffer, for every size of it: types, the order of *)
(* the bytes that wait, and that nobody writes over what is being decoded. *)
(***************************************************************************)
EXTENDS AudioBuffer, TLAPS

\* What types need to be kept: bytes read but not committed fit into the play,
\* and a release under way ends inside the buffer.
FlagsOK ==
  /\ isEmpty \in BOOLEAN /\ isFull \in BOOLEAN /\ stream \in BOOLEAN
  /\ eof \in BOOLEAN /\ ended \in BOOLEAN /\ stale \in BOOLEAN /\ spoiled \in BOOLEAN

DataOK ==
  /\ readPtr \in 0..BuffEnd /\ writePtr \in 0..BuffEnd
  /\ writeSpace \in 0..MaxRet /\ readSpace \in 0..MaxRet
  /\ memory \in [Address -> Int]
  /\ loopPc \in {"fill", "read", "commit", "reset"} /\ got \in 0..MaxRet
  /\ audioPc \in {"ask", "decode", "check", "advance"}
  /\ block \in [at : 0..BuffEnd, len : 0..MaxRet] /\ used \in 0..(MaxRet + 1)
  /\ kind \in {"stream", "file"}
  /\ readPos \in Nat /\ written \in 0..Length /\ taken \in Nat
  /\ loopPc = "commit" => written + got <= Length
  /\ audioPc = "advance" => block.at + used <= BuffEnd /\ readPtr + used <= BuffEnd

TypeInv == FlagsOK /\ DataOK

\* The pointers and the two flags that tell empty from full.
Geometry ==
  /\ isEmpty => readPtr = writePtr /\ ~isFull
  /\ readPtr = writePtr => isEmpty \/ isFull
  /\ isFull => readPtr = writePtr \/ (readPtr = 0 /\ writePtr = Main)
  /\ ~isEmpty /\ writePtr <= readPtr => Res <= writePtr /\ writePtr <= Main
  /\ written - taken = bufferFilled

\* Byte i of those that wait is at every address where the reader may meet it.
Contents ==
  \A i \in 0..(written - taken - 1), a \in Address :
    (a = readPtr + i \/ (~isEmpty /\ writePtr <= readPtr /\ a = readPtr + i - Main))
      => memory[a] = taken + i

\* The room the loop task was given stays free until it commits.
RoomKept ==
  loopPc \in {"read", "commit"} /\ writeSpace > 0 =>
    /\ ~isFull /\ writePtr + writeSpace <= BuffEnd
    /\ ~isEmpty /\ writePtr <= readPtr =>
         writePtr + writeSpace <= readPtr /\ writePtr + writeSpace <= Main

Arrived ==
  loopPc = "commit" =>
    /\ got <= writeSpace
    /\ \A a \in Address : writePtr <= a /\ a < writePtr + got
                            => memory[a] = written + (a - writePtr)

\* The block handed out is the first of the bytes that wait.
BlockKept ==
  audioPc # "ask" /\ ~stale =>
    /\ block.at = readPtr /\ block.len = readSpace
    /\ readSpace <= written - taken /\ readPtr + readSpace <= BuffEnd
    /\ audioPc \in {"check", "advance"} => used > 0
    /\ audioPc = "advance" => used <= readSpace

Resetting == stale /\ readPtr = 0 /\ writePtr = 0 /\ taken = written

\* A file counts as played what the buffer has released, so the decoder is always
\* given all the bytes it may read; and it has no last chunk.
FileKept == kind = "file" => readPos = taken /\ ~ended

BufferInv == Geometry /\ Contents /\ RoomKept /\ Arrived /\ BlockKept

SoundInv ==
  ~spoiled => FileKept /\ IF loopPc = "reset" THEN Resetting ELSE BufferInv

Inv == TypeInv /\ SoundInv

-----------------------------------------------------------------------------
(* Types *)

LEMMA Sizes ==
  /\ Main \in Nat /\ Res \in Nat /\ 0 < Res /\ Res < Main
  /\ MaxRet \in Nat /\ 0 < MaxRet /\ MaxRet <= Main
  /\ MaxBlock \in Nat /\ 0 < MaxBlock /\ MaxBlock <= MaxRet
  /\ Length \in Nat
  /\ BuffEnd \in Nat /\ BuffEnd = Main + Res
BY BufferAssumption DEF BufferAssumption, BuffEnd

LEMMA TypeInit == Init => TypeInv
<1> SUFFICES ASSUME Init PROVE TypeInv OBVIOUS
<1>1. FlagsOK BY DEF Init, FlagsOK
<1>2. DataOK BY Sizes DEF Init, DataOK, Address
<1> QED BY <1>1, <1>2 DEF TypeInv

LEMMA FlagsStep == FlagsOK /\ [Next]_vars => FlagsOK'
<1> SUFFICES ASSUME FlagsOK, [Next]_vars PROVE FlagsOK' OBVIOUS
<1> USE DEF FlagsOK, loop
<1>1. CASE AskRoom BY <1>1 DEF AskRoom
<1>2. ASSUME NEW n \in 0..MaxRet, Read(n) PROVE FlagsOK'
  BY <1>2 DEF Read, ring
<1>3. CASE Commit
  <2>1. isFull' \in BOOLEAN /\ isEmpty' \in BOOLEAN BY <1>3 DEF Commit, Advanced
  <2> QED BY <1>3, <2>1 DEF Commit
<1>4. CASE ResetPointers BY <1>4 DEF ResetPointers
<1>5. CASE ResetFlags BY <1>5 DEF ResetFlags
<1>6. CASE AskBytes
  <2>1. stale' \in BOOLEAN /\ eof' \in BOOLEAN /\ spoiled' \in BOOLEAN
    BY <1>6 DEF AskBytes, Spoils
  <2> QED BY <1>6, <2>1 DEF AskBytes
<1>7. ASSUME NEW n \in 0..(MaxRet + 1), Decode(n) PROVE FlagsOK'
  BY <1>7 DEF Decode, ring
<1>8. CASE Refuse BY <1>8 DEF Refuse, Spoils
<1>9. CASE Accept BY <1>9 DEF Accept, ring
<1>10. CASE Release BY <1>10 DEF Release, Spoils
<1>11. CASE Restart
  <2>1. (loopPc \in {"read", "commit"}) \in BOOLEAN OBVIOUS
  <2> QED BY <1>11, <2>1 DEF Restart
<1>12. CASE LastChunk BY <1>12 DEF LastChunk, ring
<1>13. CASE UNCHANGED vars BY <1>13 DEF vars, ring
<1> QED
  BY <1>1, <1>2, <1>3, <1>4, <1>5, <1>6, <1>7, <1>8, <1>9, <1>10, <1>11, <1>12,
     <1>13 DEF Next, LoopTask, AudioTask

\* What one call of the buffer may give.
LEMMA Spaces ==
  /\ \A n \in Int : AtMost(n) \in 0..MaxRet
  /\ \A w \in 0..BuffEnd : readPtr \in 0..BuffEnd => WriteSpace(w) \in 0..MaxRet
  /\ \A r \in 0..BuffEnd : writePtr \in 0..BuffEnd => ReadSpace(r) \in 0..MaxRet
<1>1. \A n \in Int : AtMost(n) \in 0..MaxRet BY Sizes DEF AtMost
<1>2. ASSUME NEW w \in 0..BuffEnd, readPtr \in 0..BuffEnd
      PROVE  RoomBehindReader(w) \in Int /\ BuffEnd - w \in Int
  BY <1>2, Sizes DEF RoomBehindReader
<1>3. ASSUME NEW w \in 0..BuffEnd, readPtr \in 0..BuffEnd
      PROVE  WriteSpace(w) \in 0..MaxRet
  BY <1>1, <1>2, <1>3, Sizes DEF WriteSpace
<1>4. ASSUME NEW r \in 0..BuffEnd, writePtr \in 0..BuffEnd
      PROVE  ReadSpace(r) \in 0..MaxRet
  <2>1. writePtr - r \in Int /\ BuffEnd - r \in Int BY <1>4, Sizes
  <2> QED BY <1>1, <2>1, Sizes DEF ReadSpace
<1> QED BY <1>1, <1>3, <1>4

LEMMA DataStep == DataOK /\ [Next]_vars => DataOK'
<1> SUFFICES ASSUME DataOK, [Next]_vars PROVE DataOK' OBVIOUS
<1> USE Sizes DEF DataOK, Address
<1>1. CASE AskRoom
  <2>1. writePtr' \in 0..BuffEnd /\ writeSpace' \in 0..MaxRet
    <3> DEFINE wraps == ~isFull /\ ~isEmpty /\ Wraps
               w == IF wraps THEN Res ELSE writePtr
    <3>1. w \in 0..BuffEnd OBVIOUS
    <3>2. WriteSpace(w) \in 0..MaxRet BY <3>1, Spaces
    <3>3. writePtr' = w /\ writeSpace' = WriteSpace(w) BY <1>1 DEF AskRoom
    <3> HIDE DEF w
    <3> QED BY <3>1, <3>2, <3>3
  <2>2. memory' \in [Address -> Int] BY <1>1 DEF AskRoom
  <2> QED BY <1>1, <2>1, <2>2 DEF AskRoom, audio
<1>2. ASSUME NEW n \in 0..MaxRet, Read(n) PROVE DataOK'
  <2>1. written + n <= Length BY <1>2 DEF Read, Available, Least
  <2>2. memory' \in [Address -> Int] BY <1>2 DEF Read
  <2> QED BY <1>2, <2>1, <2>2 DEF Read, ring, audio
<1>3. CASE Commit
  <2>1. writePtr' \in 0..BuffEnd BY <1>3 DEF Commit, Advanced
  <2> QED BY <1>3, <2>1 DEF Commit, audio
<1>4. CASE ResetPointers
  BY <1>4 DEF ResetPointers, audio
<1>5. CASE ResetFlags
  <2>1. writeSpace' \in 0..MaxRet BY <1>5, Spaces DEF ResetFlags
  <2> QED BY <1>5, <2>1 DEF ResetFlags
<1>6. CASE AskBytes
  <2>1. readPtr' \in 0..BuffEnd /\ readSpace' \in 0..MaxRet
    <3>1. (IF Rewinds THEN Rewound ELSE readPtr) \in 0..BuffEnd
      BY DEF Rewinds, Rewound
    <3> QED BY <1>6, <3>1, Spaces DEF AskBytes
  <2>2. block' \in [at : 0..BuffEnd, len : 0..MaxRet]
    <3>1. Given(readSpace') > 0 => Given(readSpace') \in 0..MaxRet
      BY <2>1 DEF Given, ToDecode, LastFrames, Least
    <3>2. \/ block' = block
          \/ Given(readSpace') > 0 /\ block' = [at |-> readPtr', len |-> Given(readSpace')]
      BY <1>6 DEF AskBytes
    <3> QED BY <2>1, <3>1, <3>2
  <2>3. audioPc' \in {"ask", "decode"} BY <1>6 DEF AskBytes
  <2> QED BY <1>6, <2>1, <2>2, <2>3 DEF AskBytes, loop
<1>7. ASSUME NEW n \in 0..(MaxRet + 1), Decode(n) PROVE DataOK'
  BY <1>7 DEF Decode, ring, loop
<1>8. CASE Refuse
  <2>1. readPtr' \in 0..BuffEnd /\ readPos' \in Nat BY <1>8 DEF Refuse, Progress
  <2> QED BY <1>8, <2>1 DEF Refuse, loop
<1>9. CASE Accept
  BY <1>9 DEF Accept, ring, loop
<1>10. CASE Release
  <2>1. readPtr' \in 0..BuffEnd /\ readPos' \in Nat /\ taken' \in Nat
    BY <1>10 DEF Release, Progress
  <2> QED BY <1>10, <2>1 DEF Release, loop
<1>11. CASE Restart
  <2>1. writeSpace' \in 0..MaxRet BY <1>11, Spaces DEF Restart
  <2> QED BY <1>11, <2>1 DEF Restart
<1>12. CASE LastChunk
  BY <1>12 DEF LastChunk, ring, audio
<1>13. CASE UNCHANGED vars
  BY <1>13 DEF vars, ring, loop, audio
<1> QED
  BY <1>1, <1>2, <1>3, <1>4, <1>5, <1>6, <1>7, <1>8, <1>9, <1>10, <1>11, <1>12,
     <1>13 DEF Next, LoopTask, AudioTask

\* The pointers, counters and states keep their types, whatever resets in between.
THEOREM TypeCorrect == Spec => []TypeOK
<1>1. TypeInv /\ [Next]_vars => TypeInv' BY FlagsStep, DataStep DEF TypeInv
<1>2. TypeInv => TypeOK BY DEF TypeInv, FlagsOK, DataOK, TypeOK
<1> QED BY TypeInit, <1>1, <1>2, PTL DEF Spec

-----------------------------------------------------------------------------
(* Order: what each action leaves of the invariant *)

LEMMA AskRoomKeeps == TypeInv /\ BufferInv /\ AskRoom => BufferInv'
<1> SUFFICES ASSUME TypeInv, BufferInv, AskRoom PROVE BufferInv' OBVIOUS
<1> USE Sizes DEF TypeInv, FlagsOK, DataOK, BufferInv, Address
<1>1. CASE ~isFull /\ ~isEmpty /\ Wraps
  <2>1. /\ writePtr = BuffEnd /\ readPtr > Res /\ writePtr' = Res
        /\ writeSpace' = WriteSpace(Res)
        /\ memory' = [a \in Address |-> memory[IF a < Res THEN Main + a ELSE a]]
    BY <1>1 DEF AskRoom, Wraps
  <2>2. readPtr < writePtr BY <1>1, <2>1 DEF Geometry
  <2>3. Geometry' BY <1>1, <2>1, <2>2 DEF AskRoom, audio, Geometry, bufferFilled, Filled
  <2>4. Contents'
    <3>1. written - taken = BuffEnd - readPtr
      BY <1>1, <2>1, <2>2 DEF Geometry, bufferFilled, Filled
    <3>2. SUFFICES ASSUME NEW i \in 0..(written - taken - 1), NEW a \in Address,
                          a = readPtr + i \/ a = readPtr + i - Main
                   PROVE  memory'[a] = taken + i
      BY DEF AskRoom, audio, Contents
    <3>3. CASE a = readPtr + i
      BY <2>1, <3>3 DEF Contents
    <3>4. CASE a = readPtr + i - Main
      <4>1. a < Res /\ Main + a = readPtr + i /\ Main + a \in Address
        BY <3>1, <3>4
      <4> QED BY <2>1, <4>1 DEF Contents
    <3> QED BY <3>2, <3>3, <3>4
  <2>5. RoomKept'
    <3>1. writeSpace' > 0 => Res + writeSpace' <= readPtr /\ Res + writeSpace' <= Main
      BY <1>1, <2>1, Spaces DEF WriteSpace, AtMost, RoomBehindReader
    <3>2. writeSpace' \in 0..MaxRet
      <4>1. Res \in 0..BuffEnd OBVIOUS
      <4> QED BY <2>1, <4>1, Spaces
    <3>3. UNCHANGED <<isFull, isEmpty, readPtr>> BY DEF AskRoom
    <3> QED BY <1>1, <2>1, <3>1, <3>2, <3>3 DEF RoomKept
  <2>6. Arrived' BY DEF AskRoom, Arrived
  <2>7. BlockKept' BY DEF AskRoom, audio, BlockKept
  <2> QED BY <2>3, <2>4, <2>5, <2>6, <2>7
<1>2. CASE ~(~isFull /\ ~isEmpty /\ Wraps)
  <2>1. /\ writePtr' = writePtr /\ memory' = memory
        /\ writeSpace' = WriteSpace(writePtr)
    BY <1>2 DEF AskRoom
  <2>3. Geometry' BY <2>1 DEF AskRoom, audio, Geometry, bufferFilled, Filled
  <2>4. Contents' BY <2>1 DEF AskRoom, audio, Contents
  <2>5. RoomKept'
    <3>1. isFull \/ (~isEmpty /\ writePtr = readPtr) => writeSpace' = 0
      BY <2>1 DEF WriteSpace
    <3>2. ~isFull /\ ~isEmpty /\ writePtr < readPtr =>
            writePtr + writeSpace' <= readPtr /\ writePtr + writeSpace' <= Main
      BY <2>1 DEF WriteSpace, AtMost, RoomBehindReader, Geometry
    <3>3. ~isFull => writePtr + writeSpace' <= BuffEnd
      BY <2>1 DEF WriteSpace, AtMost, RoomBehindReader, Geometry
    <3> QED BY <2>1, <3>1, <3>2, <3>3 DEF AskRoom, audio, RoomKept, Geometry
  <2>6. Arrived' BY DEF AskRoom, Arrived
  <2>7. BlockKept' BY <2>1 DEF AskRoom, audio, BlockKept
  <2> QED BY <2>3, <2>4, <2>5, <2>6, <2>7
<1> QED BY <1>1, <1>2

LEMMA ReadKeeps ==
  ASSUME TypeInv, BufferInv, NEW n \in 0..MaxRet, Read(n)
  PROVE  BufferInv'
<1> USE Sizes DEF TypeInv, FlagsOK, DataOK, BufferInv, Address
<1>1. /\ UNCHANGED <<readPtr, writePtr, isEmpty, isFull, writeSpace, written, taken>>
      /\ UNCHANGED <<audioPc, block, used, readSpace, stale>>
      /\ loopPc = "read" /\ loopPc' = "commit" /\ got' = n /\ n <= writeSpace
      /\ memory' = [a \in Address |-> IF a \in writePtr..(writePtr + n - 1)
                                      THEN written + (a - writePtr) ELSE memory[a]]
  BY DEF Read, ring, audio, Available, Least
<1>2. Geometry' BY <1>1 DEF Geometry, bufferFilled, Filled
<1>3. Contents'
  <2>1. SUFFICES ASSUME NEW i \in 0..(written - taken - 1), NEW a \in Address,
                        \/ a = readPtr + i
                        \/ ~isEmpty /\ writePtr <= readPtr /\ a = readPtr + i - Main
                 PROVE  memory'[a] = taken + i
    BY <1>1 DEF Contents
  <2>2. memory[a] = taken + i BY <2>1 DEF Contents
  <2>3. n > 0 => ~(a \in writePtr..(writePtr + n - 1))
    BY <1>1, <2>1 DEF Geometry, RoomKept, bufferFilled, Filled
  <2> QED BY <1>1, <2>2, <2>3
<1>4. RoomKept' BY <1>1 DEF RoomKept
<1>5. Arrived' BY <1>1 DEF Arrived
<1>6. BlockKept' BY <1>1 DEF BlockKept
<1> QED BY <1>2, <1>3, <1>4, <1>5, <1>6

LEMMA CommitKeeps == TypeInv /\ BufferInv /\ Commit => BufferInv'
<1> SUFFICES ASSUME TypeInv, BufferInv, Commit PROVE BufferInv' OBVIOUS
<1> USE Sizes DEF TypeInv, FlagsOK, DataOK, BufferInv, Address
<1>1. /\ UNCHANGED <<readPtr, memory, taken, audioPc, block, used, readSpace, stale>>
      /\ loopPc = "commit" /\ loopPc' = "fill" /\ written' = written + got
      /\ Advanced
  BY DEF Commit, audio
<1>2. got <= writeSpace BY <1>1 DEF Arrived
<1>3. CASE got = 0
  <2>1. UNCHANGED <<writePtr, isEmpty, isFull>> BY <1>1, <1>3 DEF Advanced
  <2> QED BY <1>1, <1>3, <2>1
          DEF Geometry, bufferFilled, Filled, Contents, RoomKept, Arrived, BlockKept
<1>4. CASE got > 0
  <2>1. ~isFull /\ writePtr + got <= BuffEnd BY <1>1, <1>2, <1>4 DEF RoomKept
  <2>2. ~isEmpty /\ writePtr <= readPtr =>
          writePtr + got <= readPtr /\ writePtr + got <= Main
    BY <1>1, <1>2, <1>4 DEF RoomKept
  <2>3. /\ writePtr' = writePtr + got /\ ~isEmpty'
        /\ isFull' <=> writePtr + got = readPtr
    <3>1. ~(writePtr < readPtr /\ writePtr + got > readPtr) BY <2>2 DEF Geometry
    <3>2. ~(writePtr + got > BuffEnd) BY <2>1
    <3>3. /\ writePtr' = writePtr + got
          /\ isFull' = (isFull \/ (got > 0 /\ writePtr + got = readPtr))
          /\ isEmpty' = (isEmpty /\ got = 0)
      BY <1>1, <3>1, <3>2 DEF Advanced
    <3>4. ~(got = 0) BY <1>4
    <3> QED BY <1>4, <2>1, <3>3, <3>4
  <2>4. Geometry' BY <1>1, <1>4, <2>1, <2>2, <2>3 DEF Geometry, bufferFilled, Filled
  <2>5. Contents'
    <3>1. SUFFICES ASSUME NEW i \in 0..(written + got - taken - 1), NEW a \in Address,
                          \/ a = readPtr + i
                          \/ writePtr + got <= readPtr /\ a = readPtr + i - Main
                   PROVE  memory[a] = taken + i
      <4>1. written' - taken' - 1 = written + got - taken - 1 BY <1>1
      <4>2. UNCHANGED <<readPtr, memory, taken>> BY <1>1
      <4>3. writePtr' = writePtr + got BY <2>3
      <4> QED BY <4>1, <4>2, <4>3 DEF Contents
    <3>2. CASE i <= written - taken - 1
      <4>1. ~isEmpty BY <3>2 DEF Geometry, bufferFilled, Filled
      <4>2. i \in 0..(written - taken - 1) BY <3>1, <3>2
      <4>3. a = readPtr + i \/ (writePtr <= readPtr /\ a = readPtr + i - Main) BY <1>4, <3>1
      <4> QED BY <4>1, <4>2, <4>3 DEF Contents
    <3>3. CASE i > written - taken - 1
      <4>1. written = taken + Filled(readPtr, writePtr, isEmpty)
        BY DEF Geometry, bufferFilled
      <4>2. /\ writePtr <= a /\ a < writePtr + got
            /\ written + (a - writePtr) = taken + i
        BY <1>4, <2>1, <2>2, <3>1, <3>3, <4>1 DEF Filled, Geometry
      <4> QED BY <1>1, <4>2 DEF Arrived
    <3> QED BY <3>2, <3>3
  <2>6. RoomKept' /\ Arrived' BY <1>1 DEF RoomKept, Arrived
  <2>7. BlockKept' BY <1>1, <1>4 DEF BlockKept
  <2> QED BY <2>4, <2>5, <2>6, <2>7
<1> QED BY <1>3, <1>4

LEMMA AskBytesKeeps == TypeInv /\ BufferInv /\ FileKept /\ ~spoiled' /\ AskBytes => BufferInv'
<1> SUFFICES ASSUME TypeInv, BufferInv, FileKept, ~spoiled', AskBytes
             PROVE  BufferInv'
  OBVIOUS
<1> USE Sizes DEF TypeInv, FlagsOK, DataOK, BufferInv, Address
<1>1. /\ UNCHANGED <<writePtr, isEmpty, isFull, memory, written, taken>>
      /\ UNCHANGED <<writeSpace, loopPc, got, used>>
      /\ ~(Rewinds /\ isEmpty)
      /\ readPtr' = IF Rewinds THEN Rewound ELSE readPtr
      /\ readSpace' = ReadSpace(readPtr')
  BY DEF AskBytes, loop, Spoils
<1>2. Rewinds => ~isEmpty /\ Main <= readPtr /\ writePtr <= Main
                /\ readPtr' = readPtr - Main /\ readPtr' < writePtr
  BY <1>1 DEF Rewinds, Rewound
<1>3. ~Rewinds => readPtr' = readPtr BY <1>1
<1>4. Geometry'
  <2>1. CASE Rewinds
    <3>1. written - taken = Main - readPtr + writePtr
      BY <1>2, <2>1 DEF Geometry, bufferFilled, Filled
    <3>2. isFull => readPtr' = 0 /\ writePtr = Main BY <1>2, <2>1 DEF Geometry
    <3>3. bufferFilled' = writePtr - readPtr'
      BY <1>1, <1>2, <2>1 DEF bufferFilled, Filled
    <3> QED BY <1>1, <1>2, <2>1, <3>1, <3>2, <3>3 DEF Geometry
  <2>2. CASE ~Rewinds
    BY <1>1, <1>3, <2>2 DEF Geometry, bufferFilled, Filled
  <2> QED BY <2>1, <2>2
<1>5. Contents'
  <2>1. SUFFICES ASSUME NEW i \in 0..(written - taken - 1), NEW a \in Address,
                        \/ a = readPtr' + i
                        \/ ~isEmpty /\ writePtr <= readPtr' /\ a = readPtr' + i - Main
                 PROVE  memory[a] = taken + i
    BY <1>1 DEF Contents
  <2>2. CASE Rewinds
    <3>1. a = readPtr + i - Main BY <1>2, <2>1, <2>2
    <3> QED BY <1>2, <2>2, <3>1 DEF Contents
  <2>3. CASE ~Rewinds BY <1>3, <2>1, <2>3 DEF Contents
  <2> QED BY <2>2, <2>3
<1>6. RoomKept' BY <1>1, <1>2, <1>3 DEF RoomKept
<1>7. Arrived' BY <1>1 DEF Arrived
<1>8. BlockKept'
  <2>1. SUFFICES ASSUME audioPc' # "ask"
                 PROVE  /\ block'.at = readPtr' /\ block'.len = readSpace'
                        /\ readSpace' <= written - taken
                        /\ readPtr' + readSpace' <= BuffEnd
                        /\ audioPc' = "decode"
    BY <1>1 DEF BlockKept
  <2>2. /\ block' = [at |-> readPtr', len |-> Given(readSpace')] /\ audioPc' = "decode"
    BY <1>1, <2>1 DEF AskBytes
  <2>3. readPtr' \in 0..BuffEnd BY <1>2, <1>3
  <2>4. readSpace' \in 0..MaxRet BY <1>1, <2>3, Spaces
  <2>5. readSpace' <= written - taken /\ Given(readSpace') > 0
    BY <1>1, <1>4, <2>1, <2>3 DEF AskBytes, Geometry, bufferFilled, Filled, ReadSpace, AtMost
  <2>8. Given(readSpace') = readSpace'
    <3>1. Length - readPos \in Int /\ (kind = "file" => readPos = taken)
      BY DEF FileKept
    <3> QED BY <2>4, <2>5, <3>1 DEF Given, ToDecode, Least, LastFrames
  <2>6. /\ readSpace' <= bufferFilled' /\ readPtr' + readSpace' <= BuffEnd
    BY <1>1, <1>4, <2>3 DEF Geometry, bufferFilled, Filled, ReadSpace, AtMost
  <2>7. written' - taken' = bufferFilled' BY <1>4 DEF Geometry
  <2> QED BY <1>1, <2>2, <2>6, <2>7, <2>8
<1> QED BY <1>4, <1>5, <1>6, <1>7, <1>8

LEMMA ReleaseKeeps == TypeInv /\ BufferInv /\ ~spoiled' /\ Release => BufferInv'
<1> SUFFICES ASSUME TypeInv, BufferInv, ~spoiled', Release PROVE BufferInv' OBVIOUS
<1> USE Sizes DEF TypeInv, FlagsOK, DataOK, BufferInv, Address
<1>1. /\ UNCHANGED <<writePtr, memory, writeSpace, loopPc, got, written>>
      /\ audioPc = "advance" /\ audioPc' = "ask" /\ ~stale
      /\ ~isFull' /\ taken' = taken + used
  BY DEF Release, loop, Spoils
<1>2. /\ block.at = readPtr /\ 0 < used /\ used <= readSpace
      /\ readSpace <= written - taken
  BY <1>1 DEF BlockKept
<1>3. /\ readPtr' = readPtr + used
      /\ isEmpty' = (isEmpty \/ readPtr + used = writePtr)
  BY <1>2 DEF Release
<1>4. ~isEmpty BY <1>2 DEF Geometry, bufferFilled, Filled
<1>5. isEmpty' <=> readPtr + used = writePtr
  <2>1. isEmpty = FALSE BY <1>4
  <2> QED BY <1>3, <2>1
<1>6. written - taken = IF readPtr < writePtr THEN writePtr - readPtr
                        ELSE Main - readPtr + writePtr
  BY <1>4 DEF Geometry, bufferFilled, Filled
<1>7. ~isEmpty' /\ writePtr <= readPtr' => writePtr <= readPtr
  BY <1>2, <1>3, <1>5, <1>6
<1>8. Geometry'
  <2>1. isEmpty' => readPtr' = writePtr' BY <1>1, <1>3, <1>5
  <2>2. readPtr' = writePtr' => isEmpty' BY <1>1, <1>3, <1>5
  <2>3. ~isEmpty' /\ writePtr' <= readPtr' => Res <= writePtr' /\ writePtr' <= Main
    BY <1>1, <1>4, <1>7 DEF Geometry
  <2>4. written' - taken' = Filled(readPtr', writePtr', isEmpty')
    BY <1>1, <1>2, <1>3, <1>5, <1>6, <1>7 DEF Filled
  <2> QED BY <1>1, <2>1, <2>2, <2>3, <2>4 DEF Geometry, bufferFilled
<1>9. Contents'
  <2>1. SUFFICES ASSUME NEW i \in 0..(written - (taken + used) - 1), NEW a \in Address,
                        \/ a = readPtr + used + i
                        \/ writePtr <= readPtr /\ a = readPtr + used + i - Main
                 PROVE  memory[a] = taken + used + i
    BY <1>1, <1>3, <1>7 DEF Contents
  <2>2. used + i \in 0..(written - taken - 1) BY <2>1
  <2> DEFINE j == used + i
  <2>4. a = readPtr + j \/ (writePtr <= readPtr /\ a = readPtr + j - Main) BY <2>1
  <2>5. taken + used + i = taken + j OBVIOUS
  <2>6. j \in 0..(written - taken - 1) BY <2>2
  <2> HIDE DEF j
  <2> QED BY <1>4, <2>4, <2>5, <2>6 DEF Contents
<1>10. RoomKept' BY <1>1, <1>2, <1>3, <1>4, <1>7 DEF RoomKept
<1>11. Arrived' BY <1>1 DEF Arrived
<1>12. BlockKept' BY <1>1 DEF BlockKept
<1> QED BY <1>8, <1>9, <1>10, <1>11, <1>12

\* An empty buffer after a reset is in order.
LEMMA EmptyInOrder ==
  (/\ DataOK /\ isEmpty /\ ~isFull /\ readPtr = writePtr /\ taken = written
   /\ loopPc = "fill" /\ (audioPc = "ask" \/ stale))
  => BufferInv
<1> SUFFICES ASSUME DataOK, isEmpty, ~isFull, readPtr = writePtr, taken = written,
                    loopPc = "fill", audioPc = "ask" \/ stale
             PROVE  BufferInv
  OBVIOUS
<1>1. Geometry BY Sizes DEF DataOK, Geometry, bufferFilled, Filled
<1>2. Contents BY DEF DataOK, Contents
<1> QED BY <1>1, <1>2 DEF BufferInv, RoomKept, Arrived, BlockKept

LEMMA FileStep ==
  TypeInv /\ (~spoiled => FileKept) /\ [Next]_vars => (~spoiled' => FileKept')
<1> SUFFICES ASSUME TypeInv, ~spoiled => FileKept, [Next]_vars, ~spoiled', kind' = "file"
             PROVE  readPos' = taken' /\ ~ended'
  BY DEF FileKept
<1> USE DEF FileKept, Progress, loop
<1>1. CASE AskRoom BY <1>1 DEF AskRoom, audio
<1>2. ASSUME NEW n \in 0..MaxRet, Read(n) PROVE readPos' = taken' /\ ~ended'
  BY <1>2 DEF Read, audio
<1>3. CASE Commit BY <1>3 DEF Commit, audio
<1>4. CASE ResetPointers BY <1>4 DEF ResetPointers
<1>5. CASE ResetFlags BY <1>5 DEF ResetFlags
<1>6. CASE AskBytes BY <1>6 DEF AskBytes, Spoils
<1>7. ASSUME NEW n \in 0..(MaxRet + 1), Decode(n) PROVE readPos' = taken' /\ ~ended'
  BY <1>7 DEF Decode
<1>8. CASE Refuse BY <1>8 DEF Refuse, Spoils
<1>9. CASE Accept BY <1>9 DEF Accept
<1>10. CASE Release BY <1>10 DEF Release, Spoils
<1>11. CASE Restart BY <1>11 DEF Restart
<1>12. CASE LastChunk BY <1>12 DEF LastChunk
<1>13. CASE UNCHANGED vars BY <1>13 DEF vars, audio
<1> QED
  BY <1>1, <1>2, <1>3, <1>4, <1>5, <1>6, <1>7, <1>8, <1>9, <1>10, <1>11, <1>12,
     <1>13 DEF Next, LoopTask, AudioTask

LEMMA OrderStep == TypeInv /\ SoundInv /\ [Next]_vars => SoundInv'
<1> SUFFICES ASSUME TypeInv, SoundInv, [Next]_vars, ~spoiled'
             PROVE  IF loopPc' = "reset" THEN Resetting' ELSE BufferInv'
  BY FileStep DEF SoundInv
<1>0. DataOK' BY DataStep DEF TypeInv
<1>a. ((/\ DataOK /\ isEmpty /\ ~isFull /\ readPtr = writePtr /\ taken = written
        /\ loopPc = "fill" /\ (audioPc = "ask" \/ stale))
       => BufferInv)'
  BY EmptyInOrder, PTL
<1>1. CASE AskRoom
  BY <1>1, AskRoomKeeps DEF SoundInv, AskRoom
<1>2. ASSUME NEW n \in 0..MaxRet, Read(n)
      PROVE  IF loopPc' = "reset" THEN Resetting' ELSE BufferInv'
  BY <1>2, ReadKeeps DEF SoundInv, Read
<1>3. CASE Commit
  BY <1>3, CommitKeeps DEF SoundInv, Commit
<1>4. CASE ResetPointers
  BY <1>4 DEF ResetPointers, Resetting
<1>5. CASE ResetFlags
  <2>1. Resetting BY <1>5 DEF SoundInv, ResetFlags
  <2>2. /\ isEmpty' /\ ~isFull' /\ readPtr' = writePtr' /\ taken' = written'
        /\ loopPc' = "fill" /\ stale'
    BY <1>5, <2>1 DEF ResetFlags, Resetting
  <2>3. BufferInv' BY <1>0, <1>a, <2>2
  <2> QED BY <2>2, <2>3
<1>6. CASE AskBytes
  <2>1. ~spoiled /\ loopPc' = loopPc BY <1>6 DEF AskBytes, Spoils, loop
  <2>2. CASE loopPc = "reset"
    <3>1. Resetting BY <2>1, <2>2 DEF SoundInv
    <3>2. ~Rewinds BY <3>1, Sizes DEF Resetting, Rewinds
    <3>3. /\ UNCHANGED <<readPtr, writePtr, taken, written>> /\ stale'
      BY <1>6, <2>2, <3>1, <3>2 DEF AskBytes, loop, Resetting
    <3> QED BY <2>1, <2>2, <3>1, <3>3 DEF Resetting
  <2>3. CASE loopPc # "reset"
    BY <1>6, <2>1, <2>3, AskBytesKeeps DEF SoundInv
  <2> QED BY <2>2, <2>3
<1>7. ASSUME NEW n \in 0..(MaxRet + 1), Decode(n)
      PROVE  IF loopPc' = "reset" THEN Resetting' ELSE BufferInv'
  <2>1. UNCHANGED <<ring, memory, loop, readSpace, block, taken, stale, spoiled>>
    BY <1>7 DEF Decode
  <2>2. audioPc = "decode" /\ used' = n /\ audioPc' = IF n = 0 THEN "ask" ELSE "check"
    BY <1>7 DEF Decode
  <2> QED BY <2>1, <2>2 DEF ring, loop, SoundInv, Resetting, BufferInv, Geometry,
             bufferFilled, Filled, Contents, RoomKept, Arrived, BlockKept
<1>8. CASE Refuse
  <2>1. /\ UNCHANGED <<ring, memory, loop, readSpace, block, taken, stale>>
        /\ ~spoiled /\ audioPc' = "ask"
    BY <1>8 DEF Refuse, Spoils, ring
  <2> QED BY <2>1 DEF ring, loop, SoundInv, Resetting, BufferInv, Geometry,
             bufferFilled, Filled, Contents, RoomKept, Arrived, BlockKept
<1>9. CASE Accept
  <2>1. /\ UNCHANGED <<ring, memory, loop, readSpace, used, taken, stale, spoiled>>
        /\ block' = [block EXCEPT !.at = readPtr]
        /\ audioPc = "check" /\ audioPc' = "advance" /\ readSpace >= used
    BY <1>9 DEF Accept
  <2>2. block'.at = readPtr /\ block'.len = block.len
    BY <2>1 DEF TypeInv, DataOK
  <2>3. ~stale /\ BufferInv => BlockKept'
    BY <2>1, <2>2 DEF ring, loop, BufferInv, BlockKept, TypeInv, DataOK
  <2>4. stale => BlockKept' BY <2>1 DEF BlockKept
  <2> QED BY <2>1, <2>3, <2>4 DEF ring, loop, SoundInv, Resetting, BufferInv, Geometry,
             bufferFilled, Filled, Contents, RoomKept, Arrived, TypeInv, FlagsOK
<1>10. CASE Release
  <2>1. ~spoiled /\ ~stale /\ loopPc' = loopPc BY <1>10 DEF Release, Spoils, loop
  <2>2. loopPc # "reset" BY <2>1 DEF SoundInv, Resetting
  <2> QED BY <1>10, <2>1, <2>2, ReleaseKeeps DEF SoundInv
<1>11. CASE Restart
  <2>1. /\ isEmpty' /\ ~isFull' /\ readPtr' = 0 /\ writePtr' = 0 /\ taken' = written
        /\ written' = written /\ loopPc' = loopPc /\ audioPc' = "ask" /\ stale'
    BY <1>11 DEF Restart
  <2>2. loopPc \in {"fill", "reset"} BY <1>11 DEF Restart, TypeInv, DataOK
  <2>3. CASE loopPc = "reset" BY <2>1, <2>3 DEF Resetting
  <2>4. CASE loopPc = "fill" BY <1>0, <1>a, <2>1, <2>4
  <2> QED BY <2>2, <2>3, <2>4
<1>12. CASE LastChunk
  <2>1. UNCHANGED <<ring, memory, writeSpace, loopPc, got, written, audio, taken, stale, spoiled>>
    BY <1>12 DEF LastChunk
  <2> QED BY <2>1 DEF ring, audio, SoundInv, Resetting, BufferInv, Geometry,
             bufferFilled, Filled, Contents, RoomKept, Arrived, BlockKept
<1>13. CASE UNCHANGED vars
  BY <1>13 DEF vars, ring, loop, audio, SoundInv, Resetting, BufferInv, Geometry,
     bufferFilled, Filled, Contents, RoomKept, Arrived, BlockKept
<1> QED
  BY <1>1, <1>2, <1>3, <1>4, <1>5, <1>6, <1>7, <1>8, <1>9, <1>10, <1>11, <1>12,
     <1>13 DEF Next, LoopTask, AudioTask

LEMMA OrderInit == Init => SoundInv
<1> SUFFICES ASSUME Init PROVE SoundInv OBVIOUS
<1>1. Geometry BY Sizes DEF Init, Geometry, bufferFilled, Filled
<1>2. Contents BY DEF Init, Contents
<1>3. BufferInv BY <1>1, <1>2 DEF Init, BufferInv, RoomKept, Arrived, BlockKept
<1>4. FileKept BY DEF Init, FileKept
<1> QED BY <1>3, <1>4 DEF SoundInv, Init

LEMMA Invariant == Spec => []Inv
<1>1. Inv /\ [Next]_vars => Inv' BY FlagsStep, DataStep, OrderStep DEF Inv, TypeInv
<1> QED BY TypeInit, OrderInit, <1>1, PTL DEF Spec, Inv

\* The bytes that wait lie in order where the reader looks for them, and
\* bufferFilled() is their number, for every size of buffer, reserve and block.
THEOREM OrderCorrect == Spec => []UnreadInOrder
<1>1. Inv => UnreadInOrder
  <2> SUFFICES ASSUME Inv, Sound
               PROVE  /\ bufferFilled = written - taken
                      /\ \A i \in 0..(written - taken - 1) : \A a \in Places(i) :
                           memory[a] = taken + i
    BY DEF UnreadInOrder
  <2>1. BufferInv BY DEF Inv, SoundInv, Sound
  <2>2. bufferFilled = written - taken BY <2>1 DEF BufferInv, Geometry
  <2>3. ASSUME NEW i \in 0..(written - taken - 1), NEW a \in Places(i)
        PROVE  memory[a] = taken + i
    <3>1. \/ a = readPtr + i
          \/ ~isEmpty /\ writePtr <= readPtr /\ a = readPtr + i - Main
      BY <2>3 DEF Places, Wrapped
    <3>2. a \in Address
      <4>1. CASE Wrapped BY <2>3, <4>1 DEF Places
      <4>2. CASE ~Wrapped
        <5>1. a = readPtr + i BY <2>3, <4>2 DEF Places
        <5>2. readPtr <= writePtr
          BY <4>2, <2>1 DEF Wrapped, BufferInv, Geometry, Inv, TypeInv, DataOK
        <5>3. written - taken <= writePtr - readPtr
          BY <2>1, <4>2, <5>2, Sizes
             DEF Wrapped, BufferInv, Geometry, bufferFilled, Filled, Inv, TypeInv, DataOK
        <5> QED BY <5>1, <5>3, Sizes DEF Address, Inv, TypeInv, DataOK
      <4> QED BY <4>1, <4>2
    <3> QED BY <2>1, <3>1, <3>2 DEF BufferInv, Contents
  <2> QED BY <2>2, <2>3
<1> QED BY Invariant, <1>1, PTL

\* Nobody writes over the block the decoder is working on.
THEOREM BlockCorrect == Spec => []BlockIntact
<1>1. Inv => BlockIntact
  <2> SUFFICES ASSUME Inv, Sound, audioPc # "ask", ~stale,
                      NEW i \in 0..(block.len - 1)
               PROVE  memory[block.at + i] = taken + i
    BY DEF BlockIntact
  <2>1. BufferInv BY DEF Inv, SoundInv, Sound
  <2>2. /\ block.at = readPtr /\ block.len = readSpace
        /\ readSpace <= written - taken /\ readPtr + readSpace <= BuffEnd
    BY <2>1 DEF BufferInv, BlockKept
  <2>3. block.len \in Nat /\ readSpace \in Nat /\ readPtr \in Nat
        /\ written \in Nat /\ taken \in Nat
    BY Sizes DEF Inv, TypeInv, DataOK
  <2>4. i \in 0..(written - taken - 1) /\ readPtr + i \in Address
    BY <2>2, <2>3, Sizes DEF Address
  <2> QED BY <2>1, <2>2, <2>4 DEF BufferInv, Contents
<1> QED BY Invariant, <1>1, PTL

-----------------------------------------------------------------------------
(* Refinement: the ring buffer is a queue of bytes *)

\* The block on offer is the beginning of what waits.
LEMMA OfferedBytes ==
  Inv /\ ~spoiled /\ audioPc # "ask" /\ ~stale =>
    /\ loopPc # "reset" /\ readSpace <= written - taken
    /\ Offered = [i \in 1..readSpace |-> taken + i - 1]
<1> SUFFICES ASSUME Inv, ~spoiled, audioPc # "ask", ~stale
             PROVE  /\ loopPc # "reset" /\ readSpace <= written - taken
                    /\ Offered = [i \in 1..readSpace |-> taken + i - 1]
  OBVIOUS
<1>1. loopPc # "reset" /\ BufferInv BY DEF Inv, SoundInv, Resetting
<1>2. /\ block.at = readPtr /\ block.len = readSpace
      /\ readSpace <= written - taken /\ readPtr + readSpace <= BuffEnd
  BY <1>1 DEF BufferInv, BlockKept
<1>3. /\ readSpace \in Nat /\ readPtr \in Nat /\ written \in Nat /\ taken \in Nat
  BY Sizes DEF Inv, TypeInv, DataOK
<1>4. ASSUME NEW i \in 1..readSpace PROVE memory[block.at + i - 1] = taken + i - 1
  <2> DEFINE j == i - 1
  <2>1. j \in 0..(written - taken - 1) /\ readPtr + j \in Address
    BY <1>2, <1>3, Sizes DEF Address
  <2>2. block.at + i - 1 = readPtr + j /\ taken + i - 1 = taken + j BY <1>2, <1>3
  <2> HIDE DEF j
  <2> QED BY <1>1, <2>1, <2>2 DEF BufferInv, Contents
<1>5. Offered = [i \in 1..readSpace |-> memory[block.at + i - 1]]
  BY <1>2 DEF Offered
<1> QED BY <1>1, <1>2, <1>4, <1>5

\* A step that leaves the counters and the audio task alone leaves the offer alone.
LEMMA OfferKept ==
  ASSUME Inv, Inv', ~spoiled, ~spoiled',
         UNCHANGED <<taken, audioPc, stale, readSpace>>
  PROVE  Offered' = Offered
<1>a. (Inv /\ ~spoiled /\ audioPc # "ask" /\ ~stale =>
        Offered = [i \in 1..readSpace |-> taken + i - 1])'
  BY OfferedBytes, PTL
<1>1. CASE audioPc = "ask" \/ stale BY <1>1 DEF Offered
<1>2. CASE audioPc # "ask" /\ ~stale BY <1>a, <1>2, OfferedBytes
<1> QED BY <1>1, <1>2

LEMMA FifoStep ==
  ASSUME Inv, Inv', [Next]_vars, ~spoiled'
  PROVE  Fifo!Next \/ UNCHANGED <<written, taken, Offered>>
<1> DEFINE Goal == Fifo!Next \/ UNCHANGED <<written, taken, Offered>>
<1> USE DEF Fifo!Next
<1>a. (Inv /\ ~spoiled /\ audioPc # "ask" /\ ~stale =>
        /\ loopPc # "reset" /\ readSpace <= written - taken
        /\ Offered = [i \in 1..readSpace |-> taken + i - 1])'
  BY OfferedBytes, PTL
<1>1. CASE AskRoom
  BY <1>1, OfferKept DEF AskRoom, audio
<1>2. ASSUME NEW n \in 0..MaxRet, Read(n) PROVE Goal
  BY <1>2, OfferKept DEF Read, audio
<1>3. CASE Commit
  <2>1. Offered' = Offered BY <1>3, OfferKept DEF Commit, audio
  <2>2. written' = written + got /\ taken' = taken BY <1>3 DEF Commit
  <2>3. written' - taken' <= BuffEnd
    <3>1. BufferInv' BY <1>3 DEF Inv, SoundInv, Commit
    <3>2. written' - taken' = Filled(readPtr', writePtr', isEmpty')
      BY <3>1 DEF BufferInv, Geometry, bufferFilled
    <3>3. ~isEmpty' /\ writePtr' <= readPtr' => writePtr' <= Main
      BY <3>1 DEF BufferInv, Geometry
    <3>4. readPtr' \in 0..BuffEnd /\ writePtr' \in 0..BuffEnd
      BY DEF Inv, TypeInv, DataOK
    <3>5. isEmpty' => readPtr' = writePtr' BY <3>1 DEF BufferInv, Geometry
    <3> QED BY <3>2, <3>3, <3>4, <3>5, Sizes DEF Filled
  <2>4. got \in Nat /\ written \in Nat /\ taken \in Nat BY Sizes DEF Inv, TypeInv, DataOK
  <2> QED BY <2>1, <2>2, <2>3, <2>4, Sizes DEF Fifo!Put
<1>4. CASE ResetPointers
  BY <1>4 DEF ResetPointers, Offered, Fifo!Reset
<1>5. CASE ResetFlags
  <2>1. stale /\ stale' BY <1>5 DEF ResetFlags, Inv, SoundInv, Resetting
  <2> QED BY <1>5, <2>1 DEF ResetFlags, Offered
<1>6. CASE AskBytes
  <2>1. audioPc = "ask" /\ Offered = <<>> BY <1>6 DEF AskBytes, Offered
  <2>2. UNCHANGED <<written, taken>> BY <1>6 DEF AskBytes, loop
  <2>3. CASE audioPc' = "ask" \/ stale'
    BY <2>1, <2>2, <2>3 DEF Offered
  <2>4. CASE audioPc' # "ask" /\ ~stale'
    <3>1. /\ readSpace' <= written - taken
          /\ Offered' = [i \in 1..readSpace' |-> taken + i - 1]
      BY <1>a, <2>2, <2>4
    <3>2. readSpace' > 0
      <4>1. BlockKept' BY <1>a, <2>4 DEF Inv, SoundInv, BufferInv
      <4>2. block'.len = readSpace' BY <2>4, <4>1 DEF BlockKept
      <4>3. block'.len > 0 BY <1>6, <2>4 DEF AskBytes
      <4> QED BY <4>2, <4>3
    <3>3. readSpace' \in Nat /\ written \in Nat /\ taken \in Nat
      BY Sizes DEF Inv, TypeInv, DataOK
    <3>4. readSpace' \in 1..(written - taken) BY <3>1, <3>2, <3>3
    <3> QED BY <2>1, <2>2, <3>1, <3>4 DEF Fifo!Offer
  <2> QED BY <2>3, <2>4
<1>7. ASSUME NEW n \in 0..(MaxRet + 1), Decode(n) PROVE Goal
  <2>1. UNCHANGED <<taken, stale, readSpace, spoiled, written, block, memory>>
    BY <1>7 DEF Decode, loop
  <2>2. CASE n = 0
    BY <1>7, <2>1, <2>2 DEF Decode, Offered, Fifo!Take
  <2>3. CASE n # 0
    <3>1. audioPc = "decode" /\ audioPc' = "check" BY <1>7, <2>3 DEF Decode
    <3> QED BY <2>1, <3>1 DEF Offered
  <2> QED BY <2>2, <2>3
<1>8. CASE Refuse
  <2>1. taken' = taken /\ written' = written /\ Offered' = <<>>
    BY <1>8 DEF Refuse, loop, Offered
  <2> QED BY <2>1 DEF Fifo!Take
<1>9. CASE Accept
  <2>1. /\ UNCHANGED <<taken, stale, readSpace, spoiled, written>>
        /\ audioPc = "check" /\ audioPc' = "advance"
    BY <1>9 DEF Accept, loop
  <2>2. CASE stale BY <2>1, <2>2 DEF Offered
  <2>3. CASE ~stale BY <1>a, <2>1, <2>3, OfferedBytes
  <2> QED BY <2>1, <2>2, <2>3
<1>10. CASE Release
  <2>1. /\ ~spoiled /\ ~stale /\ audioPc = "advance" /\ audioPc' = "ask"
        /\ taken' = taken + used /\ written' = written
    BY <1>10 DEF Release, Spoils, loop
  <2>2. Offered = [i \in 1..readSpace |-> taken + i - 1] BY <2>1, OfferedBytes
  <2>3. used \in 1..readSpace
    <3>1. BlockKept BY <2>1, OfferedBytes DEF Inv, SoundInv, BufferInv
    <3> QED BY <2>1, <3>1, Sizes DEF BlockKept, Inv, TypeInv, DataOK
  <2>4. taken' \in {taken + i : i \in DOMAIN Offered} BY <2>1, <2>2, <2>3
  <2>5. Offered' = <<>> BY <2>1 DEF Offered
  <2> QED BY <2>1, <2>4, <2>5 DEF Fifo!Take
<1>11. CASE Restart
  BY <1>11 DEF Restart, Offered, Fifo!Reset
<1>12. CASE LastChunk
  BY <1>12, OfferKept DEF LastChunk, audio
<1>13. CASE UNCHANGED vars
  BY <1>13 DEF vars, ring, loop, audio, Offered
<1> QED
  BY <1>1, <1>2, <1>3, <1>4, <1>5, <1>6, <1>7, <1>8, <1>9, <1>10, <1>11, <1>12,
     <1>13 DEF Next, LoopTask, AudioTask

\* As long as nothing spoils it, the ring buffer, with its reserve, its copy and
\* its two tasks, is a queue that loses, repeats and exchanges no byte.
THEOREM BufferIsFifo == Spec => ImplementsFifo
<1>1. Init => Fifo!Init BY DEF Init, Fifo!Init, Offered
<1>2. Inv /\ Inv' /\ [Next]_vars => [spoiled' \/ Fifo!Next]_<<written, taken, Offered>>
  BY FifoStep
<1>3. Spec => Fifo!Init BY <1>1, PTL DEF Spec
<1>4. Spec => [][spoiled' \/ Fifo!Next]_<<written, taken, Offered>>
  BY <1>2, Invariant, PTL DEF Spec
<1> QED BY <1>3, <1>4 DEF ImplementsFifo
-----------------------------------------------------------------------------
(* Nobody leaves the buffer *)

Holding == loopPc \in {"read", "commit"}
Reading == audioPc \in {"decode", "check"} /\ readSpace > 0

\* Where the pointers may be, whatever resets and refusals have done to the order:
\* a writer before the reader is not in the reserve, so that the room in front of
\* it is never negative.
PointersKept ==
  /\ ~isEmpty /\ writePtr < readPtr => writePtr <= Main
  /\ isFull => writePtr <= Main
  /\ isEmpty => writePtr = 0 \/ readPtr <= writePtr
  /\ loopPc = "reset" => writePtr = 0

\* The room the loop task was given.
GivenRoom ==
  Holding =>
    /\ writePtr + writeSpace <= BuffEnd
    /\ writePtr < readPtr => writePtr + writeSpace <= Main
    /\ isFull => writeSpace = 0
    /\ loopPc = "commit" => got <= writeSpace

\* The bytes the audio task was given.
GivenBytes ==
  /\ audioPc = "decode" => block.at + block.len <= BuffEnd
  /\ audioPc \in {"check", "advance"} => used > 0
  /\ Reading =>
       /\ ~isEmpty \/ loopPc = "reset"
       /\ readPtr < writePtr \/ writePtr <= Main
       /\ readPtr = writePtr /\ Holding => writeSpace = 0

\* Where bytesWasRead may put the reader.
Ahead ==
  audioPc = "advance" =>
    /\ isEmpty => writePtr = 0
    /\ \A from \in {readPtr, block.at} :
         from + used > writePtr =>
           writePtr <= Main /\ (Holding => writePtr + writeSpace <= Main)

RingInv == PointersKept /\ GivenRoom /\ GivenBytes /\ Ahead

\* A call gives no more than there is, unless that is negative.
LEMMA AtMostBounds ==
  \A n \in Nat : AtMost(n) \in Nat /\ AtMost(n) <= n /\ AtMost(n) <= MaxRet
BY Sizes DEF AtMost

LEMMA RoomAsked ==
  ASSUME TypeInv, RingInv, AskRoom
  PROVE  PointersKept' /\ GivenRoom'
<1> USE Sizes DEF TypeInv, FlagsOK, DataOK
<1> DEFINE wraps == ~isFull /\ ~isEmpty /\ Wraps
           w == IF wraps THEN Res ELSE writePtr
<1>1. writePtr' = w /\ writeSpace' = WriteSpace(w) /\ UNCHANGED <<readPtr, isEmpty, isFull>>
      /\ loopPc' = "read"
  BY DEF AskRoom
<1>2. w \in 0..BuffEnd /\ (~isEmpty /\ w < readPtr => w <= Main)
      /\ (isFull => w <= Main) /\ (isEmpty => w = 0 \/ readPtr <= w)
  BY DEF RingInv, PointersKept
<1> HIDE DEF w
<1>3. PointersKept'
  BY <1>1, <1>2 DEF PointersKept
<1>4. WriteSpace(w) \in Nat /\ w + WriteSpace(w) <= BuffEnd
      /\ (w < readPtr => w + WriteSpace(w) <= Main) /\ (isFull => WriteSpace(w) = 0)
  <2>1. CASE isFull \/ (~isEmpty /\ w = readPtr)
    <3>1. WriteSpace(w) = 0 BY <2>1 DEF WriteSpace
    <3>2. w < readPtr => w <= Main BY <2>1, <1>2, RingInv DEF RingInv, PointersKept
    <3> QED BY <3>1, <3>2, <1>2
  <2>2. CASE ~isFull /\ ~isEmpty /\ w < readPtr
    <3>1. RoomBehindReader(w) \in Nat /\ RoomBehindReader(w) + w <= Main
      BY <2>2, <1>2 DEF RoomBehindReader
    <3>2. WriteSpace(w) = AtMost(RoomBehindReader(w)) BY <2>2 DEF WriteSpace
    <3> HIDE DEF FlagsOK, DataOK
    <3>3. AtMost(RoomBehindReader(w)) \in Nat /\ AtMost(RoomBehindReader(w)) <= RoomBehindReader(w)
      BY <3>1, AtMostBounds
    <3> QED BY <2>2, <3>1, <3>2, <3>3, <1>2
  <2>3. CASE ~isFull /\ ~(~isEmpty /\ w = readPtr) /\ ~(~isEmpty /\ w < readPtr)
    <3>1. WriteSpace(w) = AtMost(BuffEnd - w) BY <2>3 DEF WriteSpace
    <3>2. BuffEnd - w \in Nat BY <1>2
    <3>3. AtMost(BuffEnd - w) \in Nat /\ AtMost(BuffEnd - w) <= BuffEnd - w
          /\ AtMost(BuffEnd - w) <= MaxRet
      BY <3>2, AtMostBounds
    <3>4. w < readPtr => w = 0 BY <2>3, <1>2
    <3> QED BY <2>3, <3>1, <3>3, <3>4, <1>2
  <2> QED BY <2>1, <2>2, <2>3
<1> QED BY <1>1, <1>3, <1>4 DEF GivenRoom, Holding

LEMMA RingStep == TypeInv /\ RingInv /\ [Next]_vars => RingInv'
<1> SUFFICES ASSUME TypeInv, RingInv, [Next]_vars PROVE RingInv' OBVIOUS
<1> USE Sizes DEF TypeInv, FlagsOK, DataOK, RingInv, Holding, Reading
<1>1. CASE AskRoom
  <2>1. PointersKept' /\ GivenRoom' BY <1>1, RoomAsked
  <2>2. UNCHANGED <<readPtr, isEmpty, isFull, audioPc, block, used, readSpace>>
        /\ loopPc' = "read" /\ loopPc = "fill" /\ audioPc # "advance"
        /\ writePtr' \in {writePtr, Res}
        /\ (writePtr' # writePtr => Res < readPtr)
        /\ (~isEmpty /\ readPtr = writePtr' => writeSpace' = 0)
    BY <1>1 DEF AskRoom, audio, Unlocked, WriteSpace, Wraps
  <2>3. GivenBytes'
    BY <2>2 DEF GivenBytes
  <2> QED BY <2>1, <2>2, <2>3 DEF Ahead
<1>2. ASSUME NEW n \in 0..MaxRet, Read(n) PROVE RingInv'
  <2>1. UNCHANGED <<readPtr, writePtr, isEmpty, isFull, writeSpace, audioPc, block, used, readSpace>>
        /\ loopPc = "read" /\ loopPc' = "commit" /\ got' = n /\ n <= writeSpace
    BY <1>2 DEF Read, ring, audio, Available, Least
  <2> QED BY <2>1 DEF PointersKept, GivenRoom, GivenBytes, Ahead
<1>3. CASE Commit
  <2>1. loopPc = "commit" /\ loopPc' = "fill" /\ audioPc # "advance"
        /\ UNCHANGED <<readPtr, audioPc, block, used, readSpace>>
    BY <1>3 DEF Commit, audio, Unlocked
  <2>2. got <= writeSpace /\ writePtr + got <= BuffEnd /\ (isFull => got = 0)
        /\ (writePtr < readPtr => writePtr + got <= Main)
    BY <2>1 DEF GivenRoom
  <2>3. CASE writePtr < readPtr /\ writePtr + got > readPtr
    <3>1. writePtr' = readPtr /\ UNCHANGED <<isFull, isEmpty>> /\ readPtr <= Main
      BY <1>3, <2>2, <2>3 DEF Commit, Advanced
    <3> QED BY <2>1, <2>2, <3>1 DEF PointersKept, GivenRoom, GivenBytes, Ahead
  <2>4. CASE ~(writePtr < readPtr /\ writePtr + got > readPtr)
    <3>1. writePtr' = writePtr + got
          /\ isFull' = (isFull \/ (got > 0 /\ writePtr + got = readPtr))
          /\ isEmpty' = (isEmpty /\ got = 0)
      BY <1>3, <2>2, <2>4 DEF Commit, Advanced
    <3>2. PointersKept'
      BY <2>1, <2>2, <3>1 DEF PointersKept
    <3>3. Reading => readPtr < writePtr' \/ writePtr' <= Main
      <4>1. CASE readPtr < writePtr BY <4>1, <3>1
      <4>2. CASE writePtr < readPtr BY <4>2, <3>1, <2>2
      <4>3. CASE readPtr = writePtr
        BY <4>3, <3>1, <2>1, <2>2 DEF GivenBytes
      <4> QED BY <4>1, <4>2, <4>3
    <3>4. GivenBytes'
      BY <2>1, <3>1, <3>3 DEF GivenBytes
    <3> QED BY <2>1, <3>2, <3>4 DEF GivenRoom, Ahead
  <2> QED BY <2>3, <2>4
<1>4. CASE ResetPointers
  <2>1. readPtr' = 0 /\ writePtr' = 0 /\ loopPc' = "reset"
        /\ UNCHANGED <<isEmpty, isFull, audioPc, block, used, readSpace>>
    BY <1>4 DEF ResetPointers, audio
  <2> QED BY <2>1 DEF PointersKept, GivenRoom, GivenBytes, Ahead
<1>5. CASE ResetFlags
  <2>1. UNCHANGED <<readPtr, writePtr, audioPc, block, used>> /\ writePtr = 0
        /\ loopPc' = "fill" /\ isEmpty' = TRUE /\ isFull' = FALSE /\ readSpace' = 0
    BY <1>5 DEF ResetFlags, PointersKept
  <2> QED BY <2>1 DEF PointersKept, GivenRoom, GivenBytes, Ahead
<1>6. CASE AskBytes
  <2> DEFINE r == IF Rewinds THEN Rewound ELSE readPtr
  <2>1. readPtr' = r /\ readSpace' = ReadSpace(r) /\ audioPc = "ask" /\ audioPc' \in {"ask", "decode"}
        /\ UNCHANGED <<writePtr, isEmpty, isFull, writeSpace, loopPc, got, used>>
    BY <1>6 DEF AskBytes, loop
  <2>2. r \in 0..BuffEnd /\ (r # readPtr => r < writePtr /\ writePtr <= Main)
    BY DEF Rewinds, Rewound
  <2>3. audioPc' = "decode" => block'.at = r /\ block'.len <= ReadSpace(r)
    <3>1. ReadSpace(r) \in 0..MaxRet BY <2>2, Spaces
    <3> QED BY <1>6, <3>1, Spaces DEF AskBytes, Given, ToDecode, Least, LastFrames
  <2> HIDE DEF r
  <2>4. PointersKept' /\ GivenRoom'
    BY <2>1, <2>2 DEF PointersKept, GivenRoom
  <2>5. ReadSpace(r) \in Nat /\ r + ReadSpace(r) <= BuffEnd
        /\ (ReadSpace(r) > 0 => ~isEmpty /\ (isFull \/ r # writePtr))
    <3>1. CASE isEmpty \/ (~isFull /\ r = writePtr)
      BY <3>1, <2>2 DEF ReadSpace
    <3>2. CASE ~isEmpty /\ ~isFull /\ r < writePtr
      <4>1. ReadSpace(r) = AtMost(writePtr - r) /\ writePtr - r \in Nat BY <3>2, <2>2 DEF ReadSpace
      <4>2. AtMost(writePtr - r) \in Nat /\ AtMost(writePtr - r) <= writePtr - r
        BY <4>1, AtMostBounds
      <4> QED BY <3>2, <4>1, <4>2, <2>2
    <3>3. CASE ~isEmpty /\ (isFull \/ writePtr < r)
      <4>1. ReadSpace(r) = AtMost(BuffEnd - r) /\ BuffEnd - r \in Nat BY <3>3, <2>2 DEF ReadSpace
      <4>2. AtMost(BuffEnd - r) \in Nat /\ AtMost(BuffEnd - r) <= BuffEnd - r
        BY <4>1, AtMostBounds
      <4> QED BY <3>3, <4>1, <4>2, <2>2
    <3> QED BY <3>1, <3>2, <3>3, <2>2
  <2>6. GivenBytes'
    <3>1. audioPc' = "decode" => block'.at + block'.len <= BuffEnd
      <4> SUFFICES ASSUME audioPc' = "decode" PROVE block'.at + block'.len <= BuffEnd
        OBVIOUS
      <4>1. block'.len \in Nat BY <1>6, DataStep DEF Next, AudioTask
      <4> QED BY <2>2, <2>3, <2>5, <4>1
    <3>2. Reading' => (~isEmpty' \/ loopPc' = "reset")
      BY <2>1, <2>5
    <3>3. Reading' => (readPtr' < writePtr' \/ writePtr' <= Main)
      BY <2>1, <2>2, <2>5 DEF PointersKept
    <3>4. Reading' /\ readPtr' = writePtr' /\ Holding' => writeSpace' = 0
      BY <2>1, <2>2, <2>5 DEF GivenRoom
    <3> QED BY <2>1, <3>1, <3>2, <3>3, <3>4 DEF GivenBytes
  <2> QED BY <2>1, <2>4, <2>6 DEF Ahead
<1>7. ASSUME NEW n \in 0..(MaxRet + 1), Decode(n) PROVE RingInv'
  <2>1. UNCHANGED <<readPtr, writePtr, isEmpty, isFull, writeSpace, loopPc, got, block, readSpace>>
        /\ audioPc = "decode" /\ used' = n /\ audioPc' = IF n = 0 THEN "ask" ELSE "check"
    BY <1>7 DEF Decode, ring, loop
  <2> QED BY <2>1 DEF PointersKept, GivenRoom, GivenBytes, Ahead
<1>8. CASE Refuse
  <2>1. UNCHANGED <<writePtr, isEmpty, isFull, writeSpace, loopPc, got, block, readSpace>>
        /\ audioPc = "check" /\ audioPc' = "ask"
    BY <1>8 DEF Refuse, loop
  <2>2. CASE UNCHANGED readPtr
    BY <2>1, <2>2 DEF PointersKept, GivenRoom, GivenBytes, Ahead
  <2>3. CASE readPtr < writePtr /\ readPtr' = writePtr
    BY <2>1, <2>3 DEF PointersKept, GivenRoom, GivenBytes, Ahead
  <2>4. CASE readSpace >= used /\ ~(readPtr < writePtr) /\ readPtr' = BuffEnd
    <3>1. used > 0 BY <2>1 DEF GivenBytes
    <3>2. (~isEmpty \/ loopPc = "reset") /\ writePtr <= Main
          /\ (readPtr = writePtr /\ Holding => writeSpace = 0)
      BY <2>1, <2>4, <3>1 DEF GivenBytes
    <3>3. PointersKept' BY <2>1, <2>4, <3>2 DEF PointersKept
    <3>4. GivenRoom' BY <2>1, <2>4, <3>2 DEF GivenRoom
    <3> QED BY <2>1, <3>3, <3>4 DEF GivenBytes, Ahead
  <2> QED BY <1>8, <2>2, <2>3, <2>4 DEF Refuse
<1>9. CASE Accept
  <2>1. UNCHANGED <<readPtr, writePtr, isEmpty, isFull, writeSpace, loopPc, got, used, readSpace>>
        /\ audioPc = "check" /\ audioPc' = "advance" /\ block'.at = readPtr
        /\ readSpace >= used /\ ~(readPtr < writePtr /\ readPtr + used > writePtr)
    BY <1>9 DEF Accept, ring, loop
  <2>2. used > 0 BY <2>1 DEF GivenBytes
  <2>3. isEmpty => writePtr = 0
    BY <2>1, <2>2 DEF GivenBytes, PointersKept
  <2>4. readPtr + used > writePtr =>
          writePtr <= Main /\ (Holding => writePtr + writeSpace <= Main)
    BY <2>1, <2>2 DEF GivenBytes, GivenRoom
  <2>5. Ahead' BY <2>1, <2>3, <2>4 DEF Ahead
  <2> QED BY <2>1, <2>2, <2>5 DEF PointersKept, GivenRoom, GivenBytes
<1>10. CASE Release
  <2>1. UNCHANGED <<writePtr, writeSpace, loopPc, got, block, readSpace>>
        /\ audioPc = "advance" /\ audioPc' = "ask" /\ isFull' = FALSE
    BY <1>10 DEF Release, loop
  <2>2. PICK from \in {readPtr, block.at} :
          readPtr' = from + used /\ isEmpty' = (isEmpty \/ from + used = writePtr)
    BY <1>10 DEF Release
  <2>3. (isEmpty => writePtr = 0)
        /\ (readPtr' > writePtr => writePtr <= Main /\ (Holding => writePtr + writeSpace <= Main))
    BY <2>1, <2>2 DEF Ahead
  <2>4. readPtr' \in 0..BuffEnd BY <2>1, <2>2
  <2>5. PointersKept'
    BY <2>1, <2>2, <2>3, <2>4 DEF PointersKept
  <2>6. GivenRoom'
    BY <2>1, <2>2, <2>3, <2>4 DEF GivenRoom
  <2> QED BY <2>1, <2>5, <2>6 DEF GivenBytes, Ahead
<1>11. CASE Restart
  <2>1. readPtr' = 0 /\ writePtr' = 0 /\ isEmpty' = TRUE /\ isFull' = FALSE
        /\ readSpace' = 0 /\ writeSpace' = AtMost(BuffEnd) /\ audioPc' = "ask"
        /\ UNCHANGED <<loopPc, got, block>>
    BY <1>11 DEF Restart
  <2>2. AtMost(BuffEnd) = MaxRet BY DEF AtMost
  <2> QED BY <2>1, <2>2 DEF PointersKept, GivenRoom, GivenBytes, Ahead
<1>12. CASE LastChunk
  BY <1>12 DEF LastChunk, ring, audio, PointersKept, GivenRoom, GivenBytes, Ahead
<1>13. CASE UNCHANGED vars
  BY <1>13 DEF vars, ring, loop, audio, PointersKept, GivenRoom, GivenBytes, Ahead
<1> QED
  BY <1>1, <1>2, <1>3, <1>4, <1>5, <1>6, <1>7, <1>8, <1>9, <1>10, <1>11, <1>12,
     <1>13 DEF Next, LoopTask, AudioTask

\* No access lies behind the end of the buffer, for every size of it and wherever a
\* reset falls between two calls.
THEOREM NobodyOverruns == Spec => []NoOverrun
<1>1. Init => RingInv
  BY Sizes DEF Init, RingInv, PointersKept, GivenRoom, GivenBytes, Ahead, Holding, Reading
<1>2. TypeInv /\ [Next]_vars => TypeInv' BY FlagsStep, DataStep DEF TypeInv
<1>3. RingInv => NoOverrun
  BY DEF RingInv, GivenRoom, GivenBytes, Holding, NoOverrun
<1> QED BY TypeInit, <1>1, <1>2, RingStep, <1>3, PTL DEF Spec

-----------------------------------------------------------------------------
(* Somebody can go on *)

\* Until the decoder has started, the reader stands at the front and what has arrived
\* is not enough.
NotStarted ==
  ~stream /\ ~spoiled =>
    /\ audioPc = "ask" /\ readPtr = 0 /\ ~isFull
    /\ ~Enough(bufferFilled)
    /\ readPos = 0 /\ (kind = "file" => taken = 0)

LEMMA StartStep == TypeInv /\ NotStarted /\ [Next]_vars => NotStarted'
<1> SUFFICES ASSUME TypeInv, NotStarted, [Next]_vars, ~stream', ~spoiled'
             PROVE  /\ audioPc' = "ask" /\ readPtr' = 0 /\ ~isFull'
                    /\ ~Enough(bufferFilled)'
                    /\ readPos' = 0 /\ (kind' = "file" => taken' = 0)
  BY DEF NotStarted
<1> USE Sizes DEF TypeInv, FlagsOK, DataOK, NotStarted, bufferFilled, Enough
<1>1. CASE AskRoom
  <2>1. /\ ~stream /\ ~spoiled
        /\ UNCHANGED <<readPtr, isEmpty, isFull, audioPc, readPos, kind, taken>>
    BY <1>1 DEF AskRoom, audio
  <2>2. writePtr' = writePtr
    BY <1>1, <2>1 DEF AskRoom, Wraps
  <2> QED BY <2>1, <2>2
<1>2. CASE (\E n \in 0..MaxRet : Read(n)) \/ UNCHANGED vars
  BY <1>2 DEF Read, vars, ring, loop, audio
<1>3. CASE Commit
  <2>1. /\ ~stream /\ ~spoiled /\ ~Enough(Filled(readPtr, writePtr', isEmpty'))
        /\ UNCHANGED <<readPtr, audioPc, readPos, kind, taken>>
    BY <1>3 DEF Commit, audio
  <2>2. ~isFull'
    BY <1>3, <2>1 DEF Commit, Advanced
  <2> QED BY <2>1, <2>2
<1>4. CASE ResetPointers
  BY <1>4 DEF ResetPointers
<1>5. CASE ResetFlags
  <2>1. /\ ~stream /\ ~spoiled /\ UNCHANGED <<readPtr, writePtr, audioPc, readPos, kind, taken>>
        /\ isEmpty' = TRUE /\ isFull' = FALSE
    BY <1>5 DEF ResetFlags
  <2> QED BY <2>1 DEF Filled
<1>6. CASE AudioTask
  <2>1. (stream /\ stream' = stream) \/ (spoiled /\ spoiled')
    BY <1>6 DEF AudioTask, AskBytes, Decode, Refuse, Accept, Release, Spoils
  <2> QED BY <2>1
<1>7. CASE Restart
  <2>1. readPtr' = 0 /\ writePtr' = 0 /\ isEmpty' = TRUE /\ ~isFull' /\ audioPc' = "ask"
        /\ kind' = "stream" /\ readPos' = 0
    BY <1>7 DEF Restart
  <2> QED BY <2>1 DEF Filled
<1>8. CASE LastChunk
  BY <1>8 DEF LastChunk, ring, audio
<1> QED
  BY <1>1, <1>2, <1>3, <1>4, <1>5, <1>6, <1>7, <1>8 DEF Next, LoopTask

\* A call gives something if there is something, and a block if there is one.
LEMMA AtMostGives ==
  \A n \in Nat :
    /\ AtMost(n) \in Nat
    /\ n > 0 => AtMost(n) > 0
    /\ n >= MaxBlock => AtMost(n) >= MaxBlock
BY Sizes DEF AtMost

\* Before the decoder starts there is room: the reader is not in the way.
LEMMA RoomAtStart ==
  ASSUME TypeInv, Geometry, ~Stranded, readPtr = 0, ~isFull, ~Enough(bufferFilled)
  PROVE  Room > 0
<1> USE Sizes DEF TypeInv, FlagsOK, DataOK
<1>1. Room = WriteSpace(writePtr)
  BY DEF Room, Wraps
<1>2. CASE isEmpty
  <2>1. WriteSpace(writePtr) = AtMost(BuffEnd - writePtr) /\ BuffEnd - writePtr \in Nat
        /\ BuffEnd - writePtr > 0
    BY <1>2 DEF WriteSpace, Stranded
  <2> QED BY <1>1, <2>1, AtMostGives
<1>3. CASE ~isEmpty
  <2>1. writePtr > 0
    BY <1>3 DEF Geometry
  <2>2. bufferFilled = writePtr
    BY <1>3, <2>1 DEF bufferFilled, Filled
  <2>3. writePtr < BuffEnd
    <3>1. MaxBlock <= Res BY BufferAssumption DEF BufferAssumption
    <3> QED BY <2>2, <3>1 DEF Enough
  <2>4. WriteSpace(writePtr) = AtMost(BuffEnd - writePtr) /\ BuffEnd - writePtr \in Nat
        /\ BuffEnd - writePtr > 0
    BY <1>3, <2>1, <2>3 DEF WriteSpace
  <2> QED BY <1>1, <2>4, AtMostGives
<1> QED BY <1>2, <1>3

\* Where there is no room for the writer, there is a block for the reader.
LEMMA BlockOrRoom ==
  ASSUME TypeInv, Geometry, ~Stranded, ~Rewinds, ~(Room > 0)
  PROVE  ReadSpace(readPtr) >= MaxBlock
<1> USE Sizes DEF TypeInv, FlagsOK, DataOK
<1>1. CASE isFull
  <2>1. ~isEmpty /\ (readPtr = writePtr \/ (readPtr = 0 /\ writePtr = Main))
    BY <1>1 DEF Geometry
  <2>2. readPtr < Main
    BY <2>1 DEF Geometry, Rewinds
  <2>3. BuffEnd - readPtr \in Nat /\ BuffEnd - readPtr >= MaxBlock
    <3>1. MaxBlock <= Res BY BufferAssumption DEF BufferAssumption
    <3> QED BY <2>2, <3>1
  <2>4. ReadSpace(readPtr) = AtMost(BuffEnd - readPtr)
    BY <1>1, <2>1 DEF ReadSpace
  <2> QED BY <2>3, <2>4, AtMostGives
<1>2. CASE ~isFull /\ isEmpty
  <2>1. Room = AtMost(BuffEnd - writePtr) /\ BuffEnd - writePtr \in Nat /\ BuffEnd - writePtr > 0
    BY <1>2 DEF Room, WriteSpace, Stranded
  <2> QED BY <2>1, AtMostGives
<1>3. CASE ~isFull /\ ~isEmpty /\ readPtr < writePtr
  <2>1. writePtr = BuffEnd /\ ~Wraps
    <3>1. CASE Wraps
      <4>1. Res < readPtr /\ Room = WriteSpace(Res)
        BY <1>3, <3>1 DEF Room, Wraps
      <4>2. RoomBehindReader(Res) \in Nat /\ RoomBehindReader(Res) > 0
        BY <4>1 DEF RoomBehindReader
      <4>3. Room = AtMost(RoomBehindReader(Res))
        BY <1>3, <4>1 DEF WriteSpace
      <4> QED BY <4>2, <4>3, AtMostGives
    <3>2. CASE ~Wraps /\ writePtr < BuffEnd
      <4>1. Room = AtMost(BuffEnd - writePtr) /\ BuffEnd - writePtr \in Nat
            /\ BuffEnd - writePtr > 0
        BY <1>3, <3>2 DEF Room, WriteSpace
      <4> QED BY <4>1, AtMostGives
    <3> QED BY <3>1, <3>2
  <2>2. readPtr <= Res
    BY <2>1 DEF Wraps
  <2>3. BuffEnd - readPtr \in Nat /\ BuffEnd - readPtr >= MaxBlock
    BY <2>2
  <2>4. ReadSpace(readPtr) = AtMost(BuffEnd - readPtr)
    BY <1>3, <2>1 DEF ReadSpace
  <2> QED BY <2>3, <2>4, AtMostGives
<1>4. CASE ~isFull /\ ~isEmpty /\ ~(readPtr < writePtr)
  <2>1. writePtr < readPtr /\ Res <= writePtr /\ writePtr <= Main
    BY <1>4 DEF Geometry
  <2>2. ~Wraps
    BY <2>1 DEF Wraps
  <2>3. Room = AtMost(RoomBehindReader(writePtr)) /\ RoomBehindReader(writePtr) \in Nat
    BY <1>4, <2>1, <2>2 DEF Room, WriteSpace, RoomBehindReader
  <2>4. RoomBehindReader(writePtr) = 0
    BY <2>3, AtMostGives
  <2>5. writePtr = Main /\ readPtr >= Main
    BY <2>1, <2>4 DEF RoomBehindReader
  <2>6. Rewinds
    BY <2>5 DEF Rewinds
  <2> QED BY <2>6
<1> QED BY <1>1, <1>2, <1>3, <1>4

\* What the reader can see of the bytes that wait: all of them, or a whole block.
LEMMA SeesBytes ==
  ASSUME TypeInv, Geometry, ~Rewinds, bufferFilled > 0
  PROVE  ReadSpace(readPtr) > 0 /\ (bufferFilled >= MaxBlock => ReadSpace(readPtr) >= MaxBlock)
<1> USE Sizes DEF TypeInv, FlagsOK, DataOK
<1>0. MaxBlock <= Res BY BufferAssumption DEF BufferAssumption
<1>1. ~isEmpty
  BY DEF bufferFilled, Filled, Geometry
<1>2. CASE ~isFull /\ readPtr < writePtr
  <2>1. bufferFilled = writePtr - readPtr /\ writePtr - readPtr \in Nat
    BY <1>1, <1>2 DEF bufferFilled, Filled
  <2>2. ReadSpace(readPtr) = AtMost(writePtr - readPtr)
    BY <1>1, <1>2 DEF ReadSpace
  <2> QED BY <2>1, <2>2, AtMostGives
<1>3. CASE isFull \/ ~(readPtr < writePtr)
  <2>1. readPtr < Main
    <3>1. CASE readPtr < writePtr
      BY <1>3, <3>1 DEF Geometry
    <3>2. CASE ~(readPtr < writePtr)
      <4>1. writePtr <= Main /\ (Main - readPtr) + writePtr > 0
        BY <1>1, <3>2 DEF Geometry, bufferFilled, Filled
      <4> QED BY <4>1 DEF Rewinds
    <3> QED BY <3>1, <3>2
  <2>2. BuffEnd - readPtr \in Nat /\ BuffEnd - readPtr >= MaxBlock
    BY <1>0, <2>1
  <2>3. ReadSpace(readPtr) = AtMost(BuffEnd - readPtr)
    BY <1>1, <1>3 DEF ReadSpace, Geometry
  <2> QED BY <2>2, <2>3, AtMostGives
<1> QED BY <1>2, <1>3

LEMMA SomebodyGoesOn == TypeInv /\ SoundInv /\ NotStarted => NobodyWaits
<1> SUFFICES ASSUME TypeInv, SoundInv, NotStarted, Sound, ~Stranded, loopPc = "fill",
                    audioPc = "ask", ~Rewinds
             PROVE  \/ Available > 0 /\ Room > 0
                    \/ stream /\ Given(ReadSpace(readPtr)) > 0
                    \/ kind = "stream" /\ ~ended /\ written = Length
                    \/ kind = "stream" /\ ended /\ (bufferFilled = 0 \/ readPos = 0)
                    \/ kind = "file" /\ stream /\ readPos >= Length
                    \/ kind = "file" /\ ~stream /\ Length <= 2 * MaxBlock
  BY DEF NobodyWaits
<1> DEFINE n == ReadSpace(readPtr)
<1>1. /\ Geometry /\ FileKept /\ written - taken = bufferFilled
      /\ kind \in {"stream", "file"} /\ written \in 0..Length /\ taken \in Nat
      /\ readPos \in Nat /\ n \in 0..MaxRet
  <2>1. n \in 0..MaxRet BY Spaces DEF TypeInv, DataOK
  <2> QED BY <2>1 DEF Sound, SoundInv, BufferInv, Geometry, TypeInv, DataOK
<1>2. CASE ~stream
  <2>1. /\ readPtr = 0 /\ ~isFull /\ ~Enough(bufferFilled)
        /\ readPos = 0 /\ (kind = "file" => taken = 0)
    BY <1>2 DEF NotStarted, Sound
  <2>2. Room > 0 BY <1>1, <2>1, RoomAtStart
  <2>3. CASE kind = "file" /\ written = Length
    BY <1>1, <1>2, <2>1, <2>3, Sizes DEF Enough
  <2>4. CASE ~ended /\ written < Length
    BY <1>1, <2>2, <2>4, Sizes DEF Available
  <2> QED BY <1>1, <2>1, <2>3, <2>4, Sizes DEF FileKept
<1>3. CASE stream /\ ended
  <2>1. kind = "stream" BY <1>1, <1>3 DEF FileKept
  <2>2. CASE bufferFilled # 0 /\ readPos # 0
    <3>1. bufferFilled > 0
      BY <1>1, <2>2, Sizes DEF bufferFilled, Filled, Geometry, TypeInv, DataOK
    <3>2. n > 0 BY <1>1, <3>1, SeesBytes
    <3>3. Given(n) = n BY <1>3, <2>1, <2>2 DEF Given, LastFrames, ToDecode
    <3> QED BY <1>3, <3>2, <3>3
  <2> QED BY <1>3, <2>1, <2>2
<1>4. CASE stream /\ ~ended
  <2> SUFFICES ASSUME ~(kind = "stream" /\ written = Length),
                      ~(kind = "file" /\ readPos >= Length),
                      ~(written < Length /\ Room > 0)
               PROVE  Given(n) > 0
    BY <1>1, <1>4, Sizes DEF Available
  <2>1. n > 0 /\ (~LastFrames => n >= MaxBlock)
    <3>1. CASE written < Length
      <4>1. ~(Room > 0) BY <3>1
      <4> HIDE DEF n
      <4>2. ReadSpace(readPtr) >= MaxBlock BY <1>1, <4>1, BlockOrRoom
      <4> QED BY <1>1, <4>2, Sizes DEF n
    <3>2. CASE ~(written < Length)
      <4>1. kind = "file" /\ written = Length /\ readPos = taken /\ taken < Length
        BY <1>1, <3>2, Sizes DEF FileKept
      <4>2. bufferFilled = Length - taken /\ bufferFilled > 0
        BY <1>1, <4>1, Sizes
      <4>3. ~LastFrames => bufferFilled >= MaxBlock
        BY <1>1, <4>1, <4>2, Sizes DEF LastFrames
      <4> QED BY <1>1, <4>2, <4>3, SeesBytes
    <3> QED BY <3>1, <3>2
  <2>2. kind = "file" => Length - readPos > 0
    BY <1>1, Sizes
  <2> HIDE DEF n
  <2> QED BY <1>1, <1>4, <2>1, <2>2, Sizes DEF Given, ToDecode, LastFrames, Least
<1> QED BY <1>2, <1>3, <1>4

\* Whatever the sizes of buffer, reserve and block, and wherever the two tasks stand:
\* if the loop task finds no room, or the last chunk of a stream has come, then the
\* decoder finds a block or the last frames, as long as the buffer did not run empty
\* at the very end of its reserve.
THEOREM SomebodyCanGoOn == Spec => []NobodyWaits
<1>1. Init => NotStarted
  BY Sizes DEF Init, NotStarted, Enough, bufferFilled, Filled
<1>2. Inv /\ NotStarted /\ [Next]_vars => NotStarted'
  BY StartStep DEF Inv
<1>3. Inv /\ NotStarted => NobodyWaits
  BY SomebodyGoesOn DEF Inv
<1> QED BY <1>1, <1>2, <1>3, Invariant, PTL DEF Spec
=============================================================================
