---------------------------- MODULE AudioBuffer ----------------------------
(***************************************************************************)
(* The ring buffer between a web stream and its decoder: class AudioBuffer *)
(* and the two tasks that use InBuff.  The loop task (Audio::loop) asks    *)
(* for room, lets the socket write into it and commits; the audio task     *)
(* (playAudioData) asks for bytes, decodes them in place and releases what *)
(* it used.  A reserve behind the end lets the decoder always see a whole  *)
(* block: what was written there is copied to the front later.             *)
(*                                                                         *)
(* m_mutex guards each call, not the time between two, and reset() does    *)
(* not take it at all.  Pointers are offsets from m_startPtr; the bytes of *)
(* a play are numbered, and the buffer holds these numbers.                *)
(***************************************************************************)
EXTENDS Integers

CONSTANTS
  Main,      \* m_mainBuffSize: m_endPtr is here
  Res,       \* m_resBuffSize: m_buffEnd is Main + Res
  MaxRet,    \* m_maxRet, the most bytes one call gives
  MaxBlock,  \* m_maxBlockSize, no frame is longer
  Length     \* the length of the file; for a stream, a bound on its bytes

ASSUME BufferAssumption ==
  /\ Main \in Nat /\ Res \in Nat \ {0} /\ Main > Res
  /\ MaxRet \in 1..Main /\ MaxBlock \in 1..MaxRet /\ MaxBlock <= Res
  /\ Length \in Nat

BuffEnd == Main + Res
Address == 0..(BuffEnd - 1)

VARIABLES
  readPtr, writePtr, isEmpty, isFull,
  writeSpace, readSpace,  \* m_writeSpace, m_readSpace: what the last calls gave
  memory,
  loopPc, got,       \* the loop task, and the bytes the socket gave it
  audioPc,           \* the audio task
  block, used,       \* what it decodes (address, length), what it used of it
  kind,              \* the source: a live stream, or a file of known length
  stream, eof,       \* m_f_stream, m_f_eof
  ended,             \* the last chunk of a stream has come: m_f_allDataReceived
  readPos,           \* m_audioDataReadPtr; of a stream, only whether it is above 0
  written, taken,    \* history: bytes put in; bytes released or dropped
  stale,             \* history: a reset since the block was handed out
  spoiled            \* history: see Spoils

ring == <<readPtr, writePtr, isEmpty, isFull>>
loop == <<writeSpace, loopPc, got, written, ended>>
audio == <<readSpace, audioPc, block, used, readPos>>
vars == <<ring, memory, loop, audio, kind, stream, eof, taken, stale, spoiled>>

Init ==
  /\ readPtr = 0 /\ writePtr = 0 /\ isEmpty = TRUE /\ isFull = FALSE
  /\ readSpace = 0 /\ writeSpace = IF MaxRet < BuffEnd THEN MaxRet ELSE BuffEnd
  /\ memory = [a \in Address |-> -1]
  /\ loopPc = "fill" /\ got = 0
  /\ audioPc = "ask" /\ block = [at |-> 0, len |-> 0] /\ used = 0
  /\ kind \in {"stream", "file"} /\ stream = FALSE /\ eof = FALSE
  /\ readPos = 0 /\ ended = FALSE /\ written = 0 /\ taken = 0
  /\ stale = FALSE /\ spoiled = FALSE

-----------------------------------------------------------------------------
(* Faulty variants, each a plausible bug in one definition below. *)
WrapsTooSoon == writePtr = BuffEnd /\ readPtr >= Res
RoomToTheEnd(w) == BuffEnd - w
RewoundToStart == 0
WrapsRegardless == writePtr = BuffEnd
NoLimit(n) == MaxRet
OnlyWholeBlocks(n) == IF n >= MaxBlock THEN n ELSE 0

-----------------------------------------------------------------------------
(* AudioBuffer *)

Least(a, b) == IF a < b THEN a ELSE b

\* min(m_maxRet, n); n is a size_t, so a negative difference is a huge number.
AtMost(n) == IF n \in 0..MaxRet THEN n ELSE MaxRet

Filled(r, w, empty) ==
  IF empty /\ r = w THEN 0 ELSE IF r < w THEN w - r ELSE (Main - r) + w
bufferFilled == Filled(readPtr, writePtr, isEmpty)

\* writeSpace(): the reserve is full, and the reader out of the way of its copy.
Wraps == writePtr = BuffEnd /\ readPtr > Res

\* The room before the reader, who may still be in the reserve, or up to the end.
RoomBehindReader(w) == (IF readPtr >= Main THEN Main ELSE readPtr) - w

\* (writePtr = readPtr, neither empty nor full, is logged and changes nothing.)
WriteSpace(w) ==
  IF isFull \/ (~isEmpty /\ w = readPtr) THEN 0
  ELSE IF ~isEmpty /\ w < readPtr THEN AtMost(RoomBehindReader(w))
  ELSE AtMost(BuffEnd - w)

\* readSpace(): a reader in the reserve goes on in the copy at the front.
Rewinds == readPtr >= Main /\ writePtr <= Main /\ writePtr > readPtr - Main
Rewound == readPtr - Main

ReadSpace(r) ==
  IF isEmpty \/ (~isFull /\ r = writePtr) THEN 0
  ELSE IF ~isFull /\ r < writePtr THEN AtMost(writePtr - r)
  ELSE AtMost(BuffEnd - r)

\* What spoils the order of the bytes: the reader rewinds over an empty buffer;
\* a reset falls between the two halves of a call; and a file counts bytes as
\* played that bytesWasRead refused to release.
Spoils(b) == spoiled' = (spoiled \/ b)

-----------------------------------------------------------------------------
(* The loop task: Audio::loop, processWebStream and processWebFile. *)

\* bytesWasRead holds m_mutex between its check and its last assignment.
Unlocked == audioPc # "advance"

AskRoom ==
  /\ loopPc = "fill" /\ Unlocked
  /\ LET wraps == ~isFull /\ ~isEmpty /\ Wraps
         w == IF wraps THEN Res ELSE writePtr
     IN  /\ memory' = IF wraps
                      THEN [a \in Address |-> memory[IF a < Res THEN Main + a ELSE a]]
                      ELSE memory
         /\ writePtr' = w /\ writeSpace' = WriteSpace(w)
  /\ loopPc' = "read"
  /\ UNCHANGED <<readPtr, isEmpty, isFull, got, written, ended, audio, kind, stream, eof,
                 taken, stale, spoiled>>

\* Nothing follows the last chunk.
Available == IF ended THEN 0 ELSE Length - written

\* audioFileRead: the socket writes straight into the buffer, under no lock.
Read(n) ==
  /\ loopPc = "read" /\ n <= Least(writeSpace, Available)
  /\ memory' = [a \in Address |-> IF a \in writePtr..(writePtr + n - 1)
                                  THEN written + (a - writePtr) ELSE memory[a]]
  /\ got' = n /\ loopPc' = "commit"
  /\ UNCHANGED <<ring, writeSpace, written, ended, audio, kind, stream, eof, taken, stale,
                 spoiled>>

\* bytesWritten(got).
Advanced ==
  IF writePtr < readPtr /\ writePtr + got > readPtr
  THEN writePtr' = readPtr /\ UNCHANGED <<isFull, isEmpty>>
  ELSE IF writePtr + got > BuffEnd
  THEN writePtr' = BuffEnd /\ UNCHANGED <<isFull, isEmpty>>
  ELSE /\ writePtr' = writePtr + got
       /\ isFull' = (isFull \/ (got > 0 /\ writePtr + got = readPtr))
       /\ isEmpty' = (isEmpty /\ got = 0)

\* Enough bytes to start with.
Enough(n) == IF kind = "stream" THEN n * 2 > MaxBlock ELSE n > 2 * MaxBlock

Commit ==
  /\ loopPc = "commit" /\ Unlocked
  /\ Advanced
  /\ stream' = (stream \/ Enough(Filled(readPtr, writePtr', isEmpty')))
  /\ written' = written + got /\ got' = 0 /\ loopPc' = "fill"
  /\ UNCHANGED <<readPtr, memory, writeSpace, ended, audio, kind, eof, taken, stale, spoiled>>

\* A chunk of no bytes ends a chunked stream.
LastChunk ==
  /\ loopPc = "fill" /\ kind = "stream" /\ ~ended
  /\ ended' = TRUE
  /\ UNCHANGED <<ring, memory, writeSpace, loopPc, got, written, audio, kind, stream, eof,
                 taken, stale, spoiled>>

\* streamDetection: no byte for five seconds, so a new connection is tried.
\* InBuff.reset() takes no mutex; what came before the new connection is dropped.
ResetPointers ==
  /\ loopPc = "fill" /\ kind = "stream" /\ stream /\ ~ended
  /\ bufferFilled <= 2 * MaxBlock
  /\ readPtr' = 0 /\ writePtr' = 0 /\ loopPc' = "reset"
  /\ taken' = written /\ stale' = TRUE
  /\ spoiled' = FALSE
  /\ UNCHANGED <<isEmpty, isFull, memory, writeSpace, got, written, ended, audio, kind,
                 stream, eof>>

ResetFlags ==
  /\ loopPc = "reset" /\ loopPc' = "fill"
  /\ isEmpty' = TRUE /\ isFull' = FALSE
  /\ readSpace' = 0 /\ writeSpace' = AtMost(BuffEnd - writePtr)
  /\ UNCHANGED <<readPtr, writePtr, memory, got, written, ended, audioPc, block, used,
                 readPos, kind, stream, eof, taken, stale, spoiled>>

-----------------------------------------------------------------------------
(* The audio task: playAudioData and sendBytes. *)

LastFrames == IF kind = "file" THEN Length - readPos <= MaxBlock ELSE ended

\* What is left to decode.  A stream has no length (m_audioDataSize is 0), so this is
\* 0 - m_audioDataReadPtr in unsigned numbers: no limit, unless nothing was used yet.
ToDecode(n) ==
  IF kind = "file" THEN Least(n, Length - readPos) ELSE IF readPos = 0 THEN 0 ELSE n

\* How many of n readable bytes the decoder is given (given none, it is taken to use none).
Given(n) ==
  IF LastFrames THEN ToDecode(n)
  ELSE IF n >= MaxBlock THEN n ELSE 0

AskBytes ==
  /\ audioPc = "ask" /\ stream /\ ~eof
  /\ LET r == IF Rewinds THEN Rewound ELSE readPtr
         n == ReadSpace(r)
     IN  /\ readPtr' = r /\ readSpace' = n
         /\ IF kind = "file" /\ readPos >= Length
            THEN eof' = TRUE /\ UNCHANGED <<audioPc, block, stale>>
            ELSE /\ UNCHANGED eof
                 /\ IF Given(n) > 0
                    THEN /\ audioPc' = "decode" /\ block' = [at |-> r, len |-> Given(n)]
                         /\ stale' = (loopPc = "reset")
                    ELSE UNCHANGED <<audioPc, block, stale>>
  /\ Spoils(Rewinds /\ isEmpty)
  /\ UNCHANGED <<writePtr, isEmpty, isFull, memory, loop, used, readPos, kind, stream, taken>>

\* The decoder uses nothing (it waits), some or all of the block (without a sync
\* word all of it), or asks to skip more than the block holds (an ID3 tag).
Decode(n) ==
  /\ audioPc = "decode" /\ n \in 0..(block.len + 1)
  /\ used' = n /\ audioPc' = IF n = 0 THEN "ask" ELSE "check"
  /\ UNCHANGED <<ring, memory, loop, readSpace, block, readPos, kind, stream, eof,
                 taken, stale, spoiled>>

\* m_audioDataReadPtr += used, whatever bytesWasRead(used) does.
Progress == IF kind = "file" THEN readPos + used ELSE 1

\* bytesWasRead(used): its refusals ...
Refuse ==
  /\ audioPc = "check" /\ audioPc' = "ask" /\ used' = 0
  /\ \/ readSpace < used /\ UNCHANGED readPtr
     \/ /\ readSpace >= used /\ readPtr < writePtr /\ readPtr + used > writePtr
        /\ readPtr' = writePtr
     \/ /\ readSpace >= used /\ ~(readPtr < writePtr) /\ readPtr + used > BuffEnd
        /\ readPtr' = BuffEnd
  /\ readPos' = Progress
  /\ Spoils(kind = "file" \/ readPtr' # readPtr)
  /\ UNCHANGED <<writePtr, isEmpty, isFull, memory, loop, readSpace, block, kind,
                 stream, eof, taken, stale>>

\* (block.at becomes m_readPtr as this call sees it, the same unless a reset came)
Accept ==
  /\ audioPc = "check" /\ audioPc' = "advance"
  /\ readSpace >= used /\ readPtr + used <= BuffEnd
  /\ ~(readPtr < writePtr /\ readPtr + used > writePtr)
  /\ block' = [block EXCEPT !.at = readPtr]
  /\ UNCHANGED <<ring, memory, loop, readSpace, used, readPos, kind, stream, eof,
                 taken, stale, spoiled>>

\* ... and its end.  m_readPtr += br: a reset in between may be overwritten.
Release ==
  /\ audioPc = "advance" /\ audioPc' = "ask" /\ used' = 0
  /\ \E from \in {readPtr, block.at} :
       /\ readPtr' = from + used
       /\ isEmpty' = (isEmpty \/ from + used = writePtr)
  /\ isFull' = FALSE
  /\ taken' = taken + used
  /\ readPos' = Progress
  /\ Spoils(stale)
  /\ UNCHANGED <<writePtr, memory, loop, readSpace, block, kind, stream, eof, stale>>

\* decodeError, MP3_NEED_RESTART: connecttohost in the audio task, which resets
\* everything while the loop task may be between two of its own steps.
Restart ==
  /\ audioPc = "decode" /\ kind = "stream"
  /\ readPtr' = 0 /\ writePtr' = 0 /\ isEmpty' = TRUE /\ isFull' = FALSE
  /\ readSpace' = 0 /\ writeSpace' = AtMost(BuffEnd)
  /\ stream' = FALSE /\ ended' = FALSE /\ readPos' = 0
  /\ audioPc' = "ask" /\ used' = 0
  /\ taken' = written /\ stale' = TRUE
  /\ spoiled' = (loopPc \in {"read", "commit"})
  /\ UNCHANGED <<memory, loopPc, got, written, block, kind, eof>>

-----------------------------------------------------------------------------
LoopTask == AskRoom \/ (\E n \in 0..MaxRet : Read(n)) \/ Commit \/ ResetFlags
AudioTask == AskBytes \/ (\E n \in 0..(MaxRet + 1) : Decode(n)) \/ Refuse \/ Accept \/ Release

Next == LoopTask \/ AudioTask \/ LastChunk \/ ResetPointers \/ Restart

Spec == Init /\ [][Next]_vars

\* Both tasks are scheduled; the server goes on sending as long as there is room;
\* a decoder that is given block after block uses some of them.
FairSpec ==
  /\ Spec /\ WF_vars(LoopTask) /\ WF_vars(AudioTask)
  /\ SF_vars(AskRoom) /\ SF_vars(\E n \in 1..MaxRet : Read(n))
  /\ SF_vars(\E n \in 1..block.len : Decode(n))

-----------------------------------------------------------------------------
(* Properties *)

\* Every variable has its type: the pointers stay in the buffer, whatever resets.
TypeOK ==
  /\ readPtr \in 0..BuffEnd /\ writePtr \in 0..BuffEnd
  /\ isEmpty \in BOOLEAN /\ isFull \in BOOLEAN
  /\ writeSpace \in 0..MaxRet /\ readSpace \in 0..MaxRet
  /\ memory \in [Address -> Int]
  /\ loopPc \in {"fill", "read", "commit", "reset"} /\ got \in 0..MaxRet
  /\ audioPc \in {"ask", "decode", "check", "advance"}
  /\ block \in [at : 0..BuffEnd, len : 0..MaxRet] /\ used \in 0..(MaxRet + 1)
  /\ kind \in {"stream", "file"} /\ stream \in BOOLEAN /\ eof \in BOOLEAN /\ ended \in BOOLEAN
  /\ readPos \in Nat /\ written \in 0..Length /\ taken \in Nat
  /\ stale \in BOOLEAN /\ spoiled \in BOOLEAN

\* The socket never writes, and the decoder never reads, behind the end of the
\* buffer: not even when a reset falls between two calls.
NoOverrun ==
  /\ loopPc = "read" => writePtr + writeSpace <= BuffEnd
  /\ audioPc = "decode" => block.at + block.len <= BuffEnd

\* Where the reader may meet the i-th unread byte: in the reserve, in its copy at
\* the front, or in both.
Wrapped == ~isEmpty /\ writePtr <= readPtr
Places(i) ==
  IF Wrapped
  THEN {a \in Address : a = readPtr + i \/ (a = readPtr + i - Main)}
  ELSE {readPtr + i}

Sound == ~spoiled /\ loopPc # "reset"

\* The unread bytes are where the reader looks for them, in order, and
\* bufferFilled() counts them: no wrap, copy or late write loses one.
UnreadInOrder ==
  Sound =>
    /\ bufferFilled = written - taken
    /\ \A i \in 0..(written - taken - 1) : \A a \in Places(i) : memory[a] = taken + i

\* While the decoder works on a block, nobody writes over it.
BlockIntact ==
  Sound /\ audioPc # "ask" /\ ~stale =>
    \A i \in 0..(block.len - 1) : memory[block.at + i] = taken + i

\* The buffer is a queue of bytes, as long as nothing has spoilt it.
Offered ==
  IF audioPc = "ask" \/ stale THEN <<>>
  ELSE [i \in 1..block.len |-> memory[block.at + i - 1]]
Fifo == INSTANCE ByteFifo WITH Capacity <- BuffEnd, sent <- written, block <- Offered
ImplementsFifo ==
  Fifo!Init /\ [][spoiled' \/ Fifo!Next]_<<written, taken, Offered>>

\* The buffer ran empty at the very end of the reserve: writeSpace gives 0 now.
Stranded == isEmpty /\ writePtr = BuffEnd

\* While both tasks stand before their next question, one of them gets an answer that
\* lets it go on: there is room for bytes still to come, or a whole block to decode, or
\* the last frames of what is played, or its end; a file of at most two blocks never
\* starts (processWebFile), nor does a stream go on that ended before its first block
\* was used.  The reader has rewound by then: readSpace() does it first.
Room == WriteSpace(IF ~isFull /\ ~isEmpty /\ Wraps THEN Res ELSE writePtr)

NobodyWaits ==
  Sound /\ ~Stranded /\ loopPc = "fill" /\ audioPc = "ask" /\ ~Rewinds =>
    \/ Available > 0 /\ Room > 0
    \/ stream /\ Given(ReadSpace(readPtr)) > 0
    \/ kind = "stream" /\ ~ended /\ written = Length
    \/ kind = "stream" /\ ended /\ (bufferFilled = 0 \/ readPos = 0)
    \/ kind = "file" /\ stream /\ readPos >= Length
    \/ kind = "file" /\ ~stream /\ Length <= 2 * MaxBlock

\* A file is played to its end and a stream goes on, or to its end when its last chunk
\* has come, whatever the pace of the two tasks.
PlaysOn ==
  <>(\/ spoiled \/ Stranded
     \/ kind = "stream" /\ IF ended THEN taken = written \/ readPos = 0 ELSE written = Length
     \/ kind = "file" /\ eof /\ taken = Length
     \/ kind = "file" /\ Length <= 2 * MaxBlock)
=============================================================================
