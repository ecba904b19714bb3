----------------------------- MODULE HttpStream -----------------------------
(***************************************************************************)
(* How Audio takes a web stream apart: processWebStream with getChunkSize  *)
(* and readMetadata, and the ways a connection begins and ends             *)
(* (connecttohost, parseHttpResponseHeader, streamDetection, httpPrint).   *)
(* Bytes arrive when they like, the buffer has room when it likes, and     *)
(* every part of the frame may be split over two calls.                    *)
(*                                                                         *)
(* The bytes of a connection are response.body; the first arrived of them  *)
(* are here, the first pos have been read.                                 *)
(***************************************************************************)
EXTENDS StreamGrammar

CONSTANTS
  Responses,  \* what servers may answer
  Window,     \* bytes that may wait in the client
  MaxAgain,   \* bytes followed after "Stream lost"
  MaxUnits    \* the largest length byte taken from the stream by mistake

ASSUME StreamAssumption == {MaxAgain, MaxUnits} \subseteq Nat /\ Window \in Nat \ {0}

Answers == {r \in Responses : WellFormed(r)}

VARIABLES
  mode,              \* m_dataMode: stopped, header or data
  response, arrived, pos,
  pc,                \* where processWebStream is: pass, line, last, fill
  firstCall, stream, allDataReceived,         \* m_f_...
  isChunked, isMetadata,                      \* m_f_chunked, m_f_metadata
  available,         \* m_pwst.availableBytes of this call
  chunkSize, metacount,                       \* m_pwst.chunkSize, m_metacount
  oneByteOfTwo, skipCRLF, isHttpChunked, transportLimit,  \* getChunkSize
  line, readedBytes,                          \* the number of its line, its bytes
  metaDataSize, pos_ml,                       \* readMetadata
  delivered,         \* history: the audio byte expected next in the buffer
  garbled, torn,     \* history: a wrong byte in the buffer, a wrong title shown
  reconnected,       \* history: httpPrint within streamDetection
  fellBack           \* history: the body was taken as one without chunks

connection == <<response, arrived>>
chunking == <<oneByteOfTwo, skipCRLF, isHttpChunked, transportLimit, line, readedBytes>>
titling == <<metaDataSize, pos_ml>>
flags == <<firstCall, stream, allDataReceived, isChunked, isMetadata>>
faults == <<garbled, torn, reconnected, fellBack>>
vars == <<mode, connection, pos, pc, flags, available, chunkSize, metacount,
          chunking, titling, delivered, faults>>

Nothing == -1
Here == arrived - pos                 \* m_client->available()
Next1 == response.body[pos + 1]       \* the next byte
IsCR(s) == s.frame \in {"cr", "cr1", "cr2"}
IsLF(s) == s.frame \in {"lf", "lf1", "lf2"}

Least(a, b) == IF a < b THEN a ELSE b

\* connecttohost has sent a request: setDefaults has run, and the reader is as the
\* last connection left it.
Init ==
  /\ mode = "header" /\ response \in Answers /\ arrived = 0 /\ pos = 0
  /\ pc = "pass" /\ firstCall = TRUE /\ stream = FALSE /\ allDataReceived \in BOOLEAN
  /\ isChunked = FALSE /\ isMetadata = FALSE
  /\ available = 0 /\ chunkSize \in 0..MaxUnits /\ metacount \in {0, MetaInt}
  /\ oneByteOfTwo \in BOOLEAN /\ skipCRLF \in BOOLEAN /\ isHttpChunked \in BOOLEAN
  /\ transportLimit = 0 /\ line = Nothing /\ readedBytes = 0
  /\ metaDataSize \in {0, Unit} /\ pos_ml = 0
  /\ delivered = 0 /\ garbled = FALSE /\ torn = FALSE
  /\ reconnected = FALSE /\ fellBack = FALSE

-----------------------------------------------------------------------------
(* Faulty variants, each a plausible bug in one definition below. *)
NoLimit(n) == n
OnlyAvailable == Here - 1
ForgetHalf == oneByteOfTwo' = FALSE
ShownInParts(size, n) == n > 0 /\ pos_ml + n = size

-----------------------------------------------------------------------------
(* The connection *)

\* What comes with the header is here when the body is read.
Arrive(n) ==
  /\ mode = "data"
  /\ arrived + n <= Len(response.body) /\ Here + n <= Window
  /\ reconnected => arrived + n <= MaxAgain
  /\ arrived' = arrived + n
  /\ UNCHANGED <<mode, response, pos, pc, flags, available, chunkSize, metacount,
                 chunking, titling, delivered, faults>>

\* The header is of no use, or does not come.
Stop ==
  /\ mode = "header" /\ mode' = "stopped"
  /\ UNCHANGED <<connection, pos, pc, flags, available, chunkSize, metacount, chunking,
                 titling, delivered, faults>>

\* parseHttpResponseHeader reaches the empty line.
Header ==
  /\ mode = "header" /\ mode' = "data"
  /\ isChunked' = (isChunked \/ response.says)
  /\ isMetadata' = (isMetadata \/ response.icy)
  /\ UNCHANGED <<connection, pos, pc, firstCall, stream, allDataReceived, available,
                 chunkSize, metacount, chunking, titling, delivered, faults>>

-----------------------------------------------------------------------------
(* processWebStream *)

\* The first call of a connection.
FirstCall ==
  /\ mode = "data" /\ pc = "pass" /\ firstCall
  /\ firstCall' = FALSE /\ stream' = FALSE /\ allDataReceived' = FALSE
  /\ chunkSize' = 0 /\ metacount' = MetaInt
  /\ metaDataSize' = 0 /\ pos_ml' = 0
  /\ oneByteOfTwo' = FALSE /\ skipCRLF' = FALSE /\ isHttpChunked' = TRUE
  /\ transportLimit' = 0 /\ line' = Nothing /\ readedBytes' = 0
  /\ UNCHANGED <<mode, connection, pos, pc, isChunked, isMetadata, available, delivered, faults>>

InPass == mode = "data" /\ pc = "pass" /\ ~firstCall

NeedsSize == isChunked /\ Here > 0 /\ chunkSize = 0

\* No chunk size is needed: on to the data.
Pass ==
  /\ InPass /\ ~NeedsSize
  /\ available' = Here /\ pc' = "fill"
  /\ UNCHANGED <<mode, connection, pos, flags, chunkSize, metacount, chunking, titling,
                 delivered, faults>>

\* getChunkSize: without chunks the limit of the first call is given again.
SameLimit ==
  /\ InPass /\ NeedsSize /\ ~isHttpChunked
  /\ available' = Here /\ chunkSize' = transportLimit /\ pc' = "fill"
  /\ UNCHANGED <<mode, connection, pos, flags, metacount, chunking, titling, delivered, faults>>

HalfSkipped == oneByteOfTwo' = TRUE

\* The CR LF behind the last chunk: only the CR is here ...
SkipCR ==
  /\ InPass /\ NeedsSize /\ isHttpChunked /\ skipCRLF /\ ~oneByteOfTwo /\ Here = 1
  /\ pos' = pos + 1 /\ HalfSkipped
  /\ UNCHANGED <<mode, connection, pc, flags, available, chunkSize, metacount, skipCRLF,
                 isHttpChunked, transportLimit, line, readedBytes, titling, delivered, faults>>

\* ... or the LF too.  The size is read at once if more is here.
SkipLF ==
  /\ InPass /\ NeedsSize /\ isHttpChunked /\ skipCRLF /\ (oneByteOfTwo \/ Here > 1)
  /\ pos' = pos + (IF oneByteOfTwo THEN 1 ELSE 2)
  /\ oneByteOfTwo' = FALSE /\ skipCRLF' = FALSE
  /\ available' = Here
  /\ IF arrived > pos'
     THEN pc' = "line" /\ line' = 0 /\ readedBytes' = pos' - pos
     ELSE UNCHANGED <<pc, line, readedBytes>>
  /\ UNCHANGED <<mode, connection, flags, chunkSize, metacount, isHttpChunked,
                 transportLimit, titling, delivered, faults>>

BeginLine ==
  /\ InPass /\ NeedsSize /\ isHttpChunked /\ ~skipCRLF
  /\ available' = Here /\ pc' = "line" /\ line' = 0 /\ readedBytes' = 0
  /\ UNCHANGED <<mode, connection, pos, flags, chunkSize, metacount, oneByteOfTwo, skipCRLF,
                 isHttpChunked, transportLimit, titling, delivered, faults>>

InLine == mode = "data" /\ pc = "line"

\* The line of the chunk size, byte by byte: digits (one symbol here) and CR.
\* A byte that belongs elsewhere may be a hexadecimal digit by chance.
ReadSize ==
  /\ InLine /\ Here > 0 /\ ~IsLF(Next1)
  /\ line' \in IF Next1.frame = "size" THEN {Next1.room}
              ELSE IF IsCR(Next1) THEN {line} ELSE 0..MaxUnits
  /\ pos' = pos + 1 /\ readedBytes' = readedBytes + 1
  /\ delivered' = IF Next1.frame = "data" /\ Next1.at.kind = "audio"
                  THEN Next1.at.n + 1 ELSE delivered
  /\ fellBack' = (fellBack \/ Next1.frame = "data")
  /\ UNCHANGED <<mode, connection, pc, flags, available, chunkSize, metacount, oneByteOfTwo,
                 skipCRLF, isHttpChunked, transportLimit, titling, garbled, torn, reconnected>>

\* What is here, with the bytes of this line and of the CR LF before it.
FallBackLimit == Here + readedBytes

\* No hexadecimal digit: there are no chunks after all.  What was read is lost.
FallBack ==
  /\ InLine /\ Here > 0 /\ Next1.frame = "data"
  /\ pos' = pos + 1 /\ isHttpChunked' = FALSE /\ fellBack' = TRUE
  /\ delivered' = IF Next1.at.kind = "audio" THEN Next1.at.n + 1 ELSE delivered
  /\ transportLimit' = FallBackLimit /\ chunkSize' = transportLimit'
  /\ pc' = "fill" /\ line' = Nothing /\ readedBytes' = 0
  /\ UNCHANGED <<mode, connection, flags, available, metacount, oneByteOfTwo, skipCRLF,
                 titling, garbled, torn, reconnected>>

EndLine ==
  /\ InLine /\ Here > 0 /\ IsLF(Next1)
  /\ pos' = pos + 1 /\ chunkSize' = line /\ line' = Nothing /\ readedBytes' = 0
  /\ IF line > 0
     THEN skipCRLF' = TRUE /\ pc' = "fill" /\ UNCHANGED allDataReceived
     ELSE pc' = "last" /\ allDataReceived' = TRUE /\ UNCHANGED skipCRLF
  /\ UNCHANGED <<mode, connection, firstCall, stream, isChunked, isMetadata, available,
                 metacount, oneByteOfTwo, isHttpChunked, transportLimit, titling, delivered, faults>>

\* The end of the line does not come within two seconds: stopSong.
LineTimeout ==
  /\ InLine /\ Here = 0 /\ mode' = "stopped" /\ pc' = "pass" /\ line' = Nothing /\ readedBytes' = 0
  /\ allDataReceived' = TRUE
  /\ UNCHANGED <<connection, pos, firstCall, stream, isChunked, isMetadata, available, chunkSize,
                 metacount, oneByteOfTwo, skipCRLF, isHttpChunked, transportLimit, titling,
                 delivered, faults>>

\* The CR LF behind the last chunk, or two seconds.
ReadLast ==
  /\ mode = "data" /\ pc = "last"
  /\ pos' = pos + Least(2, Here) /\ pc' = "fill"
  /\ UNCHANGED <<mode, connection, flags, available, chunkSize, metacount, chunking, titling,
                 delivered, faults>>

\* ---------------------------------------------------------------------------

InFill == mode = "data" /\ pc = "fill"

Limit(n) == IF isChunked THEN Least(n, chunkSize) ELSE n
AtMetadata == isMetadata /\ metacount = 0

Counted(n) ==
  /\ metacount' = IF isMetadata THEN metacount - n ELSE metacount
  /\ chunkSize' = IF isChunked THEN chunkSize - n ELSE chunkSize

\* The next call starts with availableBytes 0.
Return == pc' = "pass" /\ available' = 0

\* A wait for metadata, of which nothing is here, or whose length byte is not.
NoMetadata ==
  /\ InFill /\ AtMetadata
  /\ Limit(available) = 0 \/ (metaDataSize = 0 /\ Here = 0)
  /\ Return
  /\ UNCHANGED <<mode, connection, pos, flags, chunkSize, metacount, chunking,
                 titling, delivered, faults>>

\* readMetadata: the length byte comes first (its value is b), then as much of the
\* title as is here.
First == IF metaDataSize = 0 THEN 1 ELSE 0

LengthByte ==
  IF First = 0 THEN {0}
  ELSE IF Next1.frame = "data" /\ Next1.at.kind = "length" THEN {Next1.at.left}
  ELSE 0..MaxUnits

Size(b) == IF First = 1 THEN b * Unit ELSE metaDataSize

TitleBytes(size) == Least(Least(size - pos_ml, Limit(available) - First), Here - First)

TitleDone(size, n) == pos_ml + n = size

\* The buffer of a title is new in each call: only a whole one is shown.
Shown(size, n) == n > 0 /\ TitleDone(size, n) /\ pos_ml = 0

\* The n bytes behind the length are all of a title.
WholeTitle(n) ==
  /\ \A i \in 1..n : LET s == response.body[pos + First + i] IN
       s.frame = "data" /\ s.at.kind = "title" /\ s.at.left = n + 1 - i
  /\ \E i \in 1..(pos + First) : LET s == response.body[i] IN
       s.frame = "data" /\ s.at.kind = "length" /\ s.at.left * Unit = n
       /\ s.at.n = response.body[pos + First + n].at.n

ReadTitle(size, n) ==
  /\ pos' = pos + First + n
  /\ chunkSize' = IF isChunked THEN chunkSize - First - n ELSE chunkSize
  /\ torn' = (torn \/ (Shown(size, n) /\ ~WholeTitle(n)))
  /\ IF TitleDone(size, n)
     THEN metacount' = MetaInt /\ metaDataSize' = 0 /\ pos_ml' = 0
     ELSE metaDataSize' = size /\ pos_ml' = pos_ml + n /\ UNCHANGED metacount

ReadMetadata ==
  /\ InFill /\ AtMetadata /\ Limit(available) > 0 /\ (metaDataSize = 0 => Here > 0)
  /\ \E b \in LengthByte : ReadTitle(Size(b), TitleBytes(Size(b)))
  /\ Return
  /\ UNCHANGED <<mode, connection, flags, chunking, delivered, garbled,
                 reconnected, fellBack>>

MayTake == LET n == Limit(available) IN IF isMetadata THEN Least(n, metacount) ELSE n

\* audioFileRead into the buffer, which has room for n bytes or more has not come.
Fill(n) ==
  /\ InFill /\ ~AtMetadata
  /\ n <= Least(MayTake, Here)
  /\ pos' = pos + n /\ Counted(n) /\ Return
  /\ delivered' = delivered + n
  /\ garbled' = (garbled \/ \E i \in 1..n : LET s == response.body[pos + i] IN
                   ~(s.frame = "data" /\ s.at.kind = "audio" /\ s.at.n = delivered + i - 1))
  /\ stream' \in IF n > 0 THEN {stream, TRUE} ELSE {stream}
  /\ UNCHANGED <<mode, connection, firstCall, allDataReceived, isChunked, isMetadata,
                 chunking, titling, torn, reconnected, fellBack>>

\* streamDetection: nothing to read for five seconds while the buffer runs low.
\* httpPrint sends the request again, which is answered as before, and forgets
\* chunking, but not the state of either reader: m_f_firstCall stays FALSE.
StreamLost ==
  /\ InFill /\ ~AtMetadata /\ stream /\ ~allDataReceived /\ MayTake = 0
  /\ arrived' = 0 /\ pos' = 0
  /\ mode' = "header" /\ Return /\ delivered' = 0
  /\ isChunked' = FALSE /\ reconnected' = TRUE
  /\ UNCHANGED <<response, firstCall, stream, allDataReceived, isMetadata, chunkSize,
                 metacount, chunking, titling, garbled, torn, fellBack>>

-----------------------------------------------------------------------------
(* The specification *)

\* What the loop task does when it is called again and again.
Step ==
  \/ Header \/ FirstCall \/ Pass \/ SameLimit \/ SkipCR \/ SkipLF \/ BeginLine
  \/ ReadSize \/ FallBack \/ EndLine \/ ReadLast \/ NoMetadata \/ ReadMetadata
  \/ Fill(0)

FillSome == \E n \in 1..MayTake : Fill(n)
ArriveSome == \E n \in 1..Window : Arrive(n)

Next ==
  \/ ArriveSome
  \/ Stop \/ Step \/ FillSome \/ LineTimeout \/ StreamLost

Spec == Init /\ [][Next]_vars

\* loop() is called for ever, the buffer has room again and again, and a server
\* that does not close sends on.
FairSpec == Spec /\ WF_vars(Step) /\ SF_vars(FillSome) /\ WF_vars(ArriveSome)

-----------------------------------------------------------------------------
(* Properties *)

\* TypeOK: the parser's counters never go below zero (they are unsigned) and it never
\* reads more than is here.
FlagsOK ==
  /\ firstCall \in BOOLEAN /\ stream \in BOOLEAN /\ allDataReceived \in BOOLEAN
  /\ isChunked \in BOOLEAN /\ isMetadata \in BOOLEAN
  /\ oneByteOfTwo \in BOOLEAN /\ skipCRLF \in BOOLEAN /\ isHttpChunked \in BOOLEAN
  /\ garbled \in BOOLEAN /\ torn \in BOOLEAN /\ reconnected \in BOOLEAN /\ fellBack \in BOOLEAN

NumbersOK ==
  /\ arrived \in 0..Len(response.body) /\ pos \in 0..arrived
  /\ available \in Nat /\ chunkSize \in Nat /\ metacount \in Nat
  /\ transportLimit \in Nat /\ readedBytes \in Nat
  /\ line \in Nat \cup {Nothing} /\ (pc = "line" => line # Nothing)
  /\ metaDataSize \in Nat /\ pos_ml \in 0..metaDataSize /\ delivered \in Nat

TypeOK ==
  /\ mode \in {"stopped", "header", "data"} /\ pc \in {"pass", "line", "last", "fill"}
  /\ response \in Answers /\ FlagsOK /\ NumbersOK

\* Wherever the bytes of the stream are split over the calls, the buffer receives
\* its audio bytes, all of them, in order, and nothing of the frame.  (After
\* "Stream lost" the reader starts in the middle; a body without the chunks its
\* header promises loses the bytes of the line and so the place of the metadata.)
InOrder == garbled => reconnected \/ (fellBack /\ isMetadata)

\* A title that is shown is the whole block the server sent.
TitlesWhole == torn => reconnected \/ fellBack

\* Whenever processWebStream has found bytes of a stream that goes on, it may take
\* one of them: neither the rest of the chunk nor that of the title has run out.
NeverStarved ==
  InFill /\ available > 0 /\ ~allDataReceived =>
    IF AtMetadata THEN Limit(available) > 0 /\ (metaDataSize > 0 => pos_ml < metaDataSize)
    ELSE MayTake > 0

\* A stream whose server goes on is read to the end of what it sends: no split of
\* the frame leaves the reader waiting for what it has already skipped.
AllRead == <>(pos = Len(response.body) \/ mode = "stopped" \/ reconnected)
=============================================================================
