-------------------------- MODULE HttpStreamProofs --------------------------
(***************************************************************************)
(* Proofs about HttpStream: its types, and that the audio bytes reach the  *)
(* buffer whole and in order.                                              *)
(***************************************************************************)
EXTENDS HttpStream, WellFoundedInduction, TLAPS

-----------------------------------------------------------------------------
(* Runs of bytes *)

LEMMA Sizes == MetaInt \in Nat /\ MetaInt > 0 /\ Unit \in Nat /\ Unit > 0 /\ MaxUnits \in Nat
               /\ Window \in Nat /\ MaxAgain \in Nat
BY GrammarAssumption, StreamAssumption DEF GrammarAssumption, StreamAssumption

LEMMA OneDown ==
  ASSUME NEW a, NEW b, NEW c \in Nat, NEW i \in Int, a = b - 1, b = c - i + 1
  PROVE  a = c - (i + 1) + 1
OBVIOUS

LEMMA MoreBehind ==
  \A a \in Nat, n \in Nat, i \in Int : i < n /\ n <= a => a - i + 1 > 1
OBVIOUS

LEMMA OneUp ==
  ASSUME NEW a, NEW b, NEW c \in Nat, NEW i \in Int, a = b + 1, b = c + i - 1
  PROVE  a = c + (i + 1) - 1
OBVIOUS

LEMMA NatLeast ==
  ASSUME NEW T \in SUBSET Nat, T # {}
  PROVE  \E m \in T : \A k \in T : m <= k
<1>1. IsWellFoundedOn(OpToRel(<, Nat), Nat)
  BY NatLessThanWellFounded
<1>2. PICK m \in T : \A k \in T : ~(<<k, m>> \in OpToRel(<, Nat))
  BY <1>1, WFMin
<1>3. \A k \in T : m <= k
  <2> SUFFICES ASSUME NEW k \in T, ~(m <= k) PROVE FALSE
    OBVIOUS
  <2>1. k < m /\ k \in Nat /\ m \in Nat BY SMT
  <2>2. <<k, m>> \in OpToRel(<, Nat) BY <2>1 DEF OpToRel
  <2> QED BY <1>2, <2>2
<1> QED
  BY <1>3

LEMMA Steps ==
  ASSUME NEW n \in Nat, NEW S, 1 \in S, \A i \in S : i \in 1..n /\ i < n => i + 1 \in S
  PROVE  \A i \in 1..n : i \in S
<1> SUFFICES ASSUME NEW j \in 1..n, j \notin S PROVE FALSE
  OBVIOUS
<1> DEFINE T == {i \in 1..n : i \notin S}
<1>1. T \in SUBSET Nat /\ T # {} OBVIOUS
<1>2. PICK m \in T : \A k \in T : m <= k BY <1>1, NatLeast
<1>3. m \in 1..n /\ m \notin S BY <1>2
<1>4. m # 1 BY <1>3
<1>5. m - 1 \in 1..n /\ m - 1 < n /\ (m - 1) + 1 = m BY <1>3, <1>4
<1>6. m - 1 \notin S BY <1>5, <1>3
<1>7. m - 1 \in T BY <1>5, <1>6
<1>8. m <= m - 1 BY <1>2, <1>7
<1> QED BY <1>8, <1>3

\* In a body, n bytes of audio follow on one another as long as neither the block of
\* audio nor the chunk ends, and nothing else comes between them.
LEMMA AudioRun ==
  ASSUME NEW r \in Answers, NEW p \in Nat, NEW n \in Nat, n > 0, p + n <= Len(r.body),
         r.body[p + 1].frame = "data", r.body[p + 1].at.kind = "audio",
         r.icy => n <= r.body[p + 1].at.left,
         r.chunks => n <= r.body[p + 1].room
  PROVE  \A i \in 1..n :
           /\ r.body[p + i].frame = "data" /\ r.body[p + i].at.kind = "audio"
           /\ r.body[p + i].at.n = r.body[p + 1].at.n + i - 1
           /\ r.icy => r.body[p + i].at.left = r.body[p + 1].at.left - i + 1
           /\ r.chunks => r.body[p + i].room = r.body[p + 1].room - i + 1
<1> DEFINE Good(i) ==
           /\ r.body[p + i].frame = "data" /\ r.body[p + i].at.kind = "audio"
           /\ r.body[p + i].at.n = r.body[p + 1].at.n + i - 1
           /\ r.icy => r.body[p + i].at.left = r.body[p + 1].at.left - i + 1
           /\ r.chunks => r.body[p + i].room = r.body[p + 1].room - i + 1
<1>1. r.body \in Seq(Symbol) /\ r.icy \in BOOLEAN /\ r.chunks \in BOOLEAN
  BY DEF Answers, WellFormed
<1>2. \A i \in 1..(Len(r.body) - 1) : Follows(r.icy, r.chunks, r.body[i], r.body[i + 1])
  BY DEF Answers, WellFormed
<1>3. \A i \in 1..Len(r.body) : /\ r.body[i].frame \in Frames /\ r.body[i].room \in Nat
                                /\ r.body[i].at.n \in Nat /\ r.body[i].at.left \in Nat
  <2>1. \A i \in 1..Len(r.body) : r.body[i] \in Symbol BY <1>1
  <2> QED BY <2>1 DEF Symbol, Payload
<1>4. Good(1)
  <2>1. p + 1 \in 1..Len(r.body) BY <1>1
  <2>2. /\ r.body[p + 1].at.n \in Nat /\ r.body[p + 1].at.left \in Nat
        /\ r.body[p + 1].room \in Nat BY <1>3, <2>1
  <2> QED BY <2>2
<1>5. ASSUME NEW i \in 1..n, i < n, Good(i) PROVE Good(i + 1)
  <2>1. Follows(r.icy, r.chunks, r.body[p + i], r.body[p + i + 1])
    <3>1. p + i \in 1..(Len(r.body) - 1) /\ (p + i) + 1 = p + i + 1
      BY <1>1, <1>5
    <3> QED BY <1>2, <3>1
  <2>2. p + i \in 1..Len(r.body) /\ p + 1 \in 1..Len(r.body) BY <1>1
  <2>n. /\ r.body[p + 1].at.n \in Nat /\ r.body[p + 1].at.left \in Nat
        /\ r.body[p + 1].room \in Nat BY <1>3, <2>2
  <2>i. i \in Int BY <1>5
  <2>m. r.body[p + i].at.n = r.body[p + 1].at.n + i - 1 BY <1>5
  <2>3. ASSUME r.icy PROVE r.body[p + i].at.left > 1
    <3>1. n <= r.body[p + 1].at.left /\ r.body[p + i].at.left = r.body[p + 1].at.left - i + 1
      BY <2>3, <1>5
    <3>2. i < n BY <1>5
    <3> QED BY <3>1, <3>2, <2>n, <2>i, MoreBehind, Zenon
  <2>4. ASSUME r.chunks PROVE r.body[p + i].room > 1
    <3>1. n <= r.body[p + 1].room /\ r.body[p + i].room = r.body[p + 1].room - i + 1
      BY <2>4, <1>5
    <3>2. i < n BY <1>5
    <3> QED BY <3>1, <3>2, <2>n, <2>i, MoreBehind, Zenon
  <2>5. /\ r.body[p + i + 1].frame = "data"
        /\ Succeeds(r.icy, r.body[p + i].at, r.body[p + i + 1].at)
        /\ r.chunks => r.body[p + i + 1].room = r.body[p + i].room - 1
    BY <2>1, <2>4, <1>5 DEF Follows
  <2>6. r.body[p + i + 1].at = Audio(r.body[p + i].at.n + 1,
          IF r.icy THEN r.body[p + i].at.left - 1 ELSE r.body[p + i].at.left)
    BY <2>5, <2>3, <1>5 DEF Succeeds
  <2>7. /\ r.body[p + i + 1].at.kind = "audio"
        /\ r.body[p + i + 1].at.n = r.body[p + i].at.n + 1
        /\ r.icy => r.body[p + i + 1].at.left = r.body[p + i].at.left - 1
    BY <2>6 DEF Audio
  <2>8. p + (i + 1) = p + i + 1 OBVIOUS
  <2>9. /\ r.body[p + i + 1].at.n = r.body[p + 1].at.n + (i + 1) - 1
        /\ r.icy => r.body[p + i + 1].at.left = r.body[p + 1].at.left - (i + 1) + 1
        /\ r.chunks => r.body[p + i + 1].room = r.body[p + 1].room - (i + 1) + 1
    <3>1. r.body[p + i + 1].at.n = r.body[p + 1].at.n + (i + 1) - 1
      BY <2>7, <2>n, <2>i, <2>m, OneUp, Zenon
    <3>2. ASSUME r.icy PROVE r.body[p + i + 1].at.left = r.body[p + 1].at.left - (i + 1) + 1
      <4>1. /\ r.body[p + i + 1].at.left = r.body[p + i].at.left - 1
            /\ r.body[p + i].at.left = r.body[p + 1].at.left - i + 1
        BY <3>2, <2>7, <1>5
      <4> QED BY <4>1, <2>n, <2>i, OneDown, Zenon
    <3>3. ASSUME r.chunks PROVE r.body[p + i + 1].room = r.body[p + 1].room - (i + 1) + 1
      <4>1. /\ r.body[p + i + 1].room = r.body[p + i].room - 1
            /\ r.body[p + i].room = r.body[p + 1].room - i + 1
        BY <3>3, <2>5, <1>5
      <4> QED BY <4>1, <2>n, <2>i, OneDown, Zenon
    <3> QED BY <3>1, <3>2, <3>3
  <2> QED BY <2>5, <2>7, <2>8, <2>9
<1> DEFINE S == {i \in 1..n : Good(i)}
<1> HIDE DEF Good
<1>6. 1 \in S BY <1>4
<1>7. \A i \in S : i \in 1..n /\ i < n => i + 1 \in S BY <1>5
<1>8. \A i \in 1..n : i \in S
  <2> HIDE DEF S
  <2> QED BY <1>6, <1>7, Steps
<1>9. \A i \in 1..n : Good(i) BY <1>8
<1> QED BY <1>9 DEF Good

-----------------------------------------------------------------------------
(* Types *)

LEMMA BodyTypes ==
  ASSUME NEW r \in Answers
  PROVE  /\ r.body \in Seq(Symbol) /\ r.body # <<>>
         /\ r.icy \in BOOLEAN /\ r.says \in BOOLEAN /\ r.chunks \in BOOLEAN
         /\ r.chunks => r.says
         /\ \A i \in 1..Len(r.body) : /\ r.body[i].frame \in Frames /\ r.body[i].room \in Nat
                                      /\ r.body[i].at.n \in Nat /\ r.body[i].at.left \in Nat
         /\ \A i \in 1..(Len(r.body) - 1) : Follows(r.icy, r.chunks, r.body[i], r.body[i + 1])
<1>1. r.body \in Seq(Symbol)
  BY DEF Answers, WellFormed
<1>2. \A i \in 1..Len(r.body) : r.body[i] \in Symbol BY <1>1
<1>3. \A i \in 1..Len(r.body) : /\ r.body[i].frame \in Frames /\ r.body[i].room \in Nat
                                /\ r.body[i].at.n \in Nat /\ r.body[i].at.left \in Nat
  BY <1>2 DEF Symbol, Payload
<1> QED BY <1>1, <1>3 DEF Answers, WellFormed

LEMMA FlagsTyped ==
  ASSUME TypeOK, Next
  PROVE  FlagsOK'
<1> USE DEF TypeOK, FlagsOK, connection, chunking, titling, flags, faults
<1>1. CASE ArriveSome BY <1>1, Zenon DEF ArriveSome, Arrive
<1>2. CASE Stop BY <1>2, Zenon DEF Stop
<1>3. CASE Header BY <1>3, BodyTypes, Zenon DEF Header
<1>4. CASE FirstCall BY <1>4, Zenon DEF FirstCall
<1>5. CASE Pass BY <1>5, Zenon DEF Pass
<1>6. CASE SameLimit BY <1>6, Zenon DEF SameLimit
<1>7. CASE SkipCR BY <1>7, Zenon DEF SkipCR, HalfSkipped
<1>8. CASE SkipLF BY <1>8, Zenon DEF SkipLF
<1>9. CASE BeginLine BY <1>9, Zenon DEF BeginLine
<1>10. CASE ReadSize BY <1>10, Zenon DEF ReadSize
<1>11. CASE FallBack BY <1>11, Zenon DEF FallBack
<1>12. CASE EndLine BY <1>12, Zenon DEF EndLine
<1>13. CASE LineTimeout BY <1>13, Zenon DEF LineTimeout
<1>14. CASE ReadLast BY <1>14, Zenon DEF ReadLast
<1>15. CASE NoMetadata BY <1>15, Zenon DEF NoMetadata
<1>16. CASE ReadMetadata
  <2>1. torn' \in BOOLEAN BY <1>16, Zenon DEF ReadMetadata, ReadTitle
  <2> QED BY <1>16, <2>1, Zenon DEF ReadMetadata
<1>17. ASSUME NEW n, Fill(n) PROVE FlagsOK'
  <2>1. stream' \in BOOLEAN BY <1>17, Zenon DEF Fill
  <2> QED BY <1>17, <2>1, Zenon DEF Fill
<1>18. CASE StreamLost BY <1>18, Zenon DEF StreamLost
<1> QED
  BY <1>1, <1>2, <1>3, <1>4, <1>5, <1>6, <1>7, <1>8, <1>9, <1>10, <1>11, <1>12, <1>13,
     <1>14, <1>15, <1>16, <1>17, <1>18 DEF Next, Step, FillSome

LEMMA ControlTyped ==
  ASSUME TypeOK, Next
  PROVE  /\ mode' \in {"stopped", "header", "data"} /\ pc' \in {"pass", "line", "last", "fill"}
         /\ response' \in Answers
<1> USE DEF TypeOK, connection
<1>1. CASE ArriveSome BY <1>1, Zenon DEF ArriveSome, Arrive
<1>2. CASE Stop BY <1>2, Zenon DEF Stop
<1>3. CASE Header BY <1>3, Zenon DEF Header
<1>4. CASE FirstCall BY <1>4, Zenon DEF FirstCall
<1>5. CASE Pass BY <1>5, Zenon DEF Pass
<1>6. CASE SameLimit BY <1>6, Zenon DEF SameLimit
<1>7. CASE SkipCR BY <1>7, Zenon DEF SkipCR
<1>8. CASE SkipLF BY <1>8, Zenon DEF SkipLF
<1>9. CASE BeginLine BY <1>9, Zenon DEF BeginLine
<1>10. CASE ReadSize BY <1>10, Zenon DEF ReadSize
<1>11. CASE FallBack BY <1>11, Zenon DEF FallBack
<1>12. CASE EndLine BY <1>12, Zenon DEF EndLine
<1>13. CASE LineTimeout BY <1>13, Zenon DEF LineTimeout
<1>14. CASE ReadLast BY <1>14, Zenon DEF ReadLast
<1>15. CASE NoMetadata BY <1>15, Zenon DEF NoMetadata, Return
<1>16. CASE ReadMetadata BY <1>16, Zenon DEF ReadMetadata, Return
<1>17. ASSUME NEW n, Fill(n)
       PROVE  /\ mode' \in {"stopped", "header", "data"}
              /\ pc' \in {"pass", "line", "last", "fill"} /\ response' \in Answers
  BY <1>17, Zenon DEF Fill, Return
<1>18. CASE StreamLost BY <1>18, Zenon DEF StreamLost, Return
<1> QED
  BY <1>1, <1>2, <1>3, <1>4, <1>5, <1>6, <1>7, <1>8, <1>9, <1>10, <1>11, <1>12, <1>13,
     <1>14, <1>15, <1>16, <1>17, <1>18 DEF Next, Step, FillSome

\* The next byte, when one is here, is a symbol of the body.
LEMMA NextTyped ==
  ASSUME TypeOK, Here > 0
  PROVE  /\ pos + 1 \in 1..Len(response.body) /\ Next1.room \in Nat /\ Next1.frame \in Frames
         /\ Next1.at.n \in Nat /\ Next1.at.left \in Nat
<1>1. Len(response.body) \in Nat /\ response \in Answers BY BodyTypes DEF TypeOK
<1>2. pos + 1 \in 1..Len(response.body) BY <1>1 DEF TypeOK, NumbersOK, Here
<1> QED BY <1>1, <1>2, BodyTypes DEF Next1

\* What may be taken in a call respects the chunk and the metadata to come.
LEMMA Limits ==
  ASSUME TypeOK
  PROVE  /\ Limit(available) \in Nat /\ Limit(available) <= available
         /\ isChunked => Limit(available) <= chunkSize
         /\ MayTake \in Nat /\ MayTake <= Limit(available)
         /\ isMetadata => MayTake <= metacount
         /\ isChunked => MayTake <= chunkSize
<1>1. NumbersOK /\ isChunked \in BOOLEAN /\ isMetadata \in BOOLEAN BY DEF TypeOK, FlagsOK
<1>2. CASE isChunked /\ isMetadata BY <1>1, <1>2 DEF NumbersOK, Limit, MayTake, Least
<1>3. CASE ~isChunked /\ isMetadata BY <1>1, <1>3 DEF NumbersOK, Limit, MayTake, Least
<1>4. CASE isChunked /\ ~isMetadata BY <1>1, <1>4 DEF NumbersOK, Limit, MayTake, Least
<1>5. CASE ~isChunked /\ ~isMetadata BY <1>1, <1>5 DEF NumbersOK, Limit, MayTake, Least
<1> QED BY <1>1, <1>2, <1>3, <1>4, <1>5

LEMMA Product == \A b \in Nat : b * Unit \in Nat
BY Sizes

\* What readMetadata takes: no more than is here, belongs to the block or may be taken.
LEMMA TitleLimits ==
  ASSUME TypeOK, Limit(available) > 0, metaDataSize = 0 => Here > 0, NEW b \in LengthByte
  PROVE  /\ b \in Nat /\ First \in {0, 1} /\ Size(b) \in Nat
         /\ TitleBytes(Size(b)) \in Nat
         /\ pos_ml + TitleBytes(Size(b)) <= Size(b)
         /\ First + TitleBytes(Size(b)) <= Limit(available)
         /\ First + TitleBytes(Size(b)) <= Here
<1>1. NumbersOK /\ Limit(available) \in Nat BY Limits DEF TypeOK
<1>2. First \in {0, 1} /\ First <= Limit(available) /\ First <= Here /\ Here \in Nat
  <2>1. Len(response.body) \in Nat BY BodyTypes DEF TypeOK
  <2> QED BY <1>1, <2>1 DEF First, NumbersOK, Here
<1>3. b \in Nat
  <2>1. CASE First = 0 BY <2>1 DEF LengthByte
  <2>2. CASE First = 1
    <3>1. Here > 0 BY <2>2 DEF First
    <3>2. Next1.at.left \in Nat BY <3>1, NextTyped
    <3> QED BY <2>2, <3>2, Sizes DEF LengthByte
  <2> QED BY <2>1, <2>2, <1>2
<1>4. Size(b) \in Nat /\ pos_ml \in Nat /\ pos_ml <= Size(b)
  <2>1. CASE First = 0 BY <2>1, <1>1 DEF Size, NumbersOK, First
  <2>2. CASE First = 1 BY <2>2, <1>1, <1>3, Product DEF Size, NumbersOK, First
  <2> QED BY <2>1, <2>2, <1>2
<1> HIDE DEF Size, First, Limit, Here
<1> QED BY <1>1, <1>2, <1>3, <1>4 DEF TitleBytes, Least

LEMMA NumbersTyped ==
  ASSUME TypeOK, Next
  PROVE  NumbersOK'
<1> USE Sizes DEF NumbersOK, connection, chunking, titling, Nothing, Here
<1>0. NumbersOK /\ Len(response.body) \in Nat /\ response \in Answers BY BodyTypes DEF TypeOK
<1>1. ASSUME NEW n \in 1..Window, Arrive(n) PROVE NumbersOK' BY <1>1, <1>0 DEF Arrive
<1>2. CASE Stop BY <1>2, <1>0 DEF Stop
<1>3. CASE Header BY <1>3, <1>0 DEF Header
<1>4. CASE FirstCall BY <1>4, <1>0 DEF FirstCall
<1>5. CASE Pass BY <1>5, <1>0 DEF Pass
<1>6. CASE SameLimit BY <1>6, <1>0 DEF SameLimit
<1>7. CASE SkipCR BY <1>7, <1>0 DEF SkipCR
<1>8. CASE SkipLF BY <1>8, <1>0 DEF SkipLF, NeedsSize, InPass
<1>9. CASE BeginLine BY <1>9, <1>0 DEF BeginLine
<1>10. CASE ReadSize
  <2>1. Next1.room \in Nat /\ Next1.at.n \in Nat BY <1>10, NextTyped DEF ReadSize
  <2>2. line' \in Nat
    <3>1. line \in Nat BY <1>10, <1>0 DEF ReadSize, InLine
    <3>2. CASE Next1.frame = "size" BY <1>10, <2>1, <3>2 DEF ReadSize
    <3>3. CASE Next1.frame # "size" /\ IsCR(Next1) BY <1>10, <3>1, <3>3 DEF ReadSize
    <3>4. CASE Next1.frame # "size" /\ ~IsCR(Next1) BY <1>10, <3>4 DEF ReadSize
    <3> QED BY <3>2, <3>3, <3>4
  <2>3. delivered' \in Nat BY <1>10, <1>0, <2>1 DEF ReadSize
  <2> QED BY <1>10, <1>0, <2>2, <2>3 DEF ReadSize
<1>11. CASE FallBack
  <2>1. delivered' \in Nat BY <1>11, <1>0, NextTyped DEF FallBack
  <2> QED BY <1>11, <1>0, <2>1 DEF FallBack, FallBackLimit
<1>12. CASE EndLine
  <2>1. line \in Nat BY <1>12, <1>0 DEF EndLine, InLine
  <2> QED BY <1>12, <1>0, <2>1 DEF EndLine
<1>13. CASE LineTimeout BY <1>13, <1>0 DEF LineTimeout
<1>14. CASE ReadLast BY <1>14, <1>0 DEF ReadLast, Least
<1>15. CASE NoMetadata BY <1>15, <1>0 DEF NoMetadata, Return
<1>16. CASE ReadMetadata
  <2>1. PICK b \in LengthByte : ReadTitle(Size(b), TitleBytes(Size(b)))
    BY <1>16 DEF ReadMetadata
  <2> DEFINE size == Size(b)
             n == TitleBytes(size)
  <2>2. /\ First \in {0, 1} /\ size \in Nat /\ n \in Nat /\ pos_ml + n <= size
        /\ First + n <= Limit(available) /\ First + n <= arrived - pos
    BY <1>16, TitleLimits DEF ReadMetadata
  <2>3. Limit(available) \in Nat /\ (isChunked => Limit(available) <= chunkSize) BY Limits
  <2> HIDE DEF size, n, First, Limit
  <2>4. ReadTitle(size, n) BY <2>1 DEF size, n
  <2>5. pos' \in 0..arrived BY <2>4, <2>2, <1>0 DEF ReadTitle
  <2>6. chunkSize' \in Nat BY <2>4, <2>2, <2>3, <1>0 DEF ReadTitle
  <2>7. metacount' \in Nat /\ metaDataSize' \in Nat /\ pos_ml' \in 0..metaDataSize'
    BY <2>4, <2>2, <1>0 DEF ReadTitle
  <2> QED BY <1>16, <1>0, <2>5, <2>6, <2>7 DEF ReadMetadata, Return
<1>17. ASSUME NEW n \in Nat, Fill(n) PROVE NumbersOK'
  <2>1. n <= MayTake /\ n <= Here /\ MayTake \in Nat BY <1>17, <1>0, Limits DEF Fill, Least
  <2>2. (isChunked => n <= chunkSize) /\ (isMetadata => n <= metacount) BY <2>1, <1>0, Limits
  <2> HIDE DEF MayTake
  <2>3. chunkSize' \in Nat /\ metacount' \in Nat BY <1>17, <2>2, <1>0 DEF Fill, Counted
  <2> QED BY <1>17, <1>0, <2>1, <2>3 DEF Fill, Return
<1>18. Fill(0) => NumbersOK' BY <1>17
<1>a. \A n \in 1..MayTake : Fill(n) => NumbersOK' BY <1>17, Limits
<1>19. CASE StreamLost BY <1>19, <1>0 DEF StreamLost, Return
<1> QED
  BY <1>1, <1>2, <1>3, <1>4, <1>5, <1>6, <1>7, <1>8, <1>9, <1>10, <1>11, <1>12, <1>13,
     <1>14, <1>15, <1>16, <1>18, <1>a, <1>19 DEF Next, Step, FillSome, ArriveSome

LEMMA InitTyped == Init => TypeOK
<1> SUFFICES ASSUME Init PROVE TypeOK
  OBVIOUS
<1>1. Len(response.body) \in Nat BY BodyTypes DEF Init
<1>2. NumbersOK BY <1>1, Sizes DEF Init, NumbersOK, Nothing
<1> QED BY <1>2 DEF Init, TypeOK, FlagsOK

LEMMA TypeStep ==
  ASSUME TypeOK, [Next]_vars
  PROVE  TypeOK'
<1>1. CASE Next BY <1>1, FlagsTyped, ControlTyped, NumbersTyped DEF TypeOK
<1>2. CASE UNCHANGED vars
  <2>1. FlagsOK' BY <1>2, Zenon DEF TypeOK, FlagsOK, vars, flags, chunking, faults
  <2>2. NumbersOK' BY <1>2 DEF TypeOK, NumbersOK, vars, connection, chunking, titling
  <2>3. mode' = mode /\ pc' = pc /\ response' = response BY <1>2 DEF vars, connection
  <2> QED BY <2>1, <2>2, <2>3 DEF TypeOK
<1> QED BY <1>1, <1>2

\* What the reader counts with keeps its type; nothing is read that is not here.
THEOREM TypeCorrect == Spec => []TypeOK
<1>1. TypeOK /\ [Next]_vars => TypeOK' BY TypeStep
<1> QED BY <1>1, InitTyped, PTL DEF Spec

-----------------------------------------------------------------------------
(* What follows a run *)

LEMMA AfterByte ==
  ASSUME NEW r \in Answers, NEW p \in Nat, p + 2 <= Len(r.body)
  PROVE  Follows(r.icy, r.chunks, r.body[p + 1], r.body[p + 2])
<1>1. p + 1 \in 1..(Len(r.body) - 1) /\ (p + 1) + 1 = p + 2 BY BodyTypes
<1> QED BY <1>1, BodyTypes

\* Behind a byte of data comes the next byte of the payload, at once or after the
\* frame of the next chunk.
LEMMA AfterData ==
  ASSUME NEW r \in Answers, NEW p \in Nat, p + 2 <= Len(r.body), r.body[p + 1].frame = "data"
  PROVE  /\ Succeeds(r.icy, r.body[p + 1].at, r.body[p + 2].at)
         /\ ~r.chunks => r.body[p + 2].frame = "data"
         /\ r.chunks /\ r.body[p + 1].room > 1 =>
              r.body[p + 2].frame = "data" /\ r.body[p + 2].room = r.body[p + 1].room - 1
         /\ r.chunks /\ r.body[p + 1].room = 1 => r.body[p + 2].frame = "cr"
<1>1. p + 1 \in 1..Len(r.body) /\ p + 2 \in 1..Len(r.body) /\ r.body[p + 1].room \in Nat
  BY BodyTypes
<1> QED BY AfterByte, <1>1 DEF Follows

\* What stands behind n bytes of audio ...
LEMMA AfterAudio ==
  ASSUME NEW r \in Answers, NEW p \in Nat, NEW n \in Nat, n > 0, p + n < Len(r.body),
         r.body[p + 1].frame = "data", r.body[p + 1].at.kind = "audio",
         r.icy => n <= r.body[p + 1].at.left,
         r.chunks => n <= r.body[p + 1].room
  PROVE  /\ r.body[p + n + 1].at.n = r.body[p + 1].at.n + n
         /\ ~r.icy => r.body[p + n + 1].at.kind = "audio"
         /\ r.icy /\ n < r.body[p + 1].at.left =>
              /\ r.body[p + n + 1].at.kind = "audio"
              /\ r.body[p + n + 1].at.left = r.body[p + 1].at.left - n
         /\ r.icy /\ n = r.body[p + 1].at.left => r.body[p + n + 1].at.kind = "length"
         /\ ~r.chunks => r.body[p + n + 1].frame = "data"
         /\ r.chunks /\ n < r.body[p + 1].room =>
              /\ r.body[p + n + 1].frame = "data"
              /\ r.body[p + n + 1].room = r.body[p + 1].room - n
         /\ r.chunks /\ n = r.body[p + 1].room => r.body[p + n + 1].frame = "cr"
<1> DEFINE last == r.body[p + n]
           next == r.body[p + n + 1]
           here == r.body[p + 1]
<1>1. here.at.n \in Nat /\ here.at.left \in Nat /\ here.room \in Nat /\ Len(r.body) \in Nat
  <2>1. Len(r.body) \in Nat BY BodyTypes
  <2>2. p + 1 \in 1..Len(r.body) BY <2>1
  <2> QED BY <2>1, <2>2, BodyTypes
<1>2. /\ last.frame = "data" /\ last.at.kind = "audio" /\ last.at.n = here.at.n + n - 1
      /\ r.icy => last.at.left = here.at.left - n + 1
      /\ r.chunks => last.room = here.room - n + 1
  <2>1. n \in 1..n /\ p + n <= Len(r.body) BY <1>1
  <2>2. \A i \in 1..n :
           /\ r.body[p + i].frame = "data" /\ r.body[p + i].at.kind = "audio"
           /\ r.body[p + i].at.n = r.body[p + 1].at.n + i - 1
           /\ r.icy => r.body[p + i].at.left = r.body[p + 1].at.left - i + 1
           /\ r.chunks => r.body[p + i].room = r.body[p + 1].room - i + 1
    BY AudioRun, <2>1
  <2> QED BY <2>1, <2>2, Zenon
<1>3. Follows(r.icy, r.chunks, last, next)
  <2>1. p + n \in 1..(Len(r.body) - 1) BY <1>1
  <2> QED BY <2>1, BodyTypes
<1>4. /\ Succeeds(r.icy, last.at, next.at)
      /\ \/ next.frame = "data" /\ (r.chunks => last.room > 1 /\ next.room = last.room - 1)
         \/ next.frame = "cr" /\ r.chunks /\ last.room = 1
  BY <1>2, <1>3 DEF Follows
<1>5. \/ /\ r.icy => last.at.left > 1
         /\ next.at = Audio(last.at.n + 1, IF r.icy THEN last.at.left - 1 ELSE last.at.left)
      \/ r.icy /\ last.at.left = 1 /\ next.at = Length(last.at.n + 1, next.at.left)
  BY <1>2, <1>4 DEF Succeeds
<1> HIDE DEF last, next, here
<1>6. next.at.n = last.at.n + 1 BY <1>5 DEF Audio, Length
<1>7. next.at.n = here.at.n + n BY <1>6, <1>2, <1>1
<1>8. ~r.icy => next.at.kind = "audio" BY <1>5 DEF Audio
<1>9. ASSUME r.icy, n < here.at.left PROVE next.at.kind = "audio" /\ next.at.left = here.at.left - n
  <2>1. last.at.left = here.at.left - n + 1 BY <1>2, <1>9
  <2>2. last.at.left > 1 BY <2>1, <1>9, <1>1
  <2>3. next.at = Audio(last.at.n + 1, last.at.left - 1) BY <1>5, <2>2, <1>9
  <2> QED BY <2>1, <2>3, <1>1 DEF Audio
<1>10. ASSUME r.icy, n = here.at.left PROVE next.at.kind = "length"
  <2>0. last.at.left = here.at.left - n + 1 BY <1>2, <1>10
  <2>1. last.at.left = 1 BY <2>0, <1>10, <1>1
  <2>2. next.at = Length(last.at.n + 1, next.at.left) BY <1>5, <2>1, <1>10
  <2> QED BY <2>2 DEF Length
<1>11. ASSUME r.chunks, n < here.room PROVE next.frame = "data" /\ next.room = here.room - n
  <2>1. last.room = here.room - n + 1 BY <1>2, <1>11
  <2>2. next.frame = "data" /\ next.room = last.room - 1 BY <1>4, <2>1, <1>11, <1>1
  <2> QED BY <2>1, <2>2, <1>1
<1>12. ASSUME r.chunks, n = here.room PROVE next.frame = "cr"
  <2>0. last.room = here.room - n + 1 BY <1>2, <1>12
  <2>1. last.room = 1 BY <2>0, <1>12, <1>1
  <2> QED BY <1>4, <2>1, <1>12
<1>13. ~r.chunks => next.frame = "data" BY <1>4
<1> QED BY <1>7, <1>8, <1>9, <1>10, <1>11, <1>12, <1>13 DEF next, here

\* In the same way n bytes of a title follow on one another ...
LEMMA TitleRun ==
  ASSUME NEW r \in Answers, NEW p \in Nat, NEW n \in Nat, n > 0, p + n <= Len(r.body),
         r.body[p + 1].frame = "data", r.body[p + 1].at.kind = "title",
         n <= r.body[p + 1].at.left,
         r.chunks => n <= r.body[p + 1].room
  PROVE  \A i \in 1..n :
           /\ r.body[p + i].frame = "data" /\ r.body[p + i].at.kind = "title"
           /\ r.body[p + i].at.n = r.body[p + 1].at.n
           /\ r.body[p + i].at.left = r.body[p + 1].at.left - i + 1
           /\ r.chunks => r.body[p + i].room = r.body[p + 1].room - i + 1
<1> DEFINE Good(i) ==
           /\ r.body[p + i].frame = "data" /\ r.body[p + i].at.kind = "title"
           /\ r.body[p + i].at.n = r.body[p + 1].at.n
           /\ r.body[p + i].at.left = r.body[p + 1].at.left - i + 1
           /\ r.chunks => r.body[p + i].room = r.body[p + 1].room - i + 1
<1>1. r.body \in Seq(Symbol) /\ r.icy \in BOOLEAN /\ r.chunks \in BOOLEAN
  BY DEF Answers, WellFormed
<1>2. \A i \in 1..(Len(r.body) - 1) : Follows(r.icy, r.chunks, r.body[i], r.body[i + 1])
  BY DEF Answers, WellFormed
<1>3. \A i \in 1..Len(r.body) : /\ r.body[i].frame \in Frames /\ r.body[i].room \in Nat
                                /\ r.body[i].at.n \in Nat /\ r.body[i].at.left \in Nat
  <2>1. \A i \in 1..Len(r.body) : r.body[i] \in Symbol BY <1>1
  <2> QED BY <2>1 DEF Symbol, Payload
<1>4. Good(1)
  <2>1. p + 1 \in 1..Len(r.body) BY <1>1
  <2>2. /\ r.body[p + 1].at.n \in Nat /\ r.body[p + 1].at.left \in Nat
        /\ r.body[p + 1].room \in Nat BY <1>3, <2>1
  <2> QED BY <2>2
<1>5. ASSUME NEW i \in 1..n, i < n, Good(i) PROVE Good(i + 1)
  <2>1. Follows(r.icy, r.chunks, r.body[p + i], r.body[p + i + 1])
    <3>1. p + i \in 1..(Len(r.body) - 1) /\ (p + i) + 1 = p + i + 1
      BY <1>1, <1>5
    <3> QED BY <1>2, <3>1
  <2>2. p + i \in 1..Len(r.body) /\ p + 1 \in 1..Len(r.body) BY <1>1
  <2>n. /\ r.body[p + 1].at.n \in Nat /\ r.body[p + 1].at.left \in Nat
        /\ r.body[p + 1].room \in Nat BY <1>3, <2>2
  <2>i. i \in Int BY <1>5
  <2>m. r.body[p + i].at.n = r.body[p + 1].at.n BY <1>5
  <2>3. r.body[p + i].at.left > 1
    <3>1. n <= r.body[p + 1].at.left /\ r.body[p + i].at.left = r.body[p + 1].at.left - i + 1
      BY <1>5
    <3>2. i < n BY <1>5
    <3> QED BY <3>1, <3>2, <2>n, <2>i, MoreBehind, Zenon
  <2>4. ASSUME r.chunks PROVE r.body[p + i].room > 1
    <3>1. n <= r.body[p + 1].room /\ r.body[p + i].room = r.body[p + 1].room - i + 1
      BY <2>4, <1>5
    <3>2. i < n BY <1>5
    <3> QED BY <3>1, <3>2, <2>n, <2>i, MoreBehind, Zenon
  <2>5. /\ r.body[p + i + 1].frame = "data"
        /\ Succeeds(r.icy, r.body[p + i].at, r.body[p + i + 1].at)
        /\ r.chunks => r.body[p + i + 1].room = r.body[p + i].room - 1
    BY <2>1, <2>4, <1>5 DEF Follows
  <2>6. r.body[p + i + 1].at = Title(r.body[p + i].at.n, r.body[p + i].at.left - 1)
    BY <2>5, <2>3, <1>5 DEF Succeeds
  <2>7. /\ r.body[p + i + 1].at.kind = "title"
        /\ r.body[p + i + 1].at.n = r.body[p + i].at.n
        /\ r.body[p + i + 1].at.left = r.body[p + i].at.left - 1
    BY <2>6 DEF Title
  <2>8. p + (i + 1) = p + i + 1 OBVIOUS
  <2>9. /\ r.body[p + i + 1].at.n = r.body[p + 1].at.n
        /\ r.body[p + i + 1].at.left = r.body[p + 1].at.left - (i + 1) + 1
        /\ r.chunks => r.body[p + i + 1].room = r.body[p + 1].room - (i + 1) + 1
    <3>1. r.body[p + i + 1].at.n = r.body[p + 1].at.n
      BY <2>7, <2>m
    <3>2. r.body[p + i + 1].at.left = r.body[p + 1].at.left - (i + 1) + 1
      <4>1. /\ r.body[p + i + 1].at.left = r.body[p + i].at.left - 1
            /\ r.body[p + i].at.left = r.body[p + 1].at.left - i + 1
        BY <2>7, <1>5
      <4> QED BY <4>1, <2>n, <2>i, OneDown, Zenon
    <3>3. ASSUME r.chunks PROVE r.body[p + i + 1].room = r.body[p + 1].room - (i + 1) + 1
      <4>1. /\ r.body[p + i + 1].room = r.body[p + i].room - 1
            /\ r.body[p + i].room = r.body[p + 1].room - i + 1
        BY <3>3, <2>5, <1>5
      <4> QED BY <4>1, <2>n, <2>i, OneDown, Zenon
    <3> QED BY <3>1, <3>2, <3>3
  <2> QED BY <2>5, <2>7, <2>8, <2>9
<1> DEFINE S == {i \in 1..n : Good(i)}
<1> HIDE DEF Good
<1>6. 1 \in S BY <1>4
<1>7. \A i \in S : i \in 1..n /\ i < n => i + 1 \in S BY <1>5
<1>8. \A i \in 1..n : i \in S
  <2> HIDE DEF S
  <2> QED BY <1>6, <1>7, Steps
<1>9. \A i \in 1..n : Good(i) BY <1>8
<1> QED BY <1>9 DEF Good

\* ... and behind them stands the rest of the title, or audio again.
LEMMA AfterTitle ==
  ASSUME NEW r \in Answers, NEW p \in Nat, NEW n \in Nat, n > 0, p + n < Len(r.body),
         r.body[p + 1].frame = "data", r.body[p + 1].at.kind = "title",
         n <= r.body[p + 1].at.left,
         r.chunks => n <= r.body[p + 1].room
  PROVE  /\ r.body[p + n + 1].at.n = r.body[p + 1].at.n
         /\ n < r.body[p + 1].at.left =>
              /\ r.body[p + n + 1].at.kind = "title"
              /\ r.body[p + n + 1].at.left = r.body[p + 1].at.left - n
         /\ n = r.body[p + 1].at.left =>
              r.body[p + n + 1].at.kind = "audio" /\ r.body[p + n + 1].at.left = MetaInt
         /\ ~r.chunks => r.body[p + n + 1].frame = "data"
         /\ r.chunks /\ n < r.body[p + 1].room =>
              /\ r.body[p + n + 1].frame = "data"
              /\ r.body[p + n + 1].room = r.body[p + 1].room - n
         /\ r.chunks /\ n = r.body[p + 1].room => r.body[p + n + 1].frame = "cr"
<1> DEFINE last == r.body[p + n]
           next == r.body[p + n + 1]
           here == r.body[p + 1]
<1>1. here.at.n \in Nat /\ here.at.left \in Nat /\ here.room \in Nat /\ Len(r.body) \in Nat
  <2>1. Len(r.body) \in Nat BY BodyTypes
  <2>2. p + 1 \in 1..Len(r.body) BY <2>1
  <2> QED BY <2>1, <2>2, BodyTypes
<1>2. /\ last.frame = "data" /\ last.at.kind = "title" /\ last.at.n = here.at.n
      /\ last.at.left = here.at.left - n + 1
      /\ r.chunks => last.room = here.room - n + 1
  <2>1. n \in 1..n /\ p + n <= Len(r.body) BY <1>1
  <2>2. \A i \in 1..n :
           /\ r.body[p + i].frame = "data" /\ r.body[p + i].at.kind = "title"
           /\ r.body[p + i].at.n = r.body[p + 1].at.n
           /\ r.body[p + i].at.left = r.body[p + 1].at.left - i + 1
           /\ r.chunks => r.body[p + i].room = r.body[p + 1].room - i + 1
    BY TitleRun, <2>1
  <2> QED BY <2>1, <2>2, Zenon
<1>3. Follows(r.icy, r.chunks, last, next)
  <2>1. p + n \in 1..(Len(r.body) - 1) BY <1>1
  <2> QED BY <2>1, BodyTypes
<1>4. /\ Succeeds(r.icy, last.at, next.at)
      /\ \/ next.frame = "data" /\ (r.chunks => last.room > 1 /\ next.room = last.room - 1)
         \/ next.frame = "cr" /\ r.chunks /\ last.room = 1
  BY <1>2, <1>3 DEF Follows
<1>5. \/ last.at.left > 1 /\ next.at = Title(last.at.n, last.at.left - 1)
      \/ last.at.left = 1 /\ next.at = Audio(last.at.n, MetaInt)
  BY <1>2, <1>4 DEF Succeeds
<1> HIDE DEF last, next, here
<1>7. next.at.n = here.at.n BY <1>5, <1>2 DEF Audio, Title
<1>9. ASSUME n < here.at.left PROVE next.at.kind = "title" /\ next.at.left = here.at.left - n
  <2>1. last.at.left = here.at.left - n + 1 BY <1>2
  <2>2. last.at.left > 1 BY <2>1, <1>9, <1>1
  <2>3. next.at = Title(last.at.n, last.at.left - 1) BY <1>5, <2>2
  <2> QED BY <2>1, <2>3, <1>1 DEF Title
<1>10. ASSUME n = here.at.left PROVE next.at.kind = "audio" /\ next.at.left = MetaInt
  <2>0. last.at.left = here.at.left - n + 1 BY <1>2
  <2>1. last.at.left = 1 BY <2>0, <1>10, <1>1
  <2>2. next.at = Audio(last.at.n, MetaInt) BY <1>5, <2>1
  <2> QED BY <2>2 DEF Audio
<1>11. ASSUME r.chunks, n < here.room PROVE next.frame = "data" /\ next.room = here.room - n
  <2>1. last.room = here.room - n + 1 BY <1>2, <1>11
  <2>2. next.frame = "data" /\ next.room = last.room - 1 BY <1>4, <2>1, <1>11, <1>1
  <2> QED BY <2>1, <2>2, <1>1
<1>12. ASSUME r.chunks, n = here.room PROVE next.frame = "cr"
  <2>0. last.room = here.room - n + 1 BY <1>2, <1>12
  <2>1. last.room = 1 BY <2>0, <1>12, <1>1
  <2> QED BY <1>4, <2>1, <1>12
<1>13. ~r.chunks => next.frame = "data" BY <1>4
<1> QED BY <1>7, <1>9, <1>10, <1>11, <1>12, <1>13 DEF next, here

-----------------------------------------------------------------------------
(* The inductive invariant *)

More == pos < Len(response.body)

\* The flags are those of the header; until it is read nothing has happened.
FlagsKept ==
  /\ mode = "header" => /\ ~isChunked /\ (isMetadata => response.icy) /\ pos = 0 /\ arrived = 0
                        /\ delivered = 0 /\ pc = "pass" /\ (firstCall \/ reconnected)
  /\ mode = "data" => isChunked = response.says /\ isMetadata = response.icy
  /\ firstCall /\ mode = "data" => pos = 0 /\ delivered = 0 /\ pc = "pass"
  /\ firstCall => ~garbled /\ ~fellBack /\ ~reconnected
  /\ pc \in {"pass", "line", "last", "fill"}
  /\ pc \in {"line", "last"} => isChunked

\* The reader stands where the server meant it to.
Reading == mode = "data" /\ ~firstCall /\ ~reconnected /\ ~(fellBack /\ isMetadata)

\* Its counters agree with the place of the next payload byte ...
PlaceKept ==
  Reading /\ More =>
    LET at == Next1.at IN
    /\ at.n = delivered
    /\ ~isMetadata => at.kind = "audio"
    /\ isMetadata /\ at.kind = "audio" => metacount = at.left /\ metacount > 0 /\ metaDataSize = 0
    /\ isMetadata /\ at.kind = "length" => metacount = 0 /\ metaDataSize = 0
    /\ isMetadata /\ at.kind = "title" =>
         metacount = 0 /\ metaDataSize > 0 /\ metaDataSize - pos_ml = at.left /\ at.left > 0

\* ... and with its place in the frame.
FrameKept ==
  Reading /\ response.chunks =>
    /\ isHttpChunked /\ (oneByteOfTwo => skipCRLF)
    /\ pc = "line" => ~skipCRLF
    /\ pc = "last" => ~skipCRLF /\ (More => Next1.frame = "cr2")
    /\ More =>
         /\ Next1.frame = "data" => chunkSize = Next1.room /\ chunkSize > 0 /\ skipCRLF /\ ~oneByteOfTwo
                                    /\ pc \in {"pass", "fill"}
         /\ Next1.frame # "data" => chunkSize = 0
         /\ Next1.frame = "cr" => skipCRLF /\ ~oneByteOfTwo
         /\ Next1.frame = "lf" => skipCRLF /\ oneByteOfTwo
         /\ Next1.frame \in {"size", "cr1", "lf1", "cr2", "lf2"} => ~skipCRLF
         /\ Next1.frame \in {"cr1", "lf1"} => pc = "line" /\ line = Next1.room
         /\ Next1.frame \in {"cr2", "lf2"} /\ pc = "line" => line = 0

\* A title begun has its length behind it.
TitleKept ==
  Reading /\ metaDataSize > 0 =>
    /\ isMetadata /\ metacount = 0
    /\ \E i \in 1..pos : LET s == response.body[i] IN
         s.frame = "data" /\ s.at.kind = "length" /\ s.at.left * Unit = metaDataSize
         /\ s.at.n = delivered

\* A body without chunks is data throughout.
RawKept ==
  Reading /\ ~response.chunks =>
    /\ ~skipCRLF /\ ~oneByteOfTwo /\ pc # "last"
    /\ More => Next1.frame = "data"

IInv == FlagsKept /\ PlaceKept /\ FrameKept /\ RawKept /\ TitleKept /\ InOrder /\ TitlesWhole

-----------------------------------------------------------------------------
(* The flags *)

LEMMA FlagsStep ==
  ASSUME TypeOK, FlagsKept, Next
  PROVE  FlagsKept'
<1> USE DEF FlagsKept, connection, chunking, titling, flags, faults
<1>0. FlagsOK /\ response.says \in BOOLEAN /\ response.icy \in BOOLEAN BY BodyTypes DEF TypeOK
<1>1. CASE ArriveSome BY <1>1, <1>0 DEF ArriveSome, Arrive, FlagsOK
<1>2. CASE Stop BY <1>2, <1>0, Zenon DEF Stop, FlagsOK
<1>3. CASE Header BY <1>3, <1>0, Zenon DEF Header, FlagsOK
<1>4. CASE FirstCall BY <1>4, <1>0, Zenon DEF FirstCall, FlagsOK
<1>5. CASE Pass BY <1>5, <1>0, Zenon DEF Pass, InPass, FlagsOK
<1>6. CASE SameLimit BY <1>6, <1>0, Zenon DEF SameLimit, InPass, NeedsSize, FlagsOK
<1>7. CASE SkipCR BY <1>7, <1>0, Zenon DEF SkipCR, HalfSkipped, InPass, NeedsSize, FlagsOK
<1>8. CASE SkipLF BY <1>8, <1>0, Zenon DEF SkipLF, InPass, NeedsSize, FlagsOK
<1>9. CASE BeginLine BY <1>9, <1>0, Zenon DEF BeginLine, InPass, NeedsSize, FlagsOK
<1>10. CASE ReadSize BY <1>10, <1>0, Zenon DEF ReadSize, InLine, FlagsOK
<1>11. CASE FallBack BY <1>11, <1>0, Zenon DEF FallBack, InLine, FlagsOK
<1>12. CASE EndLine BY <1>12, <1>0, Zenon DEF EndLine, InLine, FlagsOK
<1>13. CASE LineTimeout BY <1>13, <1>0, Zenon DEF LineTimeout, InLine, FlagsOK
<1>14. CASE ReadLast BY <1>14, <1>0, Zenon DEF ReadLast, FlagsOK
<1>15. CASE NoMetadata BY <1>15, <1>0, Zenon DEF NoMetadata, InFill, Return, FlagsOK
<1>16. CASE ReadMetadata BY <1>16, <1>0, Zenon DEF ReadMetadata, InFill, Return, FlagsOK
<1>17. CASE StreamLost BY <1>17, <1>0, Zenon DEF StreamLost, InFill, Return, FlagsOK
<1>18. ASSUME NEW n, Fill(n) PROVE FlagsKept'
  BY <1>18, <1>0, Zenon DEF Fill, InFill, Return, Counted, FlagsOK
<1> QED
  BY <1>1, <1>2, <1>3, <1>4, <1>5, <1>6, <1>7, <1>8, <1>9, <1>10, <1>11, <1>12, <1>13, <1>14, <1>15, <1>16, <1>17, <1>18 DEF Next, Step, FillSome

-----------------------------------------------------------------------------
(* The place of the reader *)

Kept == PlaceKept /\ FrameKept /\ RawKept

\* Going on by one byte.
LEMMA OneByte ==
  ASSUME TypeOK, Here > 0, pos' = pos + 1, response' = response
  PROVE  /\ More /\ (More' => Follows(response.icy, response.chunks, Next1, Next1'))
         /\ Next1.frame \in Frames
<1>1. Len(response.body) \in Nat /\ pos \in Nat /\ response \in Answers /\ pos < Len(response.body)
  BY BodyTypes DEF TypeOK, NumbersOK, Here
<1>2. More' => Follows(response.icy, response.chunks, Next1, Next1')
  <2> SUFFICES ASSUME More' PROVE Follows(response.icy, response.chunks, Next1, Next1')
    OBVIOUS
  <2>1. pos + 2 <= Len(response.body) BY <1>1 DEF More
  <2>2. Next1' = response.body[pos + 2] BY <1>1 DEF Next1
  <2> QED BY <1>1, <2>1, <2>2, AfterByte DEF Next1
<1> QED BY <1>1, <1>2, NextTyped DEF More

\* Steps that read nothing and leave the counters alone.
LEMMA Quiet ==
  ASSUME TypeOK, FlagsKept, Kept, Next,
         \/ ArriveSome \/ Stop \/ Header \/ Pass \/ SameLimit \/ BeginLine \/ LineTimeout
         \/ NoMetadata \/ StreamLost
  PROVE  Kept'
<1> USE DEF Kept, PlaceKept, FrameKept, RawKept, Reading, More, Next1, connection, chunking,
            titling, flags, faults
<1>1. CASE ArriveSome BY <1>1 DEF ArriveSome, Arrive
<1>2. CASE Stop BY <1>2 DEF Stop
<1>3. CASE Header BY <1>3 DEF Header, FlagsKept
<1>4. CASE Pass BY <1>4 DEF Pass, InPass
<1>5. CASE SameLimit BY <1>5 DEF SameLimit, InPass
<1>6. CASE BeginLine BY <1>6 DEF BeginLine, InPass, NeedsSize
<1>7. CASE LineTimeout BY <1>7 DEF LineTimeout
<1>8. CASE NoMetadata BY <1>8 DEF NoMetadata, InFill, Return
<1>9. CASE StreamLost BY <1>9 DEF StreamLost
<1> QED BY <1>1, <1>2, <1>3, <1>4, <1>5, <1>6, <1>7, <1>8, <1>9

LEMMA FirstKept ==
  ASSUME TypeOK, FlagsKept, FirstCall
  PROVE  Kept'
<1>1. response \in Answers BY DEF TypeOK
<1>2. /\ response.body[1].at = Audio(0, MetaInt)
      /\ response.body[1].frame = IF response.chunks THEN "size" ELSE "data"
  BY <1>1 DEF Answers, WellFormed
<1>3. pos' = 0 /\ delivered' = 0 /\ response' = response /\ Next1' = response.body[1]
  BY DEF FirstCall, FlagsKept, connection, Next1
<1>4. Audio(0, MetaInt).kind = "audio" /\ Audio(0, MetaInt).n = 0 /\ Audio(0, MetaInt).left = MetaInt
  BY DEF Audio
<1>5. PlaceKept' BY <1>2, <1>3, <1>4, Sizes DEF PlaceKept, FirstCall
<1>6. FrameKept' BY <1>2, <1>3 DEF FrameKept, FirstCall, FlagsKept
<1>7. RawKept' BY <1>2, <1>3 DEF RawKept, FirstCall, FlagsKept
<1> QED BY <1>5, <1>6, <1>7 DEF Kept

LEMMA SkipCRKept ==
  ASSUME TypeOK, Kept, SkipCR
  PROVE  Kept'
<1> SUFFICES ASSUME Reading' PROVE Kept'
  BY DEF Kept, PlaceKept, FrameKept, RawKept
<1>1. /\ Reading /\ pos' = pos + 1 /\ response' = response /\ Here > 0 /\ chunkSize = 0
      /\ skipCRLF /\ ~oneByteOfTwo /\ oneByteOfTwo' = TRUE /\ pc' = "pass"
  BY DEF SkipCR, Reading, HalfSkipped, InPass, NeedsSize, connection, flags, faults
<1>2. More /\ (More' => Follows(response.icy, response.chunks, Next1, Next1'))
      /\ Next1.frame \in Frames
  BY <1>1, OneByte
<1>3. response.chunks BY <1>1 DEF Kept, RawKept
<1>4. Next1.frame = "cr" BY <1>1, <1>2, <1>3 DEF Kept, FrameKept, Frames
<1>5. More' => Next1'.frame = "lf" /\ SamePlace(Next1, Next1') BY <1>2, <1>4 DEF Follows
<1>6. PlaceKept' BY <1>1, <1>2, <1>5 DEF Kept, PlaceKept, SkipCR, SamePlace, titling, flags
<1>7. FrameKept' BY <1>1, <1>3, <1>2, <1>5 DEF Kept, FrameKept, SkipCR
<1>8. RawKept' BY <1>1, <1>3 DEF RawKept
<1> QED BY <1>6, <1>7, <1>8 DEF Kept

LEMMA SkipLFKept ==
  ASSUME TypeOK, Kept, SkipLF
  PROVE  Kept'
<1> SUFFICES ASSUME Reading' PROVE Kept'
  BY DEF Kept, PlaceKept, FrameKept, RawKept
<1>1. /\ Reading /\ response' = response /\ Here > 0 /\ chunkSize = 0 /\ chunkSize' = 0
      /\ skipCRLF /\ skipCRLF' = FALSE /\ oneByteOfTwo' = FALSE /\ pc = "pass"
  BY DEF SkipLF, Reading, InPass, NeedsSize, connection, flags, faults
<1>2. Next1.frame \in Frames /\ More
  BY <1>1, NextTyped DEF More, TypeOK, NumbersOK, Here
<1>3. response.chunks /\ response \in Answers BY <1>1 DEF Kept, RawKept, TypeOK
<1>4. Next1.frame = IF oneByteOfTwo THEN "lf" ELSE "cr"
  BY <1>1, <1>2, <1>3 DEF Kept, FrameKept, Frames
<1>5. Len(response.body) \in Nat /\ pos \in Nat BY <1>3, BodyTypes DEF TypeOK, NumbersOK
<1>6. More' => Next1'.frame = "size" /\ Next1'.at = Next1.at
  <2> SUFFICES ASSUME More' PROVE Next1'.frame = "size" /\ Next1'.at = Next1.at
    OBVIOUS
  <2>1. CASE oneByteOfTwo
    <3>1. pos' = pos + 1 BY <2>1 DEF SkipLF
    <3>2. Follows(response.icy, response.chunks, Next1, Next1') BY <3>1, <1>1, OneByte
    <3> QED BY <3>2, <2>1, <1>4 DEF Follows
  <2>2. CASE ~oneByteOfTwo
    <3>1. pos' = pos + 2 BY <2>2 DEF SkipLF
    <3>2. pos + 3 <= Len(response.body) BY <3>1, <1>1, <1>5 DEF More
    <3>3. Follows(response.icy, response.chunks, Next1, response.body[pos + 2])
      <4>1. pos + 2 <= Len(response.body) BY <3>2, <1>5
      <4> QED BY <4>1, <1>3, <1>5, AfterByte DEF Next1
    <3>4. response.body[pos + 2].frame = "lf" /\ response.body[pos + 2].at = Next1.at
      BY <3>3, <2>2, <1>4 DEF Follows, SamePlace
    <3>5. Follows(response.icy, response.chunks, response.body[pos + 2], response.body[pos + 3])
      <4>1. pos + 1 \in Nat /\ (pos + 1) + 2 <= Len(response.body) BY <3>2, <1>5
      <4>2. (pos + 1) + 1 = pos + 2 /\ (pos + 1) + 2 = pos + 3 BY <1>5
      <4> QED BY <4>1, <4>2, <1>3, AfterByte
    <3>6. Next1' = response.body[pos + 3]
      <4>1. pos' + 1 = pos + 3 BY <3>1, <1>5
      <4> QED BY <4>1, <1>1 DEF Next1
    <3> QED BY <3>4, <3>5, <3>6 DEF Follows
  <2> QED BY <2>1, <2>2, <1>4
<1>7. PlaceKept' BY <1>1, <1>2, <1>6 DEF Kept, PlaceKept, SkipLF, titling, flags
<1>8. FrameKept' BY <1>1, <1>3, <1>2, <1>6 DEF Kept, FrameKept, SkipLF
<1>9. RawKept' BY <1>1, <1>3 DEF RawKept
<1> QED BY <1>7, <1>8, <1>9 DEF Kept

\* A byte of a body without chunks that is read as part of a size.
LEMMA LostKept ==
  ASSUME TypeOK, Kept, Reading, ~response.chunks, Here > 0, pos' = pos + 1, response' = response,
         isMetadata' = isMetadata, delivered' = Next1.at.n + 1, skipCRLF' = skipCRLF,
         oneByteOfTwo' = oneByteOfTwo, pc' # "last", ~response.icy, ~isMetadata
  PROVE  Kept'
<1>1. More /\ (More' => Follows(response.icy, response.chunks, Next1, Next1'))
  BY OneByte
<1>2. Next1.frame = "data" /\ Next1.at.kind = "audio" /\ ~skipCRLF /\ ~oneByteOfTwo
  BY <1>1 DEF Kept, PlaceKept, RawKept
<1>3. More' => Next1'.frame = "data" /\ Next1'.at = Audio(Next1.at.n + 1, Next1.at.left)
  BY <1>1, <1>2 DEF Follows, Succeeds
<1>4. Audio(Next1.at.n + 1, Next1.at.left).kind = "audio"
      /\ Audio(Next1.at.n + 1, Next1.at.left).n = Next1.at.n + 1
  BY DEF Audio
<1>5. PlaceKept' BY <1>3, <1>4 DEF PlaceKept
<1>6. FrameKept' BY DEF FrameKept
<1>7. RawKept' BY <1>2, <1>3 DEF RawKept
<1> QED BY <1>5, <1>6, <1>7 DEF Kept

LEMMA ReadSizeKept ==
  ASSUME TypeOK, FlagsKept, Kept, ReadSize
  PROVE  Kept'
<1> SUFFICES ASSUME Reading' PROVE Kept'
  BY DEF Kept, PlaceKept, FrameKept, RawKept
<1>1. /\ mode = "data" /\ ~firstCall /\ ~reconnected /\ ~(fellBack' /\ isMetadata)
      /\ Here > 0 /\ pos' = pos + 1 /\ response' = response
      /\ pc = "line" /\ pc' = "line" /\ isMetadata' = isMetadata /\ chunkSize' = chunkSize
      /\ skipCRLF' = skipCRLF /\ oneByteOfTwo' = oneByteOfTwo
      /\ isMetadata = response.icy
  BY DEF ReadSize, Reading, InLine, connection, flags, faults, FlagsKept
<1>2. Reading /\ FlagsOK /\ response \in Answers BY <1>1 DEF Reading, ReadSize, FlagsOK, TypeOK
<1>3. More /\ (More' => Follows(response.icy, response.chunks, Next1, Next1'))
      /\ Next1.frame \in Frames
  BY <1>1, OneByte
<1>4. CASE response.chunks
  <2>1. Next1.frame \in {"size", "cr1", "cr2"}
    <3>1. Next1.frame \notin {"data", "cr", "lf"}
      BY <1>1, <1>2, <1>3, <1>4 DEF Kept, FrameKept
    <3>2. Next1.frame \notin {"lf1", "lf2"} BY DEF ReadSize, IsLF
    <3> QED BY <3>1, <3>2, <1>3 DEF Frames
  <2>2. line' = IF Next1.frame = "size" THEN Next1.room ELSE line
    BY <2>1 DEF ReadSize, IsCR
  <2>3. delivered' = delivered /\ fellBack' = fellBack
    <3>1. Next1.frame # "data" BY <2>1
    <3>2. fellBack' = fellBack BY <3>1, <1>2, Zenon DEF ReadSize, FlagsOK
    <3> QED BY <3>1, <3>2 DEF ReadSize
  <2>4. More' => /\ SamePlace(Next1, Next1')
                 /\ Next1.frame = "size" => Next1'.frame = "cr1"
                 /\ Next1.frame = "cr1" => Next1'.frame = "lf1"
                 /\ Next1.frame = "cr2" => Next1'.frame = "lf2"
    BY <1>3, <2>1 DEF Follows
  <2>5. PlaceKept' BY <1>1, <1>2, <1>3, <2>3, <2>4 DEF Kept, PlaceKept, ReadSize, SamePlace, titling
  <2>6. FrameKept'
    BY <1>1, <1>2, <1>3, <1>4, <2>1, <2>2, <2>4 DEF Kept, FrameKept, ReadSize, SamePlace
  <2>7. RawKept' BY <1>1, <1>4 DEF RawKept
  <2> QED BY <2>5, <2>6, <2>7 DEF Kept
<1>5. CASE ~response.chunks
  <2>1. Next1.frame = "data" BY <1>2, <1>3, <1>5 DEF Kept, RawKept
  <2>2. fellBack' BY <2>1 DEF ReadSize
  <2>3. ~isMetadata BY <1>1, <2>2
  <2>4. Next1.at.kind = "audio" BY <1>2, <1>3, <2>3 DEF Kept, PlaceKept
  <2>5. delivered' = Next1.at.n + 1 BY <2>1, <2>4 DEF ReadSize
  <2> QED BY <1>1, <1>2, <1>5, <2>3, <2>5, LostKept
<1> QED BY <1>4, <1>5

LEMMA FallBackKept ==
  ASSUME TypeOK, FlagsKept, Kept, FallBack
  PROVE  Kept'
<1> SUFFICES ASSUME Reading' PROVE Kept'
  BY DEF Kept, PlaceKept, FrameKept, RawKept
<1>1. /\ mode = "data" /\ ~firstCall /\ ~reconnected /\ ~isMetadata
      /\ Here > 0 /\ pos' = pos + 1 /\ response' = response
      /\ pc = "line" /\ pc' = "fill" /\ isMetadata' = isMetadata
      /\ skipCRLF' = skipCRLF /\ oneByteOfTwo' = oneByteOfTwo
      /\ isMetadata = response.icy /\ Next1.frame = "data"
  BY DEF FallBack, Reading, InLine, connection, flags, FlagsKept
<1>2. Reading BY <1>1 DEF Reading
<1>3. More BY <1>1, OneByte
<1>4. ~response.chunks BY <1>1, <1>2, <1>3 DEF Kept, FrameKept
<1>5. Next1.at.kind = "audio" BY <1>1, <1>2, <1>3 DEF Kept, PlaceKept
<1>6. delivered' = Next1.at.n + 1 BY <1>5 DEF FallBack
<1> QED BY <1>1, <1>2, <1>4, <1>6, LostKept

LEMMA EndLineKept ==
  ASSUME TypeOK, Kept, EndLine
  PROVE  Kept'
<1> SUFFICES ASSUME Reading' PROVE Kept'
  BY DEF Kept, PlaceKept, FrameKept, RawKept
<1>1. /\ Reading /\ Here > 0 /\ pos' = pos + 1 /\ response' = response
      /\ pc = "line" /\ isMetadata' = isMetadata /\ delivered' = delivered
      /\ oneByteOfTwo' = oneByteOfTwo /\ isHttpChunked' = isHttpChunked
      /\ chunkSize' = line /\ Next1.frame \in {"lf", "lf1", "lf2"}
  BY DEF EndLine, Reading, InLine, IsLF, connection, faults
<1>2. /\ line > 0 => skipCRLF' = TRUE /\ pc' = "fill"
      /\ ~(line > 0) => skipCRLF' = skipCRLF /\ pc' = "last"
  BY DEF EndLine
<1>3. More /\ (More' => Follows(response.icy, response.chunks, Next1, Next1'))
  BY <1>1, OneByte
<1>4. response.chunks BY <1>1, <1>3 DEF Kept, RawKept
<1>5. ~skipCRLF /\ ~oneByteOfTwo /\ isHttpChunked BY <1>1, <1>4 DEF Kept, FrameKept
<1>6. Next1.frame \in {"lf1", "lf2"} BY <1>1, <1>3, <1>4, <1>5 DEF Kept, FrameKept
<1>7. /\ Next1.frame = "lf1" => line = Next1.room
      /\ Next1.frame = "lf2" => line = 0
  BY <1>1, <1>3, <1>4, <1>6 DEF Kept, FrameKept
<1>8. line \in Nat BY <1>1 DEF TypeOK, NumbersOK, Nothing
<1>9. More' => /\ Next1.frame = "lf1" /\ SamePlace(Next1, Next1')
               /\ \/ line > 0 /\ Next1'.frame = "data"
                  \/ line = 0 /\ Next1'.frame = "cr2"
  BY <1>3, <1>6, <1>7 DEF Follows
<1>10. PlaceKept' BY <1>1, <1>3, <1>9 DEF Kept, PlaceKept, EndLine, SamePlace, titling
<1>11. FrameKept'
  <2>1. CASE line > 0 BY <2>1, <1>1, <1>2, <1>5, <1>7, <1>8, <1>9 DEF FrameKept, SamePlace
  <2>2. CASE line = 0 BY <2>2, <1>1, <1>2, <1>5, <1>7, <1>8, <1>9 DEF FrameKept, SamePlace
  <2> QED BY <2>1, <2>2, <1>8
<1>12. RawKept' BY <1>1, <1>4 DEF RawKept
<1> QED BY <1>10, <1>11, <1>12 DEF Kept

LEMMA ReadLastKept ==
  ASSUME TypeOK, Kept, ReadLast
  PROVE  Kept'
<1> SUFFICES ASSUME Reading' PROVE Kept'
  BY DEF Kept, PlaceKept, FrameKept, RawKept
<1>1. /\ Reading /\ response' = response /\ pc = "last" /\ pc' = "fill"
      /\ isMetadata' = isMetadata /\ delivered' = delivered /\ chunkSize' = chunkSize
      /\ oneByteOfTwo' = oneByteOfTwo /\ isHttpChunked' = isHttpChunked /\ skipCRLF' = skipCRLF
      /\ pos' = pos + Least(2, Here)
  BY DEF ReadLast, Reading, connection, chunking, flags, faults
<1>2. response.chunks BY <1>1 DEF Kept, RawKept
<1>3. ~skipCRLF /\ ~oneByteOfTwo /\ isHttpChunked /\ (More => Next1.frame = "cr2")
  BY <1>1, <1>2 DEF Kept, FrameKept
<1>4. response \in Answers /\ Len(response.body) \in Nat /\ pos \in Nat /\ Here \in Nat
      /\ pos + Here <= Len(response.body)
  BY BodyTypes DEF TypeOK, NumbersOK, Here
<1>5. More' => /\ Next1'.frame \in {"cr2", "lf2"} /\ Next1'.at = Next1.at /\ More
  <2> SUFFICES ASSUME More' PROVE Next1'.frame \in {"cr2", "lf2"} /\ Next1'.at = Next1.at /\ More
    OBVIOUS
  <2>1. CASE Here = 0
    <3>1. pos' = pos BY <2>1, <1>1, <1>4 DEF Least
    <3> QED BY <3>1, <1>1, <1>3 DEF More, Next1
  <2>2. CASE Here = 1
    <3>1. pos' = pos + 1 BY <2>2, <1>1, <1>4 DEF Least
    <3>2. More /\ Follows(response.icy, response.chunks, Next1, Next1')
      BY <3>1, <2>2, <1>1, OneByte
    <3> QED BY <3>2, <1>3 DEF Follows, SamePlace
  <2>3. CASE Here > 1
    <3>1. pos' = pos + 2 BY <2>3, <1>1, <1>4 DEF Least
    <3>2. pos + 3 <= Len(response.body) /\ pos + 2 <= Len(response.body)
      BY <3>1, <1>1, <1>4 DEF More
    <3>3. Follows(response.icy, response.chunks, Next1, response.body[pos + 2])
      BY <3>2, <1>4, AfterByte DEF Next1
    <3>4. More BY <3>2, <1>4 DEF More
    <3>5. response.body[pos + 2].frame = "lf2"
      BY <3>3, <3>4, <1>3 DEF Follows
    <3>6. Follows(response.icy, response.chunks, response.body[pos + 2], response.body[pos + 3])
      <4>1. pos + 1 \in Nat /\ (pos + 1) + 2 <= Len(response.body) BY <3>2, <1>4
      <4>2. (pos + 1) + 1 = pos + 2 /\ (pos + 1) + 2 = pos + 3 BY <1>4
      <4> QED BY <4>1, <4>2, <1>4, AfterByte
    <3> QED BY <3>5, <3>6 DEF Follows
  <2> QED BY <2>1, <2>2, <2>3, <1>4
<1>6. More' => chunkSize = 0 BY <1>1, <1>2, <1>3, <1>5 DEF Kept, FrameKept
<1>7. PlaceKept' BY <1>1, <1>5 DEF Kept, PlaceKept, ReadLast, titling
<1>8. FrameKept' BY <1>1, <1>3, <1>5, <1>6 DEF FrameKept
<1>9. RawKept' BY <1>1, <1>2 DEF RawKept
<1> QED BY <1>7, <1>8, <1>9 DEF Kept

\* Before it is filled: what may be taken is audio, as far as it goes.
LEMMA FillRun ==
  ASSUME TypeOK, FlagsKept, Kept, NEW n \in Nat, n > 0, Fill(n), Reading
  PROVE  /\ response \in Answers /\ pos \in Nat /\ pos + n <= Len(response.body) /\ More
         /\ Next1.frame = "data" /\ Next1.at.kind = "audio"
         /\ response.icy => n <= Next1.at.left /\ metacount = Next1.at.left
         /\ response.chunks => n <= Next1.room /\ chunkSize = Next1.room /\ skipCRLF /\ ~oneByteOfTwo
         /\ Next1.at.n = delivered
<1>1. /\ n <= MayTake /\ n <= Here /\ Here \in Nat /\ Len(response.body) \in Nat /\ pos \in Nat
      /\ response \in Answers /\ pos + Here <= Len(response.body)
  BY Limits, BodyTypes DEF Fill, Least, TypeOK, NumbersOK, Here
<1>2. More BY <1>1 DEF More
<1>3. isMetadata = response.icy /\ isChunked = response.says BY DEF FlagsKept, Reading
<1>4. /\ response.icy \in BOOLEAN /\ response.chunks \in BOOLEAN
      /\ response.chunks => response.says
  BY <1>1, BodyTypes
<1>5. (isChunked => n <= chunkSize) /\ (isMetadata => n <= metacount)
  <2>1. MayTake \in Nat /\ (isMetadata => MayTake <= metacount) /\ (isChunked => MayTake <= chunkSize)
        /\ metacount \in Nat /\ chunkSize \in Nat
    BY Limits DEF TypeOK, NumbersOK
  <2> QED BY <2>1, <1>1
<1>6. Next1.frame = "data"
  <2>1. CASE response.chunks
    <3>1. chunkSize # 0 BY <2>1, <1>3, <1>4, <1>5 DEF TypeOK, NumbersOK
    <3> QED BY <3>1, <2>1, <1>2 DEF Kept, FrameKept
  <2>2. CASE ~response.chunks BY <2>2, <1>2 DEF Kept, RawKept
  <2> QED BY <2>1, <2>2
<1>7. Next1.at.kind \in {"audio", "length", "title"}
  <2>1. pos + 1 \in 1..Len(response.body) /\ response.body \in Seq(Symbol) BY <1>1, BodyTypes
  <2>2. Next1 \in Symbol BY <2>1 DEF Next1
  <2> QED BY <2>2 DEF Symbol, Payload
<1>8. Next1.at.kind = "audio" /\ (isMetadata => metacount = Next1.at.left)
  <2>1. CASE isMetadata
    <3>1. metacount # 0 BY <2>1, <1>5, SMT DEF TypeOK, NumbersOK
    <3> QED BY <2>1, <3>1, <1>2, <1>7 DEF Kept, PlaceKept
  <2>2. CASE ~isMetadata BY <2>2, <1>2 DEF Kept, PlaceKept
  <2> QED BY <2>1, <2>2
<1>9. response.icy => n <= Next1.at.left /\ metacount = Next1.at.left BY <1>3, <1>5, <1>8
<1>10. response.chunks => n <= Next1.room /\ chunkSize = Next1.room /\ skipCRLF /\ ~oneByteOfTwo
  BY <1>2, <1>3, <1>4, <1>5, <1>6 DEF Kept, FrameKept
<1>11. Next1.at.n = delivered BY <1>2 DEF Kept, PlaceKept
<1> QED BY <1>1, <1>2, <1>6, <1>8, <1>9, <1>10, <1>11

LEMMA FillKept ==
  ASSUME TypeOK, FlagsKept, Kept, NEW n \in Nat, Fill(n)
  PROVE  Kept'
<1> SUFFICES ASSUME Reading' PROVE Kept'
  BY DEF Kept, PlaceKept, FrameKept, RawKept
<1>1. /\ Reading /\ pos' = pos + n /\ response' = response /\ delivered' = delivered + n
      /\ isMetadata' = isMetadata /\ pc' = "pass" /\ pc = "fill" /\ Counted(n)
      /\ oneByteOfTwo' = oneByteOfTwo /\ isHttpChunked' = isHttpChunked /\ skipCRLF' = skipCRLF
      /\ metaDataSize' = metaDataSize /\ pos_ml' = pos_ml /\ line' = line
  BY DEF Fill, Reading, InFill, Return, connection, chunking, titling
<1>2. /\ isMetadata = response.icy /\ isChunked = response.says
      /\ pos \in Nat /\ delivered \in Nat /\ chunkSize \in Nat /\ metacount \in Nat
      /\ response \in Answers /\ isMetadata \in BOOLEAN /\ isChunked \in BOOLEAN
  BY <1>1 DEF FlagsKept, Reading, TypeOK, NumbersOK, FlagsOK
<1>3. /\ metacount' = IF isMetadata THEN metacount - n ELSE metacount
      /\ chunkSize' = IF isChunked THEN chunkSize - n ELSE chunkSize
  BY <1>1 DEF Counted
<1>4. CASE n = 0
  <2>1. pos' = pos /\ delivered' = delivered /\ metacount' = metacount /\ chunkSize' = chunkSize
    BY <1>1, <1>2, <1>3, <1>4
  <2>2. Next1' = Next1 /\ More' = More BY <2>1, <1>1 DEF Next1, More
  <2>3. PlaceKept' BY <2>1, <2>2, <1>1 DEF Kept, PlaceKept
  <2>4. FrameKept' BY <2>1, <2>2, <1>1 DEF Kept, FrameKept
  <2>5. RawKept' BY <2>1, <2>2, <1>1 DEF Kept, RawKept
  <2> QED BY <2>3, <2>4, <2>5 DEF Kept
<1>5. CASE n > 0
  <2>1. /\ pos + n <= Len(response.body) /\ More /\ Next1.frame = "data" /\ Next1.at.kind = "audio"
        /\ response.icy => n <= Next1.at.left /\ metacount = Next1.at.left
        /\ response.chunks => n <= Next1.room /\ chunkSize = Next1.room /\ skipCRLF /\ ~oneByteOfTwo
        /\ Next1.at.n = delivered
    BY <1>1, <1>5, FillRun
  <2>2. response.chunks => isChunked BY <1>2, BodyTypes
  <2>3. Next1' = response.body[pos + n + 1] BY <1>1 DEF Next1
  <2>4. More' => pos + n < Len(response.body) BY <1>1 DEF More
  <2>5. More' =>
         /\ Next1'.at.n = Next1.at.n + n
         /\ ~response.icy => Next1'.at.kind = "audio"
         /\ response.icy /\ n < Next1.at.left =>
              Next1'.at.kind = "audio" /\ Next1'.at.left = Next1.at.left - n
         /\ response.icy /\ n = Next1.at.left => Next1'.at.kind = "length"
         /\ ~response.chunks => Next1'.frame = "data"
         /\ response.chunks /\ n < Next1.room =>
              Next1'.frame = "data" /\ Next1'.room = Next1.room - n
         /\ response.chunks /\ n = Next1.room => Next1'.frame = "cr"
    <3> SUFFICES ASSUME More' PROVE
         /\ Next1'.at.n = Next1.at.n + n
         /\ ~response.icy => Next1'.at.kind = "audio"
         /\ response.icy /\ n < Next1.at.left =>
              Next1'.at.kind = "audio" /\ Next1'.at.left = Next1.at.left - n
         /\ response.icy /\ n = Next1.at.left => Next1'.at.kind = "length"
         /\ ~response.chunks => Next1'.frame = "data"
         /\ response.chunks /\ n < Next1.room =>
              Next1'.frame = "data" /\ Next1'.room = Next1.room - n
         /\ response.chunks /\ n = Next1.room => Next1'.frame = "cr"
      OBVIOUS
    <3>1. pos + n < Len(response.body) BY <2>4
    <3>2. /\ response.body[pos + 1].frame = "data" /\ response.body[pos + 1].at.kind = "audio"
          /\ response.icy => n <= response.body[pos + 1].at.left
          /\ response.chunks => n <= response.body[pos + 1].room
      BY <2>1 DEF Next1
    <3>3. Next1 = response.body[pos + 1] BY DEF Next1
    <3> QED BY <3>1, <3>2, <3>3, <2>3, <1>2, <1>5, AfterAudio
  <2> HIDE DEF Next1, More
  <2>6. PlaceKept'
    <3> SUFFICES ASSUME More' PROVE PlaceKept'
      BY DEF PlaceKept
    <3>1. Next1'.at.n = delivered' BY <2>5, <2>1, <1>1
    <3>2. CASE ~isMetadata
      <4>1. Next1'.at.kind = "audio" BY <2>5, <3>2, <1>2
      <4> QED BY <4>1, <3>1, <3>2, <1>1 DEF PlaceKept
    <3>3. CASE isMetadata
      <4>1. response.icy BY <3>3, <1>2
      <4>2. n <= Next1.at.left /\ metacount = Next1.at.left /\ metacount' = metacount - n
            /\ metaDataSize = 0
        BY <4>1, <3>3, <2>1, <1>1, <1>3 DEF Kept, PlaceKept
      <4>3. CASE n < Next1.at.left
        <5>1. Next1'.at.kind = "audio" /\ Next1'.at.left = metacount - n /\ n < metacount
          BY <4>1, <4>2, <4>3, <2>5
        <5>2. metacount' > 0 /\ metacount' = Next1'.at.left BY <5>1, <4>2, <1>2
        <5> QED BY <5>1, <5>2, <4>2, <3>1, <3>3, <1>1 DEF PlaceKept
      <4>4. CASE n = Next1.at.left
        <5>1. Next1'.at.kind = "length" BY <4>1, <4>4, <2>5
        <5>2. metacount' = 0 BY <4>2, <4>4, <1>2
        <5> QED BY <5>1, <5>2, <4>2, <3>1, <3>3, <1>1 DEF PlaceKept
      <4> QED BY <4>2, <4>3, <4>4, <1>2
    <3> QED BY <3>2, <3>3
  <2>7. FrameKept'
    <3> SUFFICES ASSUME response.chunks PROVE FrameKept'
      BY <1>1 DEF FrameKept
    <3>1. isHttpChunked /\ skipCRLF /\ ~oneByteOfTwo /\ chunkSize' = chunkSize - n
          /\ chunkSize = Next1.room /\ n <= chunkSize
      BY <2>1, <2>2, <1>1, <1>3 DEF Kept, FrameKept
    <3>2. CASE n < chunkSize
      <4>1. chunkSize' > 0 BY <3>1, <3>2, <1>2
      <4>2. More' => Next1'.frame = "data" /\ Next1'.room = chunkSize'
        BY <2>5, <3>1, <3>2
      <4> QED BY <4>1, <4>2, <3>1, <1>1 DEF FrameKept
    <3>3. CASE n = chunkSize
      <4>1. chunkSize' = 0 BY <3>1, <3>3, <1>2
      <4>2. More' => Next1'.frame = "cr" BY <2>5, <3>1, <3>3
      <4> QED BY <4>1, <4>2, <3>1, <1>1 DEF FrameKept
    <3> QED BY <3>1, <3>2, <3>3, <1>2
  <2>8. RawKept' BY <2>5, <1>1 DEF Kept, RawKept
  <2> QED BY <2>6, <2>7, <2>8 DEF Kept
<1> QED BY <1>4, <1>5

\* What is taken is what should come: the buffer stays in order.
LEMMA FillInOrder ==
  ASSUME TypeOK, FlagsKept, Kept, InOrder, NEW n \in Nat, Fill(n)
  PROVE  InOrder'
<1>1. reconnected' = reconnected /\ fellBack' = fellBack /\ isMetadata' = isMetadata
  BY DEF Fill
<1> SUFFICES ASSUME ~reconnected, ~(fellBack /\ isMetadata) PROVE garbled' = FALSE
  BY <1>1 DEF InOrder
<1>2. garbled = FALSE BY DEF InOrder, TypeOK, FlagsOK
<1>3. Reading BY DEF Reading, Fill, InFill, FlagsKept
<1>4. \A i \in 1..n : LET s == response.body[pos + i] IN
        s.frame = "data" /\ s.at.kind = "audio" /\ s.at.n = delivered + i - 1
  <2>1. CASE n = 0 BY <2>1
  <2>2. CASE n > 0
    <3>1. /\ response \in Answers /\ pos \in Nat /\ pos + n <= Len(response.body)
          /\ Next1.frame = "data" /\ Next1.at.kind = "audio"
          /\ response.icy => n <= Next1.at.left
          /\ response.chunks => n <= Next1.room
          /\ Next1.at.n = delivered
      BY <1>3, <2>2, FillRun
    <3>2. Next1 = response.body[pos + 1] BY DEF Next1
    <3>3. /\ response.body[pos + 1].frame = "data"
          /\ response.body[pos + 1].at.kind = "audio"
          /\ response.icy => n <= response.body[pos + 1].at.left
          /\ response.chunks => n <= response.body[pos + 1].room
      BY <3>1, <3>2
    <3>4. n \in Nat /\ n > 0 BY <2>2
    <3>5. response \in Answers /\ pos \in Nat /\ pos + n <= Len(response.body) BY <3>1
    <3>6. \A i \in 1..n :
            /\ response.body[pos + i].frame = "data" /\ response.body[pos + i].at.kind = "audio"
            /\ response.body[pos + i].at.n = response.body[pos + 1].at.n + i - 1
            /\ response.icy => response.body[pos + i].at.left = response.body[pos + 1].at.left - i + 1
            /\ response.chunks => response.body[pos + i].room = response.body[pos + 1].room - i + 1
      BY <3>3, <3>4, <3>5, AudioRun, Zenon
    <3>7. response.body[pos + 1].at.n = delivered BY <3>1, <3>2
    <3>8. \A i \in 1..n : /\ response.body[pos + i].frame = "data"
                         /\ response.body[pos + i].at.kind = "audio"
                         /\ response.body[pos + i].at.n = response.body[pos + 1].at.n + i - 1
      BY <3>6, Zenon
    <3> QED BY <3>7, <3>8, Zenon
  <2> QED BY <2>1, <2>2
<1> QED BY <1>2, <1>4, Zenon DEF Fill

LEMMA Multiples == \A b \in Nat : (b > 0 => b * Unit > 0) /\ (b = 0 => b * Unit = 0)
BY Sizes

\* Where readMetadata begins with the title: behind the length byte, if it read one.
LEMMA TitlePlace ==
  ASSUME TypeOK, FlagsKept, Kept, ReadMetadata, Reading, NEW b \in LengthByte,
         More \/ First = 1, pos + First < Len(response.body)
  PROVE  LET s == response.body[pos + First + 1]
         IN  /\ s.at.n = delivered
             /\ Size(b) > 0 => s.at.kind = "title" /\ s.at.left = Size(b) - pos_ml /\ s.at.left > 0
             /\ Size(b) = 0 => s.at.kind = "audio" /\ s.at.left = MetaInt
             /\ ~response.chunks => s.frame = "data"
             /\ response.chunks /\ chunkSize - First > 0 => s.frame = "data" /\ s.room = chunkSize - First
             /\ response.chunks /\ chunkSize - First = 0 => s.frame = "cr"
<1>1. /\ isMetadata = response.icy /\ isChunked = response.says /\ response \in Answers
      /\ isMetadata /\ metacount = 0 /\ Limit(available) > 0 /\ (metaDataSize = 0 => Here > 0)
      /\ pos \in Nat /\ pos_ml \in Nat /\ metaDataSize \in Nat /\ chunkSize \in Nat
      /\ pos_ml <= metaDataSize /\ arrived \in Nat /\ arrived <= Len(response.body)
  <2>1. response \in Answers /\ NumbersOK BY DEF TypeOK
  <2>2. isMetadata = response.icy /\ isChunked = response.says BY DEF FlagsKept, Reading
  <2>3. isMetadata /\ metacount = 0 /\ Limit(available) > 0 /\ (metaDataSize = 0 => Here > 0)
    BY DEF ReadMetadata, AtMetadata
  <2>4. Len(response.body) \in Nat BY <2>1, BodyTypes
  <2> HIDE DEF Limit, Here
  <2> QED BY <2>1, <2>2, <2>3, <2>4 DEF NumbersOK
<1>2. Len(response.body) \in Nat /\ (response.chunks => response.says) BY <1>1, BodyTypes
<1>3. More /\ Next1.at.kind \in {"length", "title"} /\ Next1.at.n = delivered
      /\ Next1.at.left \in Nat
  <2>1. More BY <1>1, <1>2 DEF First, Here, More
  <2>2. pos + 1 \in 1..Len(response.body) BY <2>1, <1>1, <1>2 DEF More
  <2>3. Next1 \in Symbol BY <2>2, <1>1, BodyTypes DEF Next1
  <2>4. Next1.at.kind \in {"audio", "length", "title"} /\ Next1.at.left \in Nat
    BY <2>3 DEF Symbol, Payload
  <2> QED BY <2>1, <2>4, <1>1 DEF Kept, PlaceKept
<1>4. response.chunks => chunkSize > 0
  <2> SUFFICES ASSUME response.chunks PROVE chunkSize > 0
    OBVIOUS
  <2>1. isChunked BY <1>1, <1>2
  <2>2. Limit(available) <= chunkSize BY <2>1, Limits
  <2>3. Limit(available) \in Nat BY Limits
  <2> HIDE DEF Limit
  <2> QED BY <2>2, <2>3, <1>1
<1>5. Next1.frame = "data" /\ (response.chunks => Next1.room = chunkSize)
  BY <1>3, <1>4 DEF Kept, FrameKept, RawKept
<1>6. CASE First = 0
  <2>1. metaDataSize > 0 /\ Size(b) = metaDataSize BY <1>6, <1>1 DEF First, Size
  <2>2. response.body[pos + First + 1] = Next1 BY <1>6, <1>1 DEF Next1
  <2>3. Next1.at.kind = "title" /\ Next1.at.left = metaDataSize - pos_ml /\ Next1.at.left > 0
    BY <1>1, <1>3, <2>1 DEF Kept, PlaceKept
  <2>4. chunkSize - First = chunkSize BY <1>6, <1>1
  <2> QED BY <2>1, <2>2, <2>3, <2>4, <1>3, <1>4, <1>5
<1>7. CASE First = 1
  <2>1. metaDataSize = 0 /\ pos_ml = 0 BY <1>7, <1>1 DEF First
  <2>2. Next1.at.kind = "length" BY <2>1, <1>1, <1>3 DEF Kept, PlaceKept
  <2>3. b = Next1.at.left BY <1>7, <1>5, <2>2 DEF LengthByte
  <2>4. Size(b) = Next1.at.left * Unit BY <1>7, <2>3 DEF Size
  <2> DEFINE s == response.body[pos + 2]
  <2>5. response.body[pos + First + 1] = s BY <1>7, <1>1
  <2>6. /\ Succeeds(response.icy, Next1.at, s.at)
        /\ ~response.chunks => s.frame = "data"
        /\ response.chunks /\ Next1.room > 1 => s.frame = "data" /\ s.room = Next1.room - 1
        /\ response.chunks /\ Next1.room = 1 => s.frame = "cr"
    <3>1. pos + 2 <= Len(response.body) BY <1>7, <1>1, <1>2
    <3>2. Next1 = response.body[pos + 1] BY DEF Next1
    <3> QED BY <3>1, <3>2, <1>1, <1>5, AfterData
  <2>7. \/ Next1.at.left > 0 /\ s.at = Title(Next1.at.n, Next1.at.left * Unit)
        \/ Next1.at.left = 0 /\ s.at = Audio(Next1.at.n, MetaInt)
    BY <2>2, <2>6 DEF Succeeds
  <2> HIDE DEF s
  <2>8. s.at.n = delivered BY <2>7, <1>3 DEF Title, Audio
  <2>9. Size(b) > 0 => s.at.kind = "title" /\ s.at.left = Size(b) - pos_ml /\ s.at.left > 0
    <3>1. ASSUME Size(b) > 0 PROVE Next1.at.left > 0
      <4>1. Next1.at.left # 0 BY <3>1, <2>4, <1>3, Multiples
      <4> QED BY <4>1, <1>3
    <3>2. ASSUME Size(b) > 0
          PROVE  s.at.kind = "title" /\ s.at.left = Size(b) - pos_ml /\ s.at.left > 0
      <4>1. s.at = Title(Next1.at.n, Next1.at.left * Unit) BY <3>1, <3>2, <2>7
      <4>2. Size(b) \in Nat BY <1>1, TitleLimits
      <4>3. s.at.kind = "title" /\ s.at.left = Size(b) BY <4>1, <2>4 DEF Title
      <4> HIDE DEF Size
      <4> QED BY <4>2, <4>3, <3>2, <2>1
    <3> QED BY <3>2
  <2>10. Size(b) = 0 => s.at.kind = "audio" /\ s.at.left = MetaInt
    <3>1. ASSUME Size(b) = 0 PROVE s.at = Audio(Next1.at.n, MetaInt)
      <4>1. ~(Next1.at.left > 0) BY <3>1, <2>4, <1>3, Multiples
      <4> QED BY <4>1, <2>7
    <3> QED BY <3>1 DEF Audio
  <2>11. /\ ~response.chunks => s.frame = "data"
         /\ response.chunks /\ chunkSize - First > 0 => s.frame = "data" /\ s.room = chunkSize - First
         /\ response.chunks /\ chunkSize - First = 0 => s.frame = "cr"
    BY <2>6, <1>1, <1>4, <1>5, <1>7
  <2> QED BY <2>5, <2>8, <2>9, <2>10, <2>11
<1> QED BY <1>6, <1>7 DEF First

LEMMA ReadMetadataKept ==
  ASSUME TypeOK, FlagsKept, Kept, ReadMetadata
  PROVE  Kept'
<1> SUFFICES ASSUME Reading' PROVE Kept'
  BY DEF Kept, PlaceKept, FrameKept, RawKept
<1>1. PICK b \in LengthByte : ReadTitle(Size(b), TitleBytes(Size(b)))
  BY DEF ReadMetadata
<1> DEFINE size == Size(b)
           n == TitleBytes(size)
<1>2. /\ Reading /\ response' = response /\ delivered' = delivered /\ isMetadata' = isMetadata
      /\ pc = "fill" /\ pc' = "pass"
      /\ oneByteOfTwo' = oneByteOfTwo /\ isHttpChunked' = isHttpChunked /\ skipCRLF' = skipCRLF
      /\ line' = line
  BY DEF ReadMetadata, Reading, InFill, Return, connection, chunking, flags
<1>3. /\ First \in {0, 1} /\ size \in Nat /\ n \in Nat /\ pos_ml + n <= size
      /\ First + n <= Limit(available) /\ First + n <= Here
  BY TitleLimits DEF ReadMetadata
<1>4. /\ response \in Answers /\ Len(response.body) \in Nat /\ pos \in Nat /\ pos_ml \in Nat
      /\ chunkSize \in Nat /\ pos + Here <= Len(response.body) /\ Here \in Nat
  <2>1. response \in Answers /\ NumbersOK BY DEF TypeOK
  <2>2. Len(response.body) \in Nat BY <2>1, BodyTypes
  <2> QED BY <2>1, <2>2 DEF NumbersOK, Here
<1>5. /\ isMetadata /\ response.icy /\ isChunked = response.says
      /\ response.chunks => response.says
  BY <1>2, <1>4, BodyTypes DEF FlagsKept, Reading, ReadMetadata, AtMetadata
<1>6. response.chunks => isChunked /\ First + n <= chunkSize
  <2> SUFFICES ASSUME response.chunks PROVE isChunked /\ First + n <= chunkSize
    OBVIOUS
  <2>1. isChunked BY <1>5
  <2>2. Limit(available) <= chunkSize /\ Limit(available) \in Nat BY <2>1, Limits
  <2> HIDE DEF n, First, Limit
  <2> QED BY <2>1, <2>2, <1>3, <1>4
<1>7. First = 1 => More
  <2> SUFFICES ASSUME First = 1 PROVE More
    OBVIOUS
  <2>1. Here > 0 BY <1>3, <1>4
  <2> HIDE DEF Here
  <2> QED BY <2>1, <1>4 DEF More
<1> DEFINE s == response.body[pos + First + 1]
<1>8. pos + First < Len(response.body) =>
        /\ s.at.n = delivered
        /\ size > 0 => s.at.kind = "title" /\ s.at.left = size - pos_ml /\ s.at.left > 0
        /\ size = 0 => s.at.kind = "audio" /\ s.at.left = MetaInt
        /\ ~response.chunks => s.frame = "data"
        /\ response.chunks /\ chunkSize - First > 0 => s.frame = "data" /\ s.room = chunkSize - First
        /\ response.chunks /\ chunkSize - First = 0 => s.frame = "cr"
  <2> SUFFICES ASSUME pos + First < Len(response.body) PROVE
        /\ s.at.n = delivered
        /\ size > 0 => s.at.kind = "title" /\ s.at.left = size - pos_ml /\ s.at.left > 0
        /\ size = 0 => s.at.kind = "audio" /\ s.at.left = MetaInt
        /\ ~response.chunks => s.frame = "data"
        /\ response.chunks /\ chunkSize - First > 0 => s.frame = "data" /\ s.room = chunkSize - First
        /\ response.chunks /\ chunkSize - First = 0 => s.frame = "cr"
    OBVIOUS
  <2>1. More \/ First = 1
    <3>1. First = 0 => More BY <1>4 DEF More
    <3> QED BY <3>1, <1>3
  <2> QED BY <2>1, <1>2, TitlePlace
<1>9. ReadTitle(size, n) BY <1>1
<1> HIDE DEF n, size, First, Here, Limit
<1>10. /\ pos' = pos + First + n
       /\ chunkSize' = IF isChunked THEN chunkSize - First - n ELSE chunkSize
       /\ IF pos_ml + n = size
          THEN metacount' = MetaInt /\ metaDataSize' = 0 /\ pos_ml' = 0
          ELSE metaDataSize' = size /\ pos_ml' = pos_ml + n /\ metacount' = metacount
  BY <1>9 DEF ReadTitle, TitleDone
<1>11. metacount = 0 BY DEF ReadMetadata, AtMetadata
<1>12. Next1' = response.body[pos + First + n + 1] /\ (More' <=> pos + First + n < Len(response.body))
  BY <1>10, <1>2 DEF Next1, More
<1>13. More' =>
         /\ Next1'.at.n = delivered
         /\ pos_ml + n = size => Next1'.at.kind = "audio" /\ Next1'.at.left = MetaInt
         /\ pos_ml + n # size => /\ Next1'.at.kind = "title" /\ Next1'.at.left = size - (pos_ml + n)
                                 /\ Next1'.at.left > 0
         /\ ~response.chunks => Next1'.frame = "data"
         /\ response.chunks /\ chunkSize - First - n > 0 =>
              Next1'.frame = "data" /\ Next1'.room = chunkSize - First - n
         /\ response.chunks /\ chunkSize - First - n = 0 => Next1'.frame = "cr"
  <2> SUFFICES ASSUME More' PROVE
         /\ Next1'.at.n = delivered
         /\ pos_ml + n = size => Next1'.at.kind = "audio" /\ Next1'.at.left = MetaInt
         /\ pos_ml + n # size => /\ Next1'.at.kind = "title" /\ Next1'.at.left = size - (pos_ml + n)
                                 /\ Next1'.at.left > 0
         /\ ~response.chunks => Next1'.frame = "data"
         /\ response.chunks /\ chunkSize - First - n > 0 =>
              Next1'.frame = "data" /\ Next1'.room = chunkSize - First - n
         /\ response.chunks /\ chunkSize - First - n = 0 => Next1'.frame = "cr"
    OBVIOUS
  <2>1. pos + First + n < Len(response.body) /\ pos + First < Len(response.body)
        /\ pos + First \in Nat
    BY <1>12, <1>3, <1>4
  <2>2. /\ s.at.n = delivered
        /\ size > 0 => s.at.kind = "title" /\ s.at.left = size - pos_ml /\ s.at.left > 0
        /\ size = 0 => s.at.kind = "audio" /\ s.at.left = MetaInt
        /\ ~response.chunks => s.frame = "data"
        /\ response.chunks /\ chunkSize - First > 0 => s.frame = "data" /\ s.room = chunkSize - First
        /\ response.chunks /\ chunkSize - First = 0 => s.frame = "cr"
    BY <2>1, <1>8
  <2>3. CASE n = 0
    <3>1. Next1' = s BY <2>3, <1>12, <1>3, <1>4
    <3>2. chunkSize - First - n = chunkSize - First /\ pos_ml + n = pos_ml
      BY <2>3, <1>3, <1>4
    <3>3. pos_ml = size => size = 0
      <4> SUFFICES ASSUME pos_ml = size, size > 0 PROVE FALSE
        BY <1>3
      <4>1. s.at.left = size - pos_ml /\ s.at.left > 0 BY <2>2
      <4> QED BY <4>1, <1>3
    <3>4. pos_ml # size => size > 0 BY <1>3, <1>4, <3>2
    <3> HIDE DEF s
    <3> QED BY <2>2, <3>1, <3>2, <3>3, <3>4
  <2>4. CASE n > 0
    <3>1. size > 0 BY <2>4, <1>3, <1>4
    <3>2. s.frame = "data" /\ (response.chunks => s.room = chunkSize - First)
      <4>1. response.chunks => chunkSize - First > 0 BY <2>4, <1>3, <1>4, <1>6
      <4> QED BY <4>1, <2>2
    <3>3. s.at.kind = "title" /\ s.at.left = size - pos_ml /\ n <= s.at.left
      <4>1. s.at.kind = "title" /\ s.at.left = size - pos_ml BY <3>1, <2>2
      <4> QED BY <4>1, <1>3, <1>4
    <3>4. response.chunks => n <= s.room
      <4> SUFFICES ASSUME response.chunks PROVE n <= s.room
        OBVIOUS
      <4>1. s.room = chunkSize - First /\ First + n <= chunkSize BY <3>2, <1>6
      <4> QED BY <4>1, <1>3, <1>4
    <3>5. LET e == response.body[pos + First + n + 1] IN
            /\ e.at.n = s.at.n
            /\ n < s.at.left => e.at.kind = "title" /\ e.at.left = s.at.left - n
            /\ n = s.at.left => e.at.kind = "audio" /\ e.at.left = MetaInt
            /\ ~response.chunks => e.frame = "data"
            /\ response.chunks /\ n < s.room => e.frame = "data" /\ e.room = s.room - n
            /\ response.chunks /\ n = s.room => e.frame = "cr"
      <4> DEFINE p == pos + First
      <4>1. p \in Nat /\ p + n < Len(response.body) /\ response.body[p + 1] = s BY <2>1
      <4>2. response.body[p + n + 1] = response.body[pos + First + n + 1] OBVIOUS
      <4> HIDE DEF p, s
      <4>3. /\ response.body[p + 1].frame = "data" /\ response.body[p + 1].at.kind = "title"
            /\ n <= response.body[p + 1].at.left
            /\ response.chunks => n <= response.body[p + 1].room
        BY <4>1, <3>2, <3>3, <3>4
      <4>4. /\ response.body[p + n + 1].at.n = response.body[p + 1].at.n
            /\ n < response.body[p + 1].at.left =>
                 /\ response.body[p + n + 1].at.kind = "title"
                 /\ response.body[p + n + 1].at.left = response.body[p + 1].at.left - n
            /\ n = response.body[p + 1].at.left =>
                 response.body[p + n + 1].at.kind = "audio" /\ response.body[p + n + 1].at.left = MetaInt
            /\ ~response.chunks => response.body[p + n + 1].frame = "data"
            /\ response.chunks /\ n < response.body[p + 1].room =>
                 /\ response.body[p + n + 1].frame = "data"
                 /\ response.body[p + n + 1].room = response.body[p + 1].room - n
            /\ response.chunks /\ n = response.body[p + 1].room => response.body[p + n + 1].frame = "cr"
        BY <4>1, <4>3, <2>4, <1>3, <1>4, AfterTitle
      <4> QED BY <4>1, <4>2, <4>4
    <3> HIDE DEF s
    <3>6. Next1'.at.n = delivered BY <3>5, <2>2, <1>12
    <3>7. pos_ml + n = size => Next1'.at.kind = "audio" /\ Next1'.at.left = MetaInt
      <4>1. pos_ml + n = size => n = s.at.left BY <3>3, <1>3, <1>4
      <4> QED BY <4>1, <3>5, <1>12
    <3>8. pos_ml + n # size => /\ Next1'.at.kind = "title" /\ Next1'.at.left = size - (pos_ml + n)
                               /\ Next1'.at.left > 0
      <4> SUFFICES ASSUME pos_ml + n # size
                   PROVE  /\ Next1'.at.kind = "title" /\ Next1'.at.left = size - (pos_ml + n)
                          /\ Next1'.at.left > 0
        OBVIOUS
      <4>1. n < s.at.left BY <3>3, <1>3, <1>4
      <4>2. Next1'.at.kind = "title" /\ Next1'.at.left = s.at.left - n BY <4>1, <3>5, <1>12
      <4>3. Next1'.at.left = size - (pos_ml + n) /\ Next1'.at.left > 0
        BY <4>1, <4>2, <3>3, <1>3, <1>4
      <4> QED BY <4>2, <4>3
    <3>9. /\ ~response.chunks => Next1'.frame = "data"
          /\ response.chunks /\ chunkSize - First - n > 0 =>
               Next1'.frame = "data" /\ Next1'.room = chunkSize - First - n
          /\ response.chunks /\ chunkSize - First - n = 0 => Next1'.frame = "cr"
      <4>1. response.chunks => /\ s.room = chunkSize - First /\ chunkSize - First - n = s.room - n
                               /\ n <= s.room /\ s.room \in Int
        BY <3>2, <3>4, <1>3, <1>4
      <4>2. response.chunks /\ chunkSize - First - n > 0 => n < s.room BY <4>1, <1>3, <1>4
      <4>3. response.chunks /\ chunkSize - First - n = 0 => n = s.room BY <4>1, <1>3, <1>4
      <4> QED BY <4>1, <4>2, <4>3, <3>5, <1>12
    <3> QED BY <3>6, <3>7, <3>8, <3>9
  <2> QED BY <2>3, <2>4, <1>3
<1> HIDE DEF s
<1>14. PlaceKept'
  <2> SUFFICES ASSUME More' PROVE PlaceKept'
    BY DEF PlaceKept
  <2>1. CASE pos_ml + n = size
    BY <2>1, <1>2, <1>5, <1>10, <1>13, Sizes DEF PlaceKept
  <2>2. CASE pos_ml + n # size
    <3>1. metaDataSize' = size /\ pos_ml' = pos_ml + n /\ metacount' = 0 BY <2>2, <1>10, <1>11
    <3>2. metaDataSize' > 0 /\ metaDataSize' - pos_ml' = Next1'.at.left
      BY <3>1, <2>2, <1>13, <1>3, <1>4
    <3>3. Next1'.at.n = delivered' /\ Next1'.at.kind = "title" /\ Next1'.at.left > 0
      BY <2>2, <1>2, <1>13
    <3> QED BY <3>1, <3>2, <3>3, <1>2, <1>5 DEF PlaceKept
  <2> QED BY <2>1, <2>2
<1>15. FrameKept'
  <2> SUFFICES ASSUME response.chunks PROVE FrameKept'
    BY <1>2 DEF FrameKept
  <2>1. isHttpChunked /\ (oneByteOfTwo => skipCRLF) BY <1>2 DEF Kept, FrameKept
  <2>2. chunkSize' = chunkSize - First - n BY <1>6, <1>10
  <2>3. (skipCRLF /\ ~oneByteOfTwo) \/ ~More
    <3>1. chunkSize > 0
      <4>1. Limit(available) <= chunkSize /\ Limit(available) > 0 /\ Limit(available) \in Nat
        BY <1>6, Limits DEF ReadMetadata
      <4> QED BY <4>1, <1>4
    <3>2. More => Next1.frame = "data" BY <3>1, <1>2 DEF Kept, FrameKept
    <3> QED BY <3>2, <1>2 DEF Kept, FrameKept
  <2>4. More' => More BY <1>12, <1>3, <1>4 DEF More
  <2>5. More' => chunkSize' >= 0 /\ (chunkSize' > 0 => Next1'.frame = "data" /\ Next1'.room = chunkSize')
                 /\ (chunkSize' = 0 => Next1'.frame = "cr")
    BY <2>2, <1>3, <1>4, <1>6, <1>13
  <2>6. chunkSize' \in Int BY <2>2, <1>3, <1>4
  <2>7. CASE chunkSize' > 0 BY <2>7, <2>1, <2>3, <2>4, <2>5, <1>2 DEF FrameKept
  <2>8. CASE chunkSize' = 0 BY <2>8, <2>1, <2>3, <2>4, <2>5, <1>2 DEF FrameKept
  <2>9. CASE ~More' BY <2>9, <2>1, <1>2 DEF FrameKept
  <2> QED BY <2>5, <2>6, <2>7, <2>8, <2>9
<1>16. RawKept' BY <1>2, <1>13 DEF Kept, RawKept
<1> QED BY <1>14, <1>15, <1>16 DEF Kept

-----------------------------------------------------------------------------
(* Titles *)

\* The length byte of a title stands at the reader, or behind it.
HasLength(p, size, n) ==
  \E i \in 1..p : LET s == response.body[i] IN
    s.frame = "data" /\ s.at.kind = "length" /\ s.at.left * Unit = size /\ s.at.n = n

LEMMA TitleQuiet ==
  ASSUME TypeOK, TitleKept, Reading, pos \in Nat, pos' \in Nat, pos <= pos', response' = response,
         metaDataSize' = metaDataSize, metacount' = metacount, delivered' = delivered,
         isMetadata' = isMetadata
  PROVE  TitleKept'
BY DEF TitleKept

LEMMA LengthBehind ==
  ASSUME TypeOK, FlagsKept, Kept, TitleKept, ReadMetadata, Reading, NEW b \in LengthByte, Size(b) > 0,
         More \/ First = 1
  PROVE  HasLength(pos + First, Size(b), delivered)
<1>1. /\ pos \in Nat /\ metaDataSize \in Nat /\ pos_ml \in Nat /\ chunkSize \in Nat
      /\ isMetadata /\ metacount = 0 /\ Limit(available) > 0 /\ (metaDataSize = 0 => Here > 0)
      /\ isMetadata = response.icy /\ isChunked = response.says
  <2>1. NumbersOK BY DEF TypeOK
  <2>2. isMetadata = response.icy /\ isChunked = response.says BY DEF FlagsKept, Reading
  <2>3. isMetadata /\ metacount = 0 /\ Limit(available) > 0 /\ (metaDataSize = 0 => Here > 0)
    BY DEF ReadMetadata, AtMetadata
  <2> HIDE DEF Limit, Here
  <2> QED BY <2>1, <2>2, <2>3 DEF NumbersOK
<1>2. CASE First = 0
  <2>1. metaDataSize > 0 /\ Size(b) = metaDataSize BY <1>1, <1>2 DEF First, Size
  <2>2. HasLength(pos, metaDataSize, delivered) BY <2>1 DEF TitleKept, HasLength
  <2>3. pos + First = pos BY <1>1, <1>2
  <2> QED BY <2>1, <2>2, <2>3
<1>3. CASE First = 1
  <2>1. metaDataSize = 0 BY <1>1, <1>3 DEF First
  <2>2. Here > 0 BY <2>1, <1>1
  <2>3. More /\ pos + 1 \in 1..Len(response.body) /\ response \in Answers
    BY <2>2, NextTyped, BodyTypes DEF More, TypeOK, NumbersOK
  <2>4. Next1 \in Symbol BY <2>3, BodyTypes DEF Next1
  <2>5. Next1.at.kind \in {"audio", "length", "title"} BY <2>4 DEF Symbol, Payload
  <2>6. Next1.at.kind = "length" /\ Next1.at.n = delivered
    BY <2>1, <2>3, <2>5, <1>1 DEF Kept, PlaceKept
  <2>7. Next1.frame = "data"
    <3>1. CASE response.chunks
      <4>1. isChunked BY <3>1, <2>3, <1>1, BodyTypes
      <4>2. Limit(available) <= chunkSize /\ Limit(available) \in Nat BY <4>1, Limits
      <4> HIDE DEF Limit
      <4>3. chunkSize # 0 BY <4>2, <1>1
      <4> QED BY <4>3, <3>1, <2>3 DEF Kept, FrameKept
    <3>2. CASE ~response.chunks BY <3>2, <2>3 DEF Kept, RawKept
    <3> QED BY <3>1, <3>2
  <2>8. b = Next1.at.left BY <1>3, <2>6, <2>7 DEF LengthByte
  <2>9. Size(b) = Next1.at.left * Unit BY <1>3, <2>8 DEF Size
  <2>10. pos + First \in 1..(pos + First) /\ response.body[pos + First] = Next1
    BY <1>1, <1>3 DEF Next1
  <2> HIDE DEF Size, First
  <2> QED BY <2>6, <2>7, <2>9, <2>10 DEF HasLength
<1> QED BY <1>2, <1>3 DEF First

LEMMA TitleBegun ==
  ASSUME TypeOK, FlagsKept, Kept, TitleKept, ReadMetadata
  PROVE  TitleKept'
<1> SUFFICES ASSUME Reading', metaDataSize' > 0 PROVE TitleKept'
  BY DEF TitleKept
<1>1. PICK b \in LengthByte : ReadTitle(Size(b), TitleBytes(Size(b)))
  BY DEF ReadMetadata
<1> DEFINE size == Size(b)
           n == TitleBytes(size)
<1>2. /\ Reading /\ response' = response /\ delivered' = delivered /\ isMetadata' = isMetadata
  BY DEF ReadMetadata, Reading, InFill, Return, connection, chunking, flags
<1>3. First \in {0, 1} /\ size \in Nat /\ n \in Nat /\ First + n <= Here
  BY TitleLimits DEF ReadMetadata
<1>4. pos \in Nat /\ metaDataSize \in Nat /\ isMetadata /\ metacount = 0
  BY DEF TypeOK, NumbersOK, ReadMetadata, AtMetadata
<1>5. ReadTitle(size, n) BY <1>1
<1> HIDE DEF n
<1>6. metaDataSize' = size /\ metacount' = metacount /\ pos' = pos + First + n
  BY <1>5 DEF ReadTitle
<1>7. size > 0 BY <1>6
<1>8. HasLength(pos + First, size, delivered)
  <2>1. CASE First = 1 BY <2>1, <1>2, <1>7, LengthBehind
  <2>2. CASE First = 0
    <3>1. metaDataSize > 0 /\ size = metaDataSize BY <2>2, <1>4 DEF First, Size
    <3>2. HasLength(pos, metaDataSize, delivered) BY <3>1, <1>2 DEF TitleKept, HasLength
    <3>3. pos + First = pos BY <2>2, <1>4
    <3> QED BY <3>1, <3>2, <3>3
  <2> QED BY <2>1, <2>2, <1>3
<1> HIDE DEF size, First
<1>9. HasLength(pos', size, delivered)
  <2>1. pos + First <= pos' /\ pos + First \in Nat /\ pos' \in Nat BY <1>3, <1>4, <1>6
  <2>2. PICK i \in 1..(pos + First) : LET s == response.body[i] IN
          s.frame = "data" /\ s.at.kind = "length" /\ s.at.left * Unit = size /\ s.at.n = delivered
    BY <1>8 DEF HasLength
  <2>3. i \in 1..pos' BY <2>1
  <2> QED BY <2>2, <2>3 DEF HasLength
<1> QED BY <1>2, <1>4, <1>6, <1>9 DEF TitleKept, HasLength

LEMMA TitleStep ==
  ASSUME TypeOK, TypeOK', FlagsKept, Kept, TitleKept, Next
  PROVE  TitleKept'
<1> SUFFICES ASSUME Reading', metaDataSize' > 0 PROVE TitleKept'
  BY DEF TitleKept
<1>0. /\ pos \in Nat /\ pos' \in Nat /\ Here \in Nat /\ arrived \in Nat
  <2>1. response \in Answers /\ response' \in Answers /\ NumbersOK /\ NumbersOK' BY DEF TypeOK
  <2>2. Len(response.body) \in Nat /\ Len(response'.body) \in Nat BY <2>1, BodyTypes
  <2> QED BY <2>1, <2>2 DEF NumbersOK, Here
<1> USE DEF Reading, connection, chunking, titling, flags, faults
<1>1. CASE ArriveSome BY <1>0, <1>1, TitleQuiet DEF ArriveSome, Arrive
<1>2. CASE Stop BY <1>2 DEF Stop
<1>3. CASE Header BY <1>3 DEF Header, FlagsKept
<1>4. CASE FirstCall BY <1>4 DEF FirstCall
<1>5. CASE Pass BY <1>0, <1>5, TitleQuiet DEF Pass, InPass
<1>6. CASE SameLimit BY <1>0, <1>6, TitleQuiet DEF SameLimit, InPass
<1>7. CASE SkipCR BY <1>0, <1>7, TitleQuiet DEF SkipCR, InPass
<1>8. CASE SkipLF BY <1>0, <1>8, TitleQuiet DEF SkipLF, InPass
<1>9. CASE BeginLine BY <1>0, <1>9, TitleQuiet DEF BeginLine, InPass
<1>10. CASE ReadSize
  <2>1. Reading /\ metaDataSize > 0
    <3>1. ~(fellBack /\ isMetadata) BY <1>10 DEF ReadSize
    <3> QED BY <3>1, <1>10 DEF ReadSize, InLine
  <2>2. isMetadata BY <2>1 DEF TitleKept
  <2>3. Next1.frame # "data" BY <2>2, <1>10 DEF ReadSize
  <2>4. delivered' = delivered BY <2>3, <1>10 DEF ReadSize
  <2> QED BY <1>0, <1>10, <2>1, <2>4, TitleQuiet DEF ReadSize
<1>11. CASE FallBack
  <2>1. Reading /\ metaDataSize > 0 /\ fellBack' BY <1>11 DEF FallBack, InLine
  <2>2. isMetadata BY <2>1 DEF TitleKept
  <2> QED BY <2>1, <2>2, <1>11 DEF FallBack
<1>12. CASE EndLine BY <1>0, <1>12, TitleQuiet DEF EndLine, InLine
<1>13. CASE LineTimeout BY <1>13 DEF LineTimeout
<1>14. CASE ReadLast
  <2>1. pos <= pos' BY <1>0, <1>14 DEF ReadLast, Least
  <2> QED BY <1>0, <1>14, <2>1, TitleQuiet DEF ReadLast
<1>15. CASE NoMetadata BY <1>0, <1>15, TitleQuiet DEF NoMetadata, InFill
<1>16. CASE ReadMetadata BY <1>16, TitleBegun
<1>17. ASSUME NEW n \in Nat, Fill(n) PROVE TitleKept'
  <2>1. Reading /\ metaDataSize > 0 BY <1>17 DEF Fill, InFill
  <2>2. isMetadata /\ metacount = 0 BY <2>1 DEF TitleKept
  <2> QED BY <2>2, <1>17 DEF Fill, AtMetadata
<1>18. CASE StreamLost BY <1>18 DEF StreamLost
<1>19. MayTake \in Nat BY Limits
<1> QED
  BY <1>1, <1>2, <1>3, <1>4, <1>5, <1>6, <1>7, <1>8, <1>9, <1>10, <1>11, <1>12, <1>13,
     <1>14, <1>15, <1>16, <1>17, <1>18, <1>19 DEF Next, Step, FillSome

LEMMA ShownWhole ==
  ASSUME TypeOK, FlagsKept, Kept, TitleKept, Reading, ReadMetadata, NEW b \in LengthByte,
         Shown(Size(b), TitleBytes(Size(b)))
  PROVE  WholeTitle(TitleBytes(Size(b)))
<1> DEFINE size == Size(b)
           n == TitleBytes(size)
           p == pos + First
<1>1. /\ First \in {0, 1} /\ size \in Nat /\ n \in Nat /\ First + n <= Limit(available)
      /\ First + n <= Here
  BY TitleLimits DEF ReadMetadata
<1>2. n > 0 /\ pos_ml = 0 /\ n = size
  <2>1. n > 0 /\ pos_ml = 0 /\ pos_ml + n = size BY DEF Shown, TitleDone
  <2> QED BY <2>1, <1>1
<1>3. /\ response \in Answers /\ Len(response.body) \in Nat /\ pos \in Nat /\ chunkSize \in Nat
      /\ pos + Here <= Len(response.body) /\ Here \in Nat
  <2>1. response \in Answers /\ NumbersOK BY DEF TypeOK
  <2>2. Len(response.body) \in Nat BY <2>1, BodyTypes
  <2> QED BY <2>1, <2>2 DEF NumbersOK, Here
<1>4. response.chunks => First + n <= chunkSize
  <2> SUFFICES ASSUME response.chunks PROVE First + n <= chunkSize
    OBVIOUS
  <2>1. isChunked BY <1>3, BodyTypes DEF FlagsKept, Reading
  <2>2. Limit(available) <= chunkSize /\ Limit(available) \in Nat BY <2>1, Limits
  <2> HIDE DEF n, First, Limit
  <2> QED BY <2>1, <2>2, <1>1, <1>3
<1>5. More
  <2> HIDE DEF n, First, Here
  <2> QED BY <1>1, <1>2, <1>3 DEF More
<1>6. p \in Nat /\ p + n <= Len(response.body) /\ p < Len(response.body)
  <2> HIDE DEF n, First, Here
  <2> QED BY <1>1, <1>2, <1>3
<1>7. LET s == response.body[p + 1] IN
        /\ s.at.n = delivered
        /\ size > 0 => s.at.kind = "title" /\ s.at.left = size - pos_ml /\ s.at.left > 0
        /\ ~response.chunks => s.frame = "data"
        /\ response.chunks /\ chunkSize - First > 0 => s.frame = "data" /\ s.room = chunkSize - First
  BY <1>5, <1>6, TitlePlace
<1>8. size > 0 /\ size - pos_ml = n
  <2> HIDE DEF size, n
  <2> QED BY <1>1, <1>2
<1>9. /\ response.body[p + 1].at.n = delivered /\ response.body[p + 1].at.kind = "title"
      /\ response.body[p + 1].at.left = n
  BY <1>7, <1>8
<1>10. response.body[p + 1].frame = "data"
       /\ (response.chunks => n <= response.body[p + 1].room)
  <2>1. response.chunks => chunkSize - First > 0 /\ n <= chunkSize - First
    <3> HIDE DEF n, First
    <3> QED BY <1>1, <1>2, <1>3, <1>4
  <2> QED BY <2>1, <1>7
<1>11. HasLength(p, n, delivered) BY <1>2, <1>8, <1>5, LengthBehind
<1> HIDE DEF n, p
<1>12. \A i \in 1..n :
         /\ response.body[p + i].frame = "data" /\ response.body[p + i].at.kind = "title"
         /\ response.body[p + i].at.n = response.body[p + 1].at.n
         /\ response.body[p + i].at.left = response.body[p + 1].at.left - i + 1
  <2>1. n <= response.body[p + 1].at.left BY <1>9, <1>1
  <2>2. n > 0 /\ n \in Nat BY <1>1, <1>2
  <2>3. response \in Answers /\ p \in Nat /\ p + n <= Len(response.body) BY <1>3, <1>6
  <2>4. /\ response.body[p + 1].frame = "data" /\ response.body[p + 1].at.kind = "title"
        /\ response.chunks => n <= response.body[p + 1].room
    BY <1>9, <1>10
  <2>5. \A i \in 1..n :
          /\ response.body[p + i].frame = "data" /\ response.body[p + i].at.kind = "title"
          /\ response.body[p + i].at.n = response.body[p + 1].at.n
          /\ response.body[p + i].at.left = response.body[p + 1].at.left - i + 1
          /\ response.chunks => response.body[p + i].room = response.body[p + 1].room - i + 1
    BY <2>1, <2>2, <2>3, <2>4, TitleRun, Zenon
  <2> QED BY <2>5
<1>13. \A i \in 1..n : response.body[p + i].at.left = n + 1 - i
  <2>1. \A i \in 1..n : response.body[p + i].at.left = n - i + 1 BY <1>9, <1>12
  <2> QED BY <2>1, <1>1
<1>14. response.body[p + n].at.n = delivered BY <1>1, <1>2, <1>9, <1>12
<1>15. \E i \in 1..p : LET s == response.body[i] IN
         s.frame = "data" /\ s.at.kind = "length" /\ s.at.left * Unit = n
         /\ s.at.n = response.body[p + n].at.n
  BY <1>11, <1>14 DEF HasLength
<1>16. \A i \in 1..n : LET s == response.body[p + i] IN
         s.frame = "data" /\ s.at.kind = "title" /\ s.at.left = n + 1 - i
  BY <1>12, <1>13
<1>17. WholeTitle(n) BY <1>15, <1>16 DEF WholeTitle, p
<1> QED BY <1>17 DEF n

LEMMA TitlesStep ==
  ASSUME TypeOK, FlagsKept, Kept, TitleKept, TitlesWhole, Next
  PROVE  TitlesWhole'
<1> USE DEF faults
<1>0. FlagsOK BY DEF TypeOK
<1>1. CASE ReadMetadata
  <2> SUFFICES ASSUME ~reconnected, ~fellBack PROVE torn' = FALSE
    BY <1>1 DEF ReadMetadata, TitlesWhole
  <2>1. torn = FALSE BY <1>0 DEF TitlesWhole, FlagsOK
  <2>2. Reading BY <1>1 DEF Reading, ReadMetadata, InFill, FlagsKept
  <2>3. PICK b \in LengthByte : ReadTitle(Size(b), TitleBytes(Size(b)))
    BY <1>1 DEF ReadMetadata
  <2>4. Shown(Size(b), TitleBytes(Size(b))) => WholeTitle(TitleBytes(Size(b)))
    BY <1>1, <2>2, ShownWhole
  <2> QED BY <2>1, <2>3, <2>4, Zenon DEF ReadTitle
<1>2. (torn' => torn) /\ (reconnected => reconnected') /\ (fellBack => fellBack') => TitlesWhole'
  BY Zenon DEF TitlesWhole
<1>3. ASSUME NEW n, Arrive(n) PROVE TitlesWhole' BY <1>2, <1>3, Zenon DEF Arrive
<1>4. CASE Stop BY <1>2, <1>4, Zenon DEF Stop
<1>5. CASE Header BY <1>2, <1>5, Zenon DEF Header
<1>6. CASE FirstCall BY <1>2, <1>6, Zenon DEF FirstCall
<1>7. CASE Pass BY <1>2, <1>7, Zenon DEF Pass
<1>8. CASE SameLimit BY <1>2, <1>8, Zenon DEF SameLimit
<1>9. CASE SkipCR BY <1>2, <1>9, Zenon DEF SkipCR
<1>10. CASE SkipLF BY <1>2, <1>10, Zenon DEF SkipLF
<1>11. CASE BeginLine BY <1>2, <1>11, Zenon DEF BeginLine
<1>12. CASE ReadSize BY <1>2, <1>12, Zenon DEF ReadSize
<1>13. CASE FallBack BY <1>2, <1>13, Zenon DEF FallBack
<1>14. CASE EndLine BY <1>2, <1>14, Zenon DEF EndLine
<1>15. CASE LineTimeout BY <1>2, <1>15, Zenon DEF LineTimeout
<1>16. CASE ReadLast BY <1>2, <1>16, Zenon DEF ReadLast
<1>17. CASE NoMetadata BY <1>2, <1>17, Zenon DEF NoMetadata
<1>18. ASSUME NEW n, Fill(n) PROVE TitlesWhole' BY <1>2, <1>18, Zenon DEF Fill
<1>19. CASE StreamLost BY <1>19, Zenon DEF StreamLost, TitlesWhole
<1> QED
  BY <1>1, <1>3, <1>4, <1>5, <1>6, <1>7, <1>8, <1>9, <1>10, <1>11, <1>12, <1>13, <1>14,
     <1>15, <1>16, <1>17, <1>18, <1>19 DEF Next, Step, FillSome, ArriveSome

-----------------------------------------------------------------------------
(* The invariant *)

LEMMA OrderStep ==
  ASSUME TypeOK, FlagsKept, Kept, InOrder, Next
  PROVE  InOrder'
<1> USE DEF faults, flags
<1>0. FlagsOK BY DEF TypeOK
<1>2. /\ garbled' => garbled
      /\ reconnected => reconnected'
      /\ fellBack => fellBack'
      /\ isMetadata => isMetadata'
      => InOrder'
  BY Zenon DEF InOrder
<1>1. CASE ReadMetadata BY <1>2, <1>1, Zenon DEF ReadMetadata
<1>3. ASSUME NEW n, Arrive(n) PROVE InOrder' BY <1>2, <1>3, Zenon DEF Arrive
<1>4. CASE Stop BY <1>2, <1>4, Zenon DEF Stop
<1>5. CASE Header BY <1>2, <1>5, Zenon DEF Header
<1>6. CASE FirstCall BY <1>2, <1>6, Zenon DEF FirstCall
<1>7. CASE Pass BY <1>2, <1>7, Zenon DEF Pass
<1>8. CASE SameLimit BY <1>2, <1>8, Zenon DEF SameLimit
<1>9. CASE SkipCR BY <1>2, <1>9, Zenon DEF SkipCR
<1>10. CASE SkipLF BY <1>2, <1>10, Zenon DEF SkipLF
<1>11. CASE BeginLine BY <1>2, <1>11, Zenon DEF BeginLine
<1>12. CASE ReadSize BY <1>2, <1>12, Zenon DEF ReadSize
<1>13. CASE FallBack BY <1>2, <1>13, Zenon DEF FallBack
<1>14. CASE EndLine BY <1>2, <1>14, Zenon DEF EndLine
<1>15. CASE LineTimeout BY <1>2, <1>15, Zenon DEF LineTimeout
<1>16. CASE ReadLast BY <1>2, <1>16, Zenon DEF ReadLast
<1>17. CASE NoMetadata BY <1>2, <1>17, Zenon DEF NoMetadata
<1>18. ASSUME NEW n \in Nat, Fill(n) PROVE InOrder' BY <1>18, FillInOrder
<1>19. CASE StreamLost BY <1>19, Zenon DEF StreamLost, InOrder
<1>20. MayTake \in Nat BY Limits
<1> QED
  BY <1>1, <1>3, <1>4, <1>5, <1>6, <1>7, <1>8, <1>9, <1>10, <1>11, <1>12, <1>13, <1>14,
     <1>15, <1>16, <1>17, <1>18, <1>19, <1>20 DEF Next, Step, FillSome, ArriveSome

LEMMA KeptStep ==
  ASSUME TypeOK, FlagsKept, Kept, Next
  PROVE  Kept'
<1>1. ASSUME NEW n \in Nat, Fill(n) PROVE Kept' BY <1>1, FillKept
<1>2. MayTake \in Nat BY Limits
<1> QED
  BY <1>1, <1>2, Quiet, FirstKept, SkipCRKept, SkipLFKept, ReadSizeKept, FallBackKept, EndLineKept,
     ReadLastKept, ReadMetadataKept DEF Next, Step, FillSome

LEMMA InvHolds == Spec => [](TypeOK /\ FlagsKept /\ Kept /\ TitleKept /\ InOrder /\ TitlesWhole)
<1> DEFINE Inv == TypeOK /\ FlagsKept /\ Kept /\ TitleKept /\ InOrder /\ TitlesWhole
<1>1. Init => Inv
  <2> SUFFICES ASSUME Init PROVE Inv
    OBVIOUS
  <2>1. TypeOK BY InitTyped
  <2>2. FlagsKept BY DEF Init, FlagsKept
  <2>3. ~Reading BY DEF Init, Reading
  <2>4. Kept /\ TitleKept BY <2>3 DEF Kept, PlaceKept, FrameKept, RawKept, TitleKept
  <2>5. InOrder /\ TitlesWhole BY DEF Init, InOrder, TitlesWhole
  <2> QED BY <2>1, <2>2, <2>4, <2>5
<1>2. Inv /\ [Next]_vars => Inv'
  <2> SUFFICES ASSUME Inv, [Next]_vars PROVE Inv'
    OBVIOUS
  <2>1. TypeOK' BY TypeStep
  <2>2. CASE Next
    <3>1. FlagsKept' /\ Kept' /\ InOrder' /\ TitlesWhole'
      BY <2>2, FlagsStep, KeptStep, OrderStep, TitlesStep
    <3>2. TitleKept' BY <2>1, <2>2, TitleStep
    <3> QED BY <2>1, <3>1, <3>2
  <2>3. CASE UNCHANGED vars
    <3>1. /\ mode' = mode /\ response' = response /\ arrived' = arrived /\ pos' = pos /\ pc' = pc
          /\ firstCall' = firstCall /\ isChunked' = isChunked /\ isMetadata' = isMetadata
          /\ chunkSize' = chunkSize /\ metacount' = metacount /\ oneByteOfTwo' = oneByteOfTwo
          /\ skipCRLF' = skipCRLF /\ isHttpChunked' = isHttpChunked /\ line' = line
          /\ metaDataSize' = metaDataSize /\ pos_ml' = pos_ml /\ delivered' = delivered
          /\ garbled' = garbled /\ torn' = torn /\ reconnected' = reconnected /\ fellBack' = fellBack
      BY <2>3 DEF vars, connection, flags, chunking, titling, faults
    <3>2. Reading' = Reading /\ More' = More /\ Next1' = Next1 BY <3>1 DEF Reading, More, Next1
    <3>3. FlagsKept' BY <3>1 DEF FlagsKept
    <3>4. PlaceKept' BY <3>1, <3>2 DEF Kept, PlaceKept
    <3>5. FrameKept' BY <3>1, <3>2 DEF Kept, FrameKept
    <3>6. RawKept' BY <3>1, <3>2 DEF Kept, RawKept
    <3>7. TitleKept' BY <3>1, <3>2 DEF TitleKept
    <3>8. InOrder' /\ TitlesWhole' BY <3>1 DEF InOrder, TitlesWhole
    <3> QED BY <2>1, <3>3, <3>4, <3>5, <3>6, <3>7, <3>8 DEF Kept
  <2> QED BY <2>2, <2>3
<1> QED BY <1>1, <1>2, PTL DEF Spec

\* The decoder's buffer receives the audio of the stream, whole and in order,
\* however the bytes of the connection are split over the calls.
THEOREM OrderCorrect == Spec => []InOrder
BY InvHolds, PTL

\* Only whole titles are shown.
THEOREM TitleCorrect == Spec => []TitlesWhole
BY InvHolds, PTL
-----------------------------------------------------------------------------
(* What the counters leave *)

\* While there is a title it has bytes left, the limit of a body without chunks is
\* not 0, and neither is the chunk's rest in a call that has found bytes.
CountersLeft ==
  /\ metaDataSize > 0 => pos_ml < metaDataSize
  /\ ~firstCall /\ ~isHttpChunked => transportLimit > 0
  /\ pc = "last" => allDataReceived
  /\ pc = "fill" /\ isChunked /\ available > 0 /\ ~allDataReceived => chunkSize > 0

LEMMA TitleLeft ==
  ASSUME TypeOK, CountersLeft, ReadMetadata
  PROVE  metaDataSize' > 0 => pos_ml' < metaDataSize'
<1>1. PICK b \in LengthByte : ReadTitle(Size(b), TitleBytes(Size(b)))
  BY DEF ReadMetadata
<1>2. /\ Size(b) \in Nat /\ TitleBytes(Size(b)) \in Nat /\ pos_ml \in Nat
      /\ pos_ml + TitleBytes(Size(b)) <= Size(b)
  BY TitleLimits DEF ReadMetadata, TypeOK, NumbersOK
<1> DEFINE size == Size(b)
           n == TitleBytes(Size(b))
<1>3. ReadTitle(size, n) BY <1>1
<1>4. size \in Nat /\ n \in Nat /\ pos_ml + n <= size BY <1>2
<1> HIDE DEF size, n
<1>5. CASE TitleDone(size, n) BY <1>3, <1>5 DEF ReadTitle
<1>6. CASE ~TitleDone(size, n)
  <2>1. metaDataSize' = size /\ pos_ml' = pos_ml + n BY <1>3, <1>6 DEF ReadTitle
  <2>2. pos_ml + n # size BY <1>6 DEF TitleDone
  <2> QED BY <2>1, <2>2, <1>4, <1>2
<1> QED BY <1>5, <1>6

LEMMA CountersStep ==
  ASSUME TypeOK, FlagsKept, CountersLeft, [Next]_vars
  PROVE  CountersLeft'
<1> USE DEF CountersLeft, connection, chunking, titling, flags, faults
<1>0. NumbersOK /\ FlagsOK BY DEF TypeOK
<1>1. CASE ArriveSome BY <1>1 DEF ArriveSome, Arrive
<1>2. CASE Stop BY <1>2 DEF Stop
<1>3. CASE Header BY <1>3 DEF Header, FlagsKept
<1>4. CASE FirstCall BY <1>4 DEF FirstCall
<1>5. CASE Pass BY <1>5, <1>0 DEF Pass, InPass, NeedsSize, NumbersOK
<1>6. CASE SameLimit BY <1>6 DEF SameLimit, InPass
<1>7. CASE SkipCR BY <1>7 DEF SkipCR, InPass
<1>8. CASE SkipLF BY <1>8 DEF SkipLF, InPass
<1>9. CASE BeginLine BY <1>9 DEF BeginLine
<1>10. CASE ReadSize BY <1>10 DEF ReadSize, InLine
<1>11. CASE FallBack
  <2>1. FallBackLimit > 0
    <3>1. Len(response.body) \in Nat BY BodyTypes DEF TypeOK
    <3> QED BY <3>1, <1>11, <1>0 DEF FallBack, FallBackLimit, NumbersOK, Here
  <2> QED BY <2>1, <1>11 DEF FallBack
<1>12. CASE EndLine BY <1>12 DEF EndLine
<1>13. CASE LineTimeout BY <1>13 DEF LineTimeout
<1>14. CASE ReadLast BY <1>14 DEF ReadLast
<1>15. CASE NoMetadata BY <1>15 DEF NoMetadata, Return
<1>16. CASE ReadMetadata
  <2>1. metaDataSize' > 0 => pos_ml' < metaDataSize' BY <1>16, TitleLeft
  <2> QED BY <2>1, <1>16 DEF ReadMetadata, Return
<1>17. ASSUME NEW n, Fill(n) PROVE CountersLeft' BY <1>17 DEF Fill, Return
<1>18. CASE StreamLost BY <1>18 DEF StreamLost, Return
<1>19. CASE UNCHANGED vars BY <1>19 DEF vars
<1> QED
  BY <1>1, <1>2, <1>3, <1>4, <1>5, <1>6, <1>7, <1>8, <1>9, <1>10, <1>11, <1>12, <1>13, <1>14,
     <1>15, <1>16, <1>17, <1>18, <1>19 DEF Next, Step, FillSome

LEMMA LeftMeansFed ==
  ASSUME TypeOK, CountersLeft
  PROVE  NeverStarved
<1> SUFFICES ASSUME InFill, available > 0, ~allDataReceived
             PROVE  IF AtMetadata
                    THEN Limit(available) > 0 /\ (metaDataSize > 0 => pos_ml < metaDataSize)
                    ELSE MayTake > 0
  BY DEF NeverStarved
<1>1. NumbersOK /\ isChunked \in BOOLEAN /\ isMetadata \in BOOLEAN BY DEF TypeOK, FlagsOK
<1>2. Limit(available) > 0 /\ Limit(available) \in Nat
  <2>1. CASE isChunked BY <2>1, <1>1 DEF CountersLeft, InFill, Limit, Least, NumbersOK
  <2>2. CASE ~isChunked BY <2>2, <1>1 DEF Limit, NumbersOK
  <2> QED BY <2>1, <2>2, <1>1
<1>3. CASE AtMetadata BY <1>2, <1>3 DEF CountersLeft
<1>4. CASE ~AtMetadata
  <2> HIDE DEF Limit
  <2>1. CASE isMetadata
    <3>1. metacount \in Nat /\ metacount # 0 BY <2>1, <1>1, <1>4 DEF AtMetadata, NumbersOK
    <3> QED BY <3>1, <1>2, <2>1, <1>4 DEF MayTake, Least
  <2>2. CASE ~isMetadata BY <1>2, <2>2, <1>4 DEF MayTake
  <2> QED BY <2>1, <2>2, <1>1
<1> QED BY <1>3, <1>4

\* A call of processWebStream that finds bytes may take one, until the stream has
\* been received: no response and no split lets a counter run out beside the bytes.
THEOREM AlwaysFed == Spec => []NeverStarved
<1> DEFINE Inv == TypeOK /\ FlagsKept /\ CountersLeft
<1>1. Init => Inv
  <2> SUFFICES ASSUME Init PROVE Inv
    OBVIOUS
  <2>1. TypeOK BY InitTyped
  <2>2. FlagsKept BY DEF Init, FlagsKept
  <2>3. CountersLeft BY Sizes DEF Init, CountersLeft
  <2> QED BY <2>1, <2>2, <2>3
<1>2. Inv /\ [Next]_vars => Inv'
  <2> SUFFICES ASSUME Inv, [Next]_vars PROVE Inv'
    OBVIOUS
  <2>1. TypeOK' /\ CountersLeft' BY TypeStep, CountersStep
  <2>2. CASE Next BY <2>1, <2>2, FlagsStep
  <2>3. CASE UNCHANGED vars
    <3>1. FlagsKept' BY <2>3, Zenon DEF FlagsKept, vars, connection, flags, faults
    <3> QED BY <2>1, <3>1
  <2> QED BY <2>2, <2>3
<1>3. Inv => NeverStarved BY LeftMeansFed
<1> QED BY <1>1, <1>2, <1>3, PTL DEF Spec
=============================================================================
