---------------------------- MODULE MCHttpStream ----------------------------
(***************************************************************************)
(* Responses for TLC: the payloads of Bytes bytes of audio in blocks of    *)
(* MetaInt with titles of up to one unit, cut into chunks everywhere.      *)
(***************************************************************************)
EXTENDS HttpStream, SequencesExt

CONSTANT Bytes   \* audio bytes of a response

\* The payload after p, with audio bytes up to Bytes - 1; the title lengths follow
\* the pattern in units (one for each block).
NextPayload(icy, units, p) ==
  CASE p.kind = "audio" /\ icy /\ p.left = 1 -> Length(p.n + 1, units[(p.n + 1) \div MetaInt])
    [] p.kind = "audio" /\ icy /\ p.left > 1 -> Audio(p.n + 1, p.left - 1)
    [] p.kind = "audio" /\ ~icy -> Audio(p.n + 1, p.left)
    [] p.kind = "length" /\ p.left > 0 -> Title(p.n, p.left * Unit)
    [] p.kind = "title" /\ p.left > 1 -> Title(p.n, p.left - 1)
    [] OTHER -> Audio(p.n, MetaInt)

Blocks == Bytes \div MetaInt
PayloadLength(icy, units) ==
  Bytes + (IF icy THEN Blocks + Unit * FoldSeq(LAMBDA a, b : a + b, 0, units) ELSE 0)

PayloadOf(icy, units) ==
  LET n == PayloadLength(icy, units)
      at[i \in 1..(n + 1)] == IF i = 1 THEN Audio(0, MetaInt)
                              ELSE NextPayload(icy, units, at[i - 1])
  IN  at

Data(p, room) == <<[frame |-> "data", room |-> room, at |-> p]>>
Mark(f, p, room) == <<[frame |-> f, room |-> room, at |-> p]>>

Raw(icy, units) ==
  LET at == PayloadOf(icy, units)
  IN  [i \in 1..PayloadLength(icy, units) |-> [frame |-> "data", room |-> 0, at |-> at[i]]]

\* The payload cut behind the bytes of cuts, which holds its length.
Chunked(icy, units, cuts) ==
  LET n == PayloadLength(icy, units)
      at == PayloadOf(icy, units)
      end(i) == CHOOSE c \in cuts : c >= i /\ \A d \in cuts : d >= i => c <= d
      size(i, k) == Mark("size", at[i], k) \o Mark("cr1", at[i], k) \o Mark("lf1", at[i], k)
      part(i) == (IF i = 1 \/ i - 1 \in cuts THEN size(i, end(i) - i + 1) ELSE <<>>)
                 \o Data(at[i], end(i) - i + 1)
                 \o (IF i \in cuts THEN Mark("cr", at[i + 1], 0) \o Mark("lf", at[i + 1], 0) ELSE <<>>)
  IN  FlattenSeq([i \in 1..n |-> part(i)])
      \o size(n + 1, 0) \o Mark("cr2", at[n + 1], 0) \o Mark("lf2", at[n + 1], 0)

Units == [1..Blocks -> {0, 1}]
NoUnits == [b \in 1..Blocks |-> 0]

Answer(says, icy, chunks, body) == [says |-> says, icy |-> icy, chunks |-> chunks, body |-> body]

MCResponses ==
  {Answer(says, TRUE, FALSE, Raw(TRUE, u)) : says \in BOOLEAN, u \in Units}
  \cup {Answer(says, FALSE, FALSE, Raw(FALSE, NoUnits)) : says \in BOOLEAN}
  \cup UNION {{Answer(TRUE, TRUE, TRUE, Chunked(TRUE, u, {c, PayloadLength(TRUE, u)}))
                : c \in 1..PayloadLength(TRUE, u)} : u \in Units}
  \cup {Answer(TRUE, FALSE, TRUE, Chunked(FALSE, NoUnits, cuts \cup {Bytes}))
          : cuts \in SUBSET (1..Bytes)}
=============================================================================
