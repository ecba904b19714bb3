--------------------------- MODULE StreamGrammar ---------------------------
(***************************************************************************)
(* What a web radio server sends after its header: audio bytes, a block of *)
(* metadata after every MetaInt of them if the radio asked for it, and all *)
(* of this cut into HTTP chunks if the server chooses to.  Every symbol    *)
(* carries what the server meant by it; the radio sees only a byte.        *)
(***************************************************************************)
EXTENDS Integers, Sequences

CONSTANTS
  MetaInt,   \* icy-metaint
  Unit       \* metadata comes in units of 16 bytes

ASSUME GrammarAssumption == MetaInt \in Nat \ {0} /\ Unit \in Nat \ {0}

\* A byte of the payload: audio byte n, the length of a metadata block (left is
\* then the length) or a byte of its title; left counts down to the next block,
\* or to the end of this one.  n is the number of audio bytes before it.
Payload == [kind : {"audio", "length", "title"}, n : Nat, left : Nat]

Audio(n, left) == [kind |-> "audio", n |-> n, left |-> left]
Length(n, units) == [kind |-> "length", n |-> n, left |-> units]
Title(n, left) == [kind |-> "title", n |-> n, left |-> left]

\* Payload byte q comes after payload byte p.
Succeeds(icy, p, q) ==
  \/ /\ p.kind = "audio" /\ (icy => p.left > 1)
     /\ q = Audio(p.n + 1, IF icy THEN p.left - 1 ELSE p.left)
  \/ p.kind = "audio" /\ icy /\ p.left = 1 /\ q = Length(p.n + 1, q.left)
  \/ p.kind = "length" /\ p.left > 0 /\ q = Title(p.n, p.left * Unit)
  \/ p.kind = "title" /\ p.left > 1 /\ q = Title(p.n, p.left - 1)
  \/ /\ \/ p.kind = "length" /\ p.left = 0
        \/ p.kind = "title" /\ p.left = 1
     /\ q = Audio(p.n, MetaInt)

\* A symbol is a payload byte (data), or part of the frame of a chunk: its size
\* and the CR LF behind it (cr1, lf1), the CR LF behind its data (cr, lf), the
\* last CR LF (cr2, lf2).  room is the size, or what is left of the chunk from
\* here on; at is the payload byte, or the next one.
Frames == {"data", "cr", "lf", "size", "cr1", "lf1", "cr2", "lf2"}
Symbol == [frame : Frames, room : Nat, at : Payload]

SamePlace(s, t) == t.at = s.at /\ t.room = s.room

Follows(icy, chunks, s, t) ==
  \/ s.frame = "data" /\ t.frame = "data" /\ Succeeds(icy, s.at, t.at)
     /\ (chunks => s.room > 1 /\ t.room = s.room - 1)
  \/ s.frame = "data" /\ t.frame = "cr" /\ Succeeds(icy, s.at, t.at)
     /\ chunks /\ s.room = 1 /\ t.room = 0
  \/ s.frame = "cr" /\ t.frame = "lf" /\ SamePlace(s, t)
  \/ s.frame = "lf" /\ t.frame = "size" /\ t.at = s.at
  \/ s.frame = "size" /\ t.frame = "cr1" /\ SamePlace(s, t)
  \/ s.frame = "cr1" /\ t.frame = "lf1" /\ SamePlace(s, t)
  \/ s.frame = "lf1" /\ t.frame = "data" /\ s.room > 0 /\ SamePlace(s, t)
  \/ s.frame = "lf1" /\ t.frame = "cr2" /\ s.room = 0 /\ SamePlace(s, t)
  \/ s.frame = "cr2" /\ t.frame = "lf2" /\ SamePlace(s, t)

\* A response: whether its header promises chunks and metadata, whether the body
\* really comes in chunks, and the body.
WellFormed(r) ==
  /\ r.says \in BOOLEAN /\ r.icy \in BOOLEAN /\ r.chunks \in BOOLEAN
  /\ r.chunks => r.says
  /\ r.body \in Seq(Symbol) /\ r.body # <<>>
  /\ r.body[1].at = Audio(0, MetaInt)
  /\ r.body[1].frame = IF r.chunks THEN "size" ELSE "data"
  /\ \A i \in 1..(Len(r.body) - 1) : Follows(r.icy, r.chunks, r.body[i], r.body[i + 1])
=============================================================================
