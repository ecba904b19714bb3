---------------------------- MODULE PageDownload ----------------------------
(***************************************************************************)
(* Downloads of the data files (chunkedHtmlPage and its callback), which   *)
(* run in the web server's task: the file's name is in one buffer for all  *)
(* of them, and the display is locked until one of them reaches the end.   *)
(*                                                                         *)
(* Actions speak of these variables alone; DspTask composes them.          *)
(***************************************************************************)
EXTENDS Integers

CONSTANTS
  Pages,     \* the files that may be asked for
  Clients,   \* browsers
  MaxSize,   \* the longest file
  MaxIndex,  \* how far a download is followed
  Word,      \* size_t counts modulo this
  None

ASSUME PageAssumption ==
  /\ MaxSize \in Nat /\ MaxIndex \in Nat /\ Word \in Nat
  /\ MaxSize < Word /\ MaxIndex < Word /\ None \notin Pages

VARIABLES
  size,      \* of every file; Missing if there is none
  path,      \* chunkedPathBuffer
  locked,    \* Display::_locked
  page, index,   \* of each client: the file it asked for, the bytes it has
  good,      \* history: they are the bytes of that file
  alone,     \* history: no other file was asked for since, and nobody wrote to it
  stranded,  \* history: a download is over and the lock is still there
  wrong      \* history: a download that was alone ended with another content

pages == <<size, path, locked, page, index, good, alone, stranded, wrong>>

Missing == -1

PagesInit ==
  /\ size \in [Pages -> Missing..MaxSize] /\ path = None /\ locked = FALSE
  /\ page = [c \in Clients |-> None] /\ index = [c \in Clients |-> 0]
  /\ good = [c \in Clients |-> TRUE] /\ alone = [c \in Clients |-> TRUE]
  /\ stranded = FALSE /\ wrong = FALSE

-----------------------------------------------------------------------------
(* Faulty variants, each a plausible bug in one definition below. *)
NoUnlock == UNCHANGED <<locked, stranded>>
StopsShort(c) == index[c] + 1 >= size[path]
-----------------------------------------------------------------------------

\* chunkedHtmlPage
Request(c, p) ==
  /\ page[c] = None /\ page' = [page EXCEPT ![c] = p]
  /\ path' = p /\ locked' = TRUE
  /\ index' = [index EXCEPT ![c] = 0] /\ good' = [good EXCEPT ![c] = TRUE]
  /\ alone' = [d \in Clients |-> d = c \/ (alone[d] /\ page[d] = p)]
  /\ UNCHANGED <<size, stranded, wrong>>

\* What is left of the file behind a client's bytes, in a size_t.
NeedRead(c) == IF index[c] <= size[path] THEN size[path] - index[c]
               ELSE size[path] - index[c] + Word

Delivered(c) == good[c] /\ index[c] = (IF size[page[c]] = Missing THEN 0 ELSE size[page[c]])

\* The server's library closes the response when the callback gives nothing.
Leave(c) ==
  /\ page' = [page EXCEPT ![c] = None] /\ index' = [index EXCEPT ![c] = 0]
  /\ good' = [good EXCEPT ![c] = TRUE] /\ alone' = [alone EXCEPT ![c] = TRUE]
  /\ wrong' = (wrong \/ (alone[c] /\ ~Delivered(c)))
  /\ UNCHANGED <<size, path>>

\* The callback cannot open the file.
NoFile(c) ==
  /\ page[c] # None /\ size[path] = Missing
  /\ Leave(c) /\ stranded' = locked /\ UNCHANGED locked

Unlock == locked' = FALSE /\ stranded' = FALSE

AtEnd(c) == NeedRead(c) = 0

End(c) ==
  /\ page[c] # None /\ size[path] # Missing /\ AtEnd(c)
  /\ Leave(c) /\ Unlock

\* The callback reads n bytes, as many as there is space for in the connection.
\* Behind the end of the file it gives what is in the buffer.
Part(c, n) ==
  /\ page[c] # None /\ size[path] # Missing
  /\ n <= NeedRead(c) /\ index[c] + n <= MaxIndex
  /\ index' = [index EXCEPT ![c] = @ + n]
  /\ good' = [good EXCEPT ![c] = @ /\ path = page[c] /\ index[c] + n <= size[path]]
  /\ UNCHANGED <<size, path, locked, page, alone, stranded, wrong>>

\* A client goes away: nobody is told.
GoAway(c) ==
  /\ page[c] # None /\ page' = [page EXCEPT ![c] = None]
  /\ index' = [index EXCEPT ![c] = 0]
  /\ good' = [good EXCEPT ![c] = TRUE] /\ alone' = [alone EXCEPT ![c] = TRUE]
  /\ stranded' = locked
  /\ UNCHANGED <<size, path, locked, wrong>>

\* An upload, an import or the making of an index replaces a file.
Rewrite(p) ==
  /\ \E s \in Missing..MaxSize : size' = [size EXCEPT ![p] = s]
  /\ alone' = [d \in Clients |-> alone[d] /\ page[d] # p]
  /\ UNCHANGED <<path, locked, page, index, good, stranded, wrong>>

-----------------------------------------------------------------------------
PagesTypeOK ==
  /\ size \in [Pages -> Missing..MaxSize] /\ path \in Pages \cup {None}
  /\ locked \in BOOLEAN /\ stranded \in BOOLEAN /\ wrong \in BOOLEAN
  /\ page \in [Clients -> Pages \cup {None}] /\ index \in [Clients -> 0..MaxIndex]
  /\ good \in [Clients -> BOOLEAN] /\ alone \in [Clients -> BOOLEAN]
=============================================================================
