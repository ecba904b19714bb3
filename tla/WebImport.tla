------------------------------ MODULE WebImport ------------------------------
(***************************************************************************)
(* The files the web server receives: a list of stations or of networks is *)
(* uploaded block by block to a temporary file, moved into place by        *)
(* whichever task runs netserver.loop() next, and indexed when the         *)
(* PLAYLISTSAVED request that move posted comes out of nsQueue.            *)
(*                                                                         *)
(* Three tasks take part.  async is AsyncTCP, which runs the handlers of   *)
(* the requests; dsp is DspTask, which runs netserver.loop() for ever; and *)
(* loop, the Arduino loop task, runs it too, inside prepareForPlaying and  *)
(* setTitle, and changes the source.                                       *)
(* Every call that changes a file is a step of its own where the others    *)
(* can see what is between two of them.                                    *)
(***************************************************************************)
EXTENDS Integers, Sequences

CONSTANTS
  Uploads,    \* the uploads clients make, one request each
  Plans,      \* what they may be
  Original,   \* stands for the files the flash holds at the start
  Absent,     \* no file of that name
  QueueLen,   \* length of nsQueue
  SelfPosts,  \* the requests GETINDEX posts to its own queue
  MayRestart  \* the device may restart

Kind == {"csv", "json", "bad", "wifi", "board"}
Content == [of : Uploads \cup {Original}, whole : BOOLEAN]
File == Content \cup {Absent}
Whole(u) == [of |-> u, whole |-> TRUE]
Part(u) == [of |-> u, whole |-> FALSE]

ASSUME ImportAssumption ==
  /\ Plans \subseteq [Uploads -> Kind]
  /\ Original \notin Uploads /\ Absent \notin Content
  /\ QueueLen \in Nat \ {0} /\ SelfPosts \in Nat
  /\ MayRestart \in BOOLEAN

Task == {"async", "dsp", "loop"}
Server == {"dsp", "loop"}

VARIABLES
  kind,             \* what each upload is
  playlist, ssids, tmp,   \* /data/playlist.csv, /data/wifi.csv, /data/tmpfile.txt
  index, complete,  \* the list /data/index.dat was made from, and whether to its end
  request,          \* how far each upload is
  room,             \* freeSpace, reduced to: the blocks fit
  importRequest,
  queue,            \* nsQueue
  mode,
  up,               \* netserver.begin() has run
  pc,               \* where each task is
  writes,           \* the task has /data/index.dat open, and the name is still its file's
  opened,           \* the list indexPlaylist has open, before it opens the index
  \* history
  crossed,          \* an upload or import began beside another
  spoilt,           \* the index was made beside another writer of it or of its list, or it
                    \* was cut short, or kept without its list, by a restart
  noticeLost        \* the PLAYLISTSAVED of the present list was lost, or its index removed

lists == <<playlist, ssids, tmp>>
indexing == <<index, complete, writes, spoilt>>
web == <<request, room, importRequest>>
vars == <<kind, lists, indexing, opened, web, queue, mode, up, pc, crossed, noticeLost>>

\* An open upload writes to the file its temporary name, or later the list's, stands for.
Open == {"tmp", "list", "gone"}

Init ==
  /\ kind \in Plans
  /\ playlist \in {Absent, Whole(Original)} /\ ssids = Whole(Original) /\ tmp = Absent
  /\ index \in {Absent, playlist} /\ complete = (index # Absent)
  /\ request = [u \in Uploads |-> "new"] /\ room = FALSE /\ importRequest = "IMDONE"
  /\ queue = <<>> /\ mode = "WEB" /\ up = FALSE
  /\ pc = [t \in Task |-> IF t = "loop" THEN "init" ELSE "idle"]
  /\ writes = [t \in Task |-> FALSE] /\ opened = [t \in Task |-> Absent]
  /\ crossed = FALSE /\ spoilt = FALSE /\ noticeLost = FALSE

-----------------------------------------------------------------------------
(* Faulty variants, each a plausible bug in one definition below. *)
KeepIndex == UNCHANGED <<index, complete, writes, spoilt>>
MoveSilently == "done"
NextWhenQuiet ==
  IF queue # <<>> THEN "idle"
  ELSE CASE importRequest = "IMPL" -> "import"
         [] importRequest = "IMWIFI" -> "wifi"
         [] OTHER -> "idle"
FirstLineUnread(file) == {kind[file.of], "bad"}

-----------------------------------------------------------------------------
(* Helpers *)

Goto(t, place) == pc' = [pc EXCEPT ![t] = place]

\* Another upload is under way, or an import is.
Busy(u) ==
  \/ \E v \in Uploads \ {u} : request[v] \in Open \cup {"first", "closed"}
  \/ importRequest # "IMDONE"

\* The uploads that had a file open under one name have it under another.
Renamed(from, to) ==
  [u \in Uploads |-> IF request[u] = from THEN to ELSE request[u]]

\* A full queue makes the sender wait, and then lose the request.
Post(r) ==
  \/ /\ Len(queue) < QueueLen
     /\ queue' = Append(queue, r) /\ UNCHANGED noticeLost
  \/ /\ Len(queue) = QueueLen
     /\ noticeLost' = TRUE /\ UNCHANGED queue

-----------------------------------------------------------------------------
(* AsyncTCP: the handlers of an upload.  They run to their end one after   *)
(* the other, so a handler that indexes the list keeps the others waiting. *)

Async == up /\ pc["async"] = "idle"

\* The index is removed.
ForgetIndex ==
  /\ index' = Absent /\ complete' = FALSE
  /\ writes' = [t \in Task |-> FALSE]
  /\ spoilt' = FALSE

\* handleUpload for /upload, index 0: a list of stations drives out the old one ...
FirstBlock(u) ==
  /\ Async /\ request[u] = "new" /\ kind[u] \notin {"wifi", "board"}
  /\ playlist' = Absent
  /\ request' = [Renamed("list", "gone") EXCEPT ![u] = "first"]
  /\ Goto("async", "unlisted")
  /\ crossed' = (crossed \/ Busy(u))
  /\ UNCHANGED <<kind, ssids, tmp, indexing, opened, room, importRequest, queue, mode, up, noticeLost>>

\* ... then its index, with a call of its own ...
DropIndex ==
  /\ pc["async"] = "unlisted"
  /\ ForgetIndex /\ noticeLost' = FALSE
  /\ Goto("async", "cleared")
  /\ UNCHANGED <<kind, lists, opened, web, queue, mode, up, crossed>>

\* ... before it opens the temporary file.
OpenTemporary(u) ==
  /\ tmp' = Part(u) /\ room' \in BOOLEAN
  /\ request' = [request EXCEPT ![u] = "tmp"]
  /\ UNCHANGED <<kind, playlist, ssids, indexing, opened, importRequest, queue, mode, up, noticeLost>>

FirstListBlock(u) ==
  /\ pc["async"] = "cleared" /\ request[u] = "first"
  /\ OpenTemporary(u)
  /\ Goto("async", "idle")
  /\ UNCHANGED crossed

\* A list of networks removes nothing.
FirstWifiBlock(u) ==
  /\ Async /\ request[u] = "new" /\ kind[u] = "wifi"
  /\ OpenTemporary(u)
  /\ crossed' = (crossed \/ Busy(u))
  /\ UNCHANGED pc

\* What the last block makes of the file: whole only if all of it is u's and had room.
Finished(u, file, fits) == [of |-> u, whole |-> fits /\ file = Part(u)]

\* handleUpload for /upload, final: the last block, if it fits, and the file is closed.
LastBlock(u) ==
  /\ Async /\ request[u] \in Open /\ kind[u] # "board"
  /\ tmp' = IF request[u] = "tmp" THEN Finished(u, tmp, room) ELSE tmp
  /\ playlist' = IF request[u] = "list" THEN Finished(u, playlist, room) ELSE playlist
  /\ request' = [request EXCEPT ![u] = "closed"]
  /\ room' = FALSE
  /\ UNCHANGED <<kind, ssids, indexing, opened, importRequest, queue, mode, up, pc, crossed, noticeLost>>

\* The one slot the request to import is put in.
AskImport(u) == importRequest' = IF kind[u] = "wifi" THEN "IMWIFI" ELSE "IMPL"

\* handleNotFound answers the POST with 200.
Accept(u) ==
  /\ Async /\ request[u] = "closed"
  /\ AskImport(u)
  /\ request' = [request EXCEPT ![u] = "accepted"]
  /\ UNCHANGED <<kind, lists, indexing, opened, room, queue, mode, up, pc, crossed, noticeLost>>

\* handleUpload for /webboard writes the list in place, beside its old index ...
FirstBoardBlock(u) ==
  /\ Async /\ request[u] = "new" /\ kind[u] = "board"
  /\ playlist' = Part(u)
  /\ request' = [request EXCEPT ![u] = "list"]
  /\ spoilt' = (spoilt \/ index # Absent)
  /\ crossed' = (crossed \/ Busy(u))
  /\ UNCHANGED <<kind, ssids, tmp, index, complete, writes, opened, room, importRequest, queue, mode,
                 up, pc, noticeLost>>

\* ... and has it indexed by AsyncTCP itself.
LastBoardBlock(u) ==
  /\ Async /\ request[u] \in Open /\ kind[u] = "board"
  /\ \E fits \in BOOLEAN :
       playlist' = IF request[u] = "list" THEN Finished(u, playlist, fits) ELSE playlist
  /\ request' = [request EXCEPT ![u] = "over"]
  /\ spoilt' = (spoilt \/ index # Absent)
  /\ Goto("async", "again")
  /\ UNCHANGED <<kind, ssids, tmp, index, complete, writes, opened, room, importRequest, queue, mode, up, crossed,
                 noticeLost>>

\* The client goes away; what it has written stays.
Abort(u) ==
  /\ Async /\ request[u] \in Open \cup {"closed"}
  /\ request' = [request EXCEPT ![u] = "over"]
  /\ noticeLost' = (noticeLost \/ request[u] = "list")
  /\ UNCHANGED <<kind, lists, indexing, opened, room, importRequest, queue, mode, up, pc, crossed>>

\* "clearspiffs" removes the index, keeps its list and posts nothing; the source becomes WEB.
\* (Asked for over HTTP, the device restarts afterwards: Restart.)
ClearSpiffs ==
  /\ Async
  /\ ForgetIndex /\ mode' = "WEB"
  /\ noticeLost' = (noticeLost \/ index # Absent)
  /\ UNCHANGED <<kind, lists, opened, web, queue, up, pc, crossed>>

\* Some handler or task asks for one of the other messages to the browsers.
RequestOnChange ==
  /\ up /\ Len(queue) < QueueLen
  /\ \E r \in {"GETINDEX", "other"} : queue' = Append(queue, r)
  /\ UNCHANGED <<kind, lists, indexing, opened, web, mode, up, pc, crossed, noticeLost>>

-----------------------------------------------------------------------------
(* Config::indexPlaylist, in any of the three tasks. *)

AfterIndex(t) == IF pc[t] \in {"index", "indexing"} THEN "init"
                 ELSE IF t = "async" THEN "idle" ELSE "check"

\* It opens the list ...
ListOpen(t) ==
  /\ pc[t] \in {"index", "again"}
  /\ opened' = [opened EXCEPT ![t] = playlist]
  /\ Goto(t, IF playlist = Absent THEN AfterIndex(t)
             ELSE IF pc[t] = "index" THEN "listed" ELSE "relisted")
  /\ UNCHANGED <<kind, lists, indexing, web, queue, mode, up, crossed, noticeLost>>

\* ... and then the index, which is made from what was opened.
IndexOpen(t) ==
  /\ pc[t] \in {"listed", "relisted"}
  /\ index' = opened[t] /\ complete' = FALSE
  /\ writes' = [writes EXCEPT ![t] = TRUE]
  /\ opened' = [opened EXCEPT ![t] = Absent]
  /\ spoilt' = (opened[t] # playlist \/ \E s \in Task \ {t} : writes[s])
  /\ noticeLost' = FALSE
  /\ Goto(t, IF pc[t] = "listed" THEN "indexing" ELSE "rewriting")
  /\ UNCHANGED <<kind, lists, web, queue, mode, up, crossed>>

IndexClose(t) ==
  /\ pc[t] \in {"indexing", "rewriting"}
  /\ complete' = (complete \/ writes[t])
  /\ writes' = [writes EXCEPT ![t] = FALSE]
  /\ Goto(t, AfterIndex(t))
  /\ UNCHANGED <<kind, lists, index, spoilt, opened, web, queue, mode, up, crossed, noticeLost>>

\* Config::initPlaylist, after indexPlaylist and at boot.
InitPlaylist(t) ==
  /\ pc[t] = "init"
  /\ Goto(t, IF index = Absent THEN "again" ELSE "check")
  /\ UNCHANGED <<kind, lists, indexing, opened, web, queue, mode, up, crossed, noticeLost>>

-----------------------------------------------------------------------------
(* NetServer::loop: one request of the queue, then the import.             *)

\* A pass begins when the last one of the task has ended.
Between(t) == pc[t] = "idle" /\ up

ServeNothing(t) ==
  /\ Between(t) /\ queue = <<>>
  /\ Goto(t, "check")
  /\ UNCHANGED <<kind, lists, indexing, opened, web, queue, mode, up, crossed, noticeLost>>

\* Only in WEB is the new list indexed.
ServeSaved(t) ==
  /\ Between(t) /\ queue # <<>> /\ Head(queue) = "PLAYLISTSAVED"
  /\ queue' = Tail(queue)
  /\ IF mode = "WEB"
       THEN Goto(t, "index") /\ UNCHANGED noticeLost
       ELSE Goto(t, "check") /\ noticeLost' = TRUE
  /\ UNCHANGED <<kind, lists, indexing, opened, web, mode, up, crossed>>

Room == QueueLen - Len(Tail(queue))

\* GETINDEX becomes several requests, of which those that find no room are lost.
ServeOther(t) ==
  /\ Between(t) /\ queue # <<>> /\ Head(queue) # "PLAYLISTSAVED"
  /\ LET own == IF SelfPosts < Room THEN SelfPosts ELSE Room IN
     queue' = IF Head(queue) = "GETINDEX"
                THEN Tail(queue) \o [i \in 1..own |-> "other"]
                ELSE Tail(queue)
  /\ Goto(t, "check")
  /\ UNCHANGED <<kind, lists, indexing, opened, web, mode, up, crossed, noticeLost>>

-----------------------------------------------------------------------------
(* importPlaylist and saveWifi.  The slot is read before the import and    *)
(* emptied after it.                                                       *)

Importing == {"import", "rename", "converting", "post", "done", "wifi", "restart"}

NextImport ==
  CASE importRequest = "IMPL" -> "import"
    [] importRequest = "IMWIFI" -> "wifi"
    [] OTHER -> "idle"

Check(t) ==
  /\ pc[t] = "check"
  /\ Goto(t, NextImport)
  /\ crossed' = (\/ crossed
                 \/ importRequest # "IMDONE" /\ \E s \in Server \ {t} : pc[s] \in Importing)
  /\ UNCHANGED <<kind, lists, indexing, opened, web, queue, mode, up, noticeLost>>

\* What the first line of a file may look like; of half a file it may be missing.
FirstLine(file) == {kind[file.of]} \cup (IF file.whole THEN {} ELSE {"bad"})

NoFile(t) ==
  /\ pc[t] \in {"import", "wifi"} /\ tmp = Absent
  /\ Goto(t, "done")
  /\ UNCHANGED <<kind, lists, indexing, opened, web, queue, mode, up, crossed, noticeLost>>

ImportCsv(t) ==
  /\ pc[t] = "import" /\ tmp # Absent /\ "csv" \in FirstLine(tmp)
  /\ Goto(t, "rename")
  /\ UNCHANGED <<kind, lists, indexing, opened, web, queue, mode, up, crossed, noticeLost>>

\* A file in neither format is thrown away; the old list is gone already.
ImportBad(t) ==
  /\ pc[t] = "import" /\ tmp # Absent /\ FirstLine(tmp) \cap {"bad", "wifi", "board"} # {}
  /\ tmp' = Absent /\ request' = Renamed("tmp", "gone")
  /\ Goto(t, "done")
  /\ UNCHANGED <<kind, playlist, ssids, indexing, opened, room, importRequest, queue, mode, up, crossed,
                 noticeLost>>

\* The place a moved list sends its task to: PLAYLISTSAVED is posted there.
Moved == "post"

\* SPIFFS renames onto no existing file; nobody looks at the result.
Rename(t) ==
  /\ pc[t] = "rename"
  /\ IF tmp # Absent /\ playlist = Absent
       THEN /\ playlist' = tmp /\ tmp' = Absent
            /\ request' = Renamed("tmp", "list")
       ELSE UNCHANGED <<playlist, tmp, request>>
  /\ Goto(t, Moved)
  /\ UNCHANGED <<kind, ssids, indexing, opened, room, importRequest, queue, mode, up, crossed, noticeLost>>

\* JSON is rewritten line by line into the list.
ImportJson(t) ==
  /\ pc[t] = "import" /\ tmp # Absent /\ "json" \in FirstLine(tmp)
  /\ playlist' = Part(tmp.of)
  /\ spoilt' = (spoilt \/ index # Absent)
  /\ Goto(t, "converting")
  /\ UNCHANGED <<kind, ssids, tmp, index, complete, writes, opened, web, queue, mode, up, crossed,
                 noticeLost>>

Converted(t) ==
  /\ pc[t] = "converting"
  /\ playlist' = IF playlist = Absent THEN Absent
                 ELSE [playlist EXCEPT !.whole = (tmp = Whole(playlist.of))]
  /\ spoilt' = (spoilt \/ index # Absent)
  /\ tmp' = Absent /\ request' = Renamed("tmp", "gone")
  /\ Goto(t, Moved)
  /\ UNCHANGED <<kind, ssids, index, complete, writes, opened, room, importRequest, queue, mode, up,
                 crossed, noticeLost>>

Announce(t) ==
  /\ pc[t] = "post"
  /\ Post("PLAYLISTSAVED")
  /\ Goto(t, "done")
  /\ UNCHANGED <<kind, lists, indexing, opened, web, mode, up, crossed>>

Done(t) ==
  /\ pc[t] = "done"
  /\ importRequest' = "IMDONE"
  /\ Goto(t, "idle")
  /\ UNCHANGED <<kind, lists, indexing, opened, request, room, queue, mode, up, crossed, noticeLost>>

\* saveWifi: the old networks are removed, the new ones renamed, and the device restarts.
RemoveNetworks(t) ==
  /\ pc[t] = "wifi" /\ tmp # Absent
  /\ ssids' = Absent
  /\ Goto(t, "restart")
  /\ UNCHANGED <<kind, playlist, tmp, indexing, opened, web, queue, mode, up, crossed, noticeLost>>

\* What a restart does to the memory; setup() indexes a list that has no index, if it
\* reaches a network.
Boot ==
  /\ request' = [u \in Uploads |-> IF request[u] = "new" THEN "new" ELSE "over"]
  /\ room' = FALSE /\ importRequest' = "IMDONE"
  /\ queue' = <<>> /\ mode' = "WEB" /\ up' = FALSE
  /\ writes' = [t \in Task |-> FALSE] /\ opened' = [t \in Task |-> Absent]
  /\ spoilt' = (spoilt \/ (index # Absent /\ (~complete \/ pc["async"] = "unlisted")))
  /\ \E place \in {"init", "idle"} :
       /\ pc' = [t \in Task |-> IF t = "loop" THEN place ELSE "idle"]
       /\ noticeLost' = (place = "idle")
  /\ UNCHANGED <<kind, playlist, index, complete, crossed>>

SaveNetworks(t) ==
  /\ pc[t] = "restart"
  /\ ssids' = tmp /\ tmp' = Absent
  /\ Boot

Restart ==
  /\ MayRestart
  /\ UNCHANGED <<ssids, tmp>>
  /\ Boot

-----------------------------------------------------------------------------
(* The rest of the loop task *)

\* netserver.begin(), at the end of setup().
Begin ==
  /\ ~up /\ pc["loop"] = "idle" /\ up' = TRUE
  /\ UNCHANGED <<kind, lists, indexing, opened, web, queue, mode, pc, crossed, noticeLost>>

\* changeMode empties nsQueue, whatever is in it.
ChangeMode ==
  /\ up /\ pc["loop"] = "idle"
  /\ mode' = IF mode = "WEB" THEN "BT" ELSE "WEB"
  /\ queue' = <<"GETINDEX">>
  /\ noticeLost' = (noticeLost \/ \E i \in 1..Len(queue) : queue[i] = "PLAYLISTSAVED")
  /\ UNCHANGED <<kind, lists, indexing, opened, web, up, pc, crossed>>

Index(t) == ListOpen(t) \/ IndexOpen(t) \/ IndexClose(t) \/ InitPlaylist(t)

Serve(t) == ServeNothing(t) \/ ServeSaved(t) \/ ServeOther(t)

Import(t) ==
  \/ Check(t) \/ NoFile(t) \/ ImportCsv(t) \/ ImportBad(t) \/ Rename(t)
  \/ ImportJson(t) \/ Converted(t) \/ Announce(t) \/ Done(t)
  \/ RemoveNetworks(t) \/ SaveNetworks(t)

Handle(u) ==
  \/ FirstBlock(u) \/ FirstListBlock(u) \/ FirstWifiBlock(u) \/ LastBlock(u) \/ Accept(u)
  \/ FirstBoardBlock(u) \/ LastBoardBlock(u) \/ Abort(u)

Next ==
  \/ \E u \in Uploads : Handle(u)
  \/ \E t \in Task : Index(t)
  \/ \E t \in Server : Serve(t) \/ Import(t)
  \/ DropIndex \/ ClearSpiffs \/ RequestOnChange \/ Begin \/ ChangeMode \/ Restart

Spec == Init /\ [][Next]_vars

\* DspTask runs for ever, setup() ends, and no task stops half way through a pass or a
\* handler.
FairSpec ==
  /\ Spec
  /\ WF_vars(Begin) /\ WF_vars(Serve("dsp"))
  /\ \A t \in Server : WF_vars(Index(t) \/ Import(t))
  /\ WF_vars(Index("async")) /\ WF_vars(DropIndex)
  /\ \A u \in Uploads : WF_vars(FirstListBlock(u))

-----------------------------------------------------------------------------
(* Properties *)

Place == {"idle", "index", "listed", "indexing", "init", "again", "relisted",
          "rewriting", "check", "unlisted", "cleared"} \cup Importing

Stage == {"new", "first", "closed", "accepted", "over"} \cup Open

FlagsOK ==
  /\ complete \in BOOLEAN /\ writes \in [Task -> BOOLEAN]
  /\ room \in BOOLEAN /\ up \in BOOLEAN
  /\ crossed \in BOOLEAN /\ spoilt \in BOOLEAN /\ noticeLost \in BOOLEAN

DataOK ==
  /\ kind \in [Uploads -> Kind]
  /\ playlist \in File /\ ssids \in File /\ tmp \in File /\ index \in File
  /\ opened \in [Task -> File]
  /\ request \in [Uploads -> Stage]
  /\ importRequest \in {"IMDONE", "IMPL", "IMWIFI"}
  /\ queue \in Seq({"PLAYLISTSAVED", "GETINDEX", "other"}) /\ Len(queue) <= QueueLen
  /\ mode \in {"WEB", "BT"}
  /\ pc \in [Task -> Place]

\* Every variable keeps its type and nsQueue its length, whatever the order of blocks,
\* passes of NetServer::loop, changes of source and restarts.
TypeOK == FlagsOK /\ DataOK

\* An index there is was made from the list there is, to its end or still being written:
\* no order of uploads, imports, mode changes and restarts leaves positions of another
\* list behind, but for the moment in which a first block has removed the list and not yet
\* the index.  Exempt are overlapping uploads, an index with two writers, one whose list
\* changed after indexPlaylist had opened it, and one that a restart cut short or caught in
\* that moment (crossed, spoilt); spoilt ends when the index is removed or made anew.
IndexMatches ==
  index # Absent /\ ~spoilt /\ ~crossed /\ pc["async"] # "unlisted" =>
    /\ index = playlist
    /\ complete \/ \E t \in Task : writes[t]

\* A list without an index is about to get one, unless its PLAYLISTSAVED was lost: to a
\* full queue, to changeMode emptying it, or because it was served outside WEB; or unless
\* "clearspiffs" removed the index it had.
NoticePending ==
  playlist # Absent /\ index = Absent /\ ~crossed /\ ~noticeLost =>
    \/ \E u \in Uploads : request[u] = "list"
    \/ \E i \in 1..Len(queue) : queue[i] = "PLAYLISTSAVED"
    \/ \E t \in Task : pc[t] \in {"converting", "post", "index", "listed", "init", "again", "relisted"}

\* A list that arrived whole and was answered with 200, and is to be imported.
ToImport(u) ==
  /\ request[u] = "accepted" /\ importRequest = "IMPL"
  /\ tmp = Whole(u) /\ kind[u] \in {"csv", "json"}

\* It is installed, unless another upload crossed it or the device restarted.
Settled(u) == playlist = Whole(u) \/ crossed \/ request[u] = "over"

\* Nothing else becomes of such a list: it is not thrown away, the slot does not forget
\* it, and the rename and the conversion, whose results nobody looks at, succeed.
AcceptedKept == [][\A u \in Uploads : ToImport(u) => ToImport(u)' \/ Settled(u)']_vars

\* And it is installed in the end.
AcceptedInstalled == \A u \in Uploads : ToImport(u) ~> Settled(u)
=============================================================================
