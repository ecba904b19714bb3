-------------------------- MODULE WebImportProofs --------------------------
(***************************************************************************)
(* Proofs about WebImport: its types, and that the index belongs to the    *)
(* list and a list without one is about to get it, for any uploads, any    *)
(* queue length and any number of restarts.                                *)
(***************************************************************************)
EXTENDS WebImport, SequenceTheorems, TLAPS

\* A step of NetServer::loop.
Pass(t) == Serve(t) \/ Import(t)

\* Everybody's own steps beside Handle, Index and Pass.
Rest == DropIndex \/ ClearSpiffs \/ RequestOnChange \/ Begin \/ ChangeMode \/ Restart

\* An upload between its first block and its answer.
UnderWay(u) == request[u] \in Open \cup {"first", "closed"}

\* While nothing has crossed, an upload and an import exclude each other, there is at
\* most one of each, only an upload to /webboard writes the list in place, and the list
\* stays removed until the handler that removed it has ended.
Calm ==
  ~crossed =>
    /\ \A t \in Server : pc[t] \in Importing => importRequest # "IMDONE"
    /\ \A s, t \in Server : pc[s] \in Importing /\ pc[t] \in Importing => s = t
    /\ \A u \in Uploads : UnderWay(u) => importRequest = "IMDONE"
    /\ \A u, v \in Uploads : UnderWay(u) /\ UnderWay(v) => u = v
    /\ \A u \in Uploads : request[u] = "list" => kind[u] = "board"
    /\ pc["async"] \in {"unlisted", "cleared"} =>
         playlist = Absent /\ \E u \in Uploads : request[u] = "first"

-----------------------------------------------------------------------------
(* Type correctness *)

LEMMA InitType == Init => TypeOK
<1> SUFFICES ASSUME Init PROVE TypeOK
  OBVIOUS
<1>1. FlagsOK
  BY Zenon DEF Init, FlagsOK
<1>2. DataOK
  <2>1. Whole(Original) \in File /\ Absent \in File
    BY DEF Whole, File, Content
  <2>2. kind \in [Uploads -> Kind]
    BY ImportAssumption DEF ImportAssumption, Init
  <2>3. pc \in [Task -> Place] /\ request \in [Uploads -> Stage] /\ opened \in [Task -> File]
    BY <2>1 DEF Init, Place, Stage
  <2> QED
    BY <2>1, <2>2, <2>3, ImportAssumption DEF ImportAssumption, Init, DataOK
<1> QED
  BY <1>1, <1>2 DEF TypeOK

\* The handlers of the uploads keep the flags Boolean.
LEMMA HandleFlags ==
  ASSUME TypeOK, NEW u \in Uploads, Handle(u)
  PROVE  FlagsOK'
<1> USE DEF TypeOK, FlagsOK, lists, indexing, web
<1>1. CASE FirstBlock(u)
  BY <1>1, Zenon DEF FirstBlock
<1>7. CASE FirstListBlock(u)
  BY <1>7, Zenon DEF FirstListBlock, OpenTemporary
<1>8. CASE FirstWifiBlock(u)
  BY <1>8, Zenon DEF FirstWifiBlock, OpenTemporary
<1>2. CASE LastBlock(u)
  BY <1>2, Zenon DEF LastBlock
<1>3. CASE Accept(u)
  BY <1>3, Zenon DEF Accept
<1>4. CASE FirstBoardBlock(u)
  BY <1>4, Zenon DEF FirstBoardBlock
<1>5. CASE LastBoardBlock(u)
  BY <1>5, Zenon DEF LastBoardBlock
<1>6. CASE Abort(u)
  BY <1>6, Zenon DEF Abort
<1> QED
  BY <1>1, <1>2, <1>3, <1>4, <1>5, <1>6, <1>7, <1>8 DEF Handle

\* A block written to a file leaves a content there.
LEMMA ContentTypes ==
  ASSUME NEW u \in Uploads
  PROVE  /\ Part(u) \in File /\ Whole(u) \in File
         /\ \A file, fits : Finished(u, file, fits) \in File
BY Zenon DEF Part, Whole, Finished, File, Content

\* ... and the rest of the state well typed.
LEMMA HandleData ==
  ASSUME TypeOK, NEW u \in Uploads, Handle(u)
  PROVE  DataOK'
<1> USE ContentTypes DEF TypeOK, DataOK, lists, indexing, web
<1>1. CASE FirstBlock(u)
  <2>1. request' \in [Uploads -> Stage]
    BY <1>1 DEF FirstBlock, Renamed, Open, Stage
  <2>2. playlist' \in File /\ pc' \in [Task -> Place]
    BY <1>1 DEF FirstBlock, Goto, Place, File
  <2> QED
    BY <1>1, <2>1, <2>2 DEF FirstBlock
<1>7. CASE FirstListBlock(u) \/ FirstWifiBlock(u)
  <2>1. request' \in [Uploads -> Stage] /\ tmp' \in File
    BY <1>7 DEF FirstListBlock, FirstWifiBlock, OpenTemporary, Open, Stage
  <2>2. pc' \in [Task -> Place]
    BY <1>7 DEF FirstListBlock, FirstWifiBlock, Goto, Place
  <2> QED
    BY <1>7, <2>1, <2>2 DEF FirstListBlock, FirstWifiBlock, OpenTemporary
<1>2. CASE LastBlock(u)
  <2>1. tmp' \in File /\ playlist' \in File
    BY <1>2 DEF LastBlock
  <2> QED
    BY <1>2, <2>1 DEF LastBlock, Stage
<1>3. CASE Accept(u)
  BY <1>3 DEF Accept, AskImport, Stage
<1>4. CASE FirstBoardBlock(u)
  BY <1>4 DEF FirstBoardBlock, Open, Stage
<1>5. CASE LastBoardBlock(u)
  <2>1. playlist' \in File
    BY <1>5 DEF LastBoardBlock
  <2>2. pc' \in [Task -> Place]
    BY <1>5 DEF LastBoardBlock, Goto, Place
  <2> QED
    BY <1>5, <2>1, <2>2 DEF LastBoardBlock, Stage
<1>6. CASE Abort(u)
  BY <1>6 DEF Abort, Stage
<1> QED
  BY <1>1, <1>2, <1>3, <1>4, <1>5, <1>6, <1>7 DEF Handle

\* Indexing a list keeps the types.
LEMMA IndexType ==
  ASSUME TypeOK, NEW t \in Task, Index(t)
  PROVE  TypeOK'
<1> USE DEF TypeOK, lists, indexing, web
<1>1. FlagsOK'
  <2> USE DEF FlagsOK
  <2>1. CASE IndexOpen(t)
    BY <2>1, Zenon DEF IndexOpen
  <2>4. CASE ListOpen(t)
    BY <2>4, Zenon DEF ListOpen
  <2>2. CASE IndexClose(t)
    BY <2>2, Zenon DEF IndexClose
  <2>3. CASE InitPlaylist(t)
    BY <2>3, Zenon DEF InitPlaylist
  <2> QED
    BY <2>1, <2>2, <2>3, <2>4 DEF Index
<1>2. DataOK'
  <2>1. pc' \in [Task -> Place]
    BY DEF Index, ListOpen, IndexOpen, IndexClose, InitPlaylist, AfterIndex, Goto, Place, DataOK
  <2>2. index' \in File /\ opened' \in [Task -> File]
    BY DEF Index, ListOpen, IndexOpen, IndexClose, InitPlaylist, DataOK, File
  <2> QED
    BY <2>1, <2>2 DEF Index, ListOpen, IndexOpen, IndexClose, InitPlaylist, DataOK
<1> QED
  BY <1>1, <1>2

\* What the memory holds after a restart is well typed.
LEMMA BootType ==
  ASSUME TypeOK, Boot, ssids' \in File, tmp' \in File
  PROVE  TypeOK'
<1>1. FlagsOK'
  BY Zenon DEF TypeOK, FlagsOK, Boot
<1>2. DataOK'
  <2>1. pc' \in [Task -> Place]
    BY DEF Boot, Place
  <2>2. queue' \in Seq({"PLAYLISTSAVED", "GETINDEX", "other"}) /\ Len(queue') <= QueueLen
    BY ImportAssumption DEF ImportAssumption, Boot
  <2>3. opened' \in [Task -> File] /\ request' \in [Uploads -> Stage]
    BY DEF Boot, File, Stage
  <2> QED
    BY <2>1, <2>2, <2>3 DEF Boot, TypeOK, DataOK
<1> QED
  BY <1>1, <1>2 DEF TypeOK

\* A posted request keeps the queue a queue of at most QueueLen requests.
LEMMA PostType ==
  ASSUME TypeOK, NEW r \in {"PLAYLISTSAVED", "GETINDEX", "other"}, Post(r)
  PROVE  /\ queue' \in Seq({"PLAYLISTSAVED", "GETINDEX", "other"}) /\ Len(queue') <= QueueLen
         /\ noticeLost' \in BOOLEAN
<1>1. CASE Len(queue) < QueueLen /\ queue' = Append(queue, r) /\ UNCHANGED noticeLost
  BY <1>1, ImportAssumption DEF ImportAssumption, TypeOK, FlagsOK, DataOK
<1>2. CASE Len(queue) = QueueLen /\ noticeLost' = TRUE /\ UNCHANGED queue
  BY <1>2 DEF TypeOK, DataOK
<1> QED
  BY <1>1, <1>2 DEF Post

\* What is left of the queue when its head has been served.
LEMMA TailType ==
  ASSUME TypeOK, queue # <<>>
  PROVE  /\ Tail(queue) \in Seq({"PLAYLISTSAVED", "GETINDEX", "other"})
         /\ Len(Tail(queue)) = Len(queue) - 1 /\ Len(Tail(queue)) \in Nat
         /\ \A i \in 1..Len(Tail(queue)) : Tail(queue)[i] = queue[i + 1]
BY HeadTailProperties DEF TypeOK, DataOK

\* The queue GETINDEX leaves behind.
LEMMA ServeOtherQueue ==
  ASSUME TypeOK, NEW t \in Server, ServeOther(t)
  PROVE  /\ queue' \in Seq({"PLAYLISTSAVED", "GETINDEX", "other"}) /\ Len(queue') <= QueueLen
         /\ Len(Tail(queue)) <= Len(queue')
         /\ \A i \in 1..Len(Tail(queue)) : queue'[i] = Tail(queue)[i]
<1> DEFINE own == IF SelfPosts < Room THEN SelfPosts ELSE Room
           others == [i \in 1..own |-> "other"]
<1>1. queue # <<>>
  BY DEF ServeOther
<1>2. own \in Nat /\ Len(Tail(queue)) + own <= QueueLen
  BY <1>1, TailType, ImportAssumption DEF ImportAssumption, Room, TypeOK, DataOK
<1>3. others \in Seq({"PLAYLISTSAVED", "GETINDEX", "other"}) /\ Len(others) = own
  BY <1>2
<1>4. queue' = Tail(queue) \o others \/ queue' = Tail(queue)
  BY DEF ServeOther
<1> HIDE DEF own, others
<1>5. CASE queue' = Tail(queue) \o others
  BY <1>1, <1>2, <1>3, <1>5, TailType, ConcatProperties
<1>6. CASE queue' = Tail(queue)
  BY <1>1, <1>2, <1>6, TailType, ImportAssumption DEF ImportAssumption
<1> QED
  BY <1>4, <1>5, <1>6

\* A pass of NetServer::loop keeps the flags Boolean.
LEMMA ServeFlags ==
  ASSUME TypeOK, NEW t \in Server, Pass(t)
  PROVE  FlagsOK'
<1> USE DEF TypeOK, FlagsOK, lists, indexing, web
<1>1. CASE ServeNothing(t) \/ ServeOther(t) \/ Check(t) \/ NoFile(t) \/ ImportCsv(t)
  BY <1>1, Zenon DEF ServeNothing, ServeOther, Check, NoFile, ImportCsv
<1>2. CASE ServeSaved(t)
  <2>1. CASE mode = "WEB"
    BY <1>2, <2>1, Zenon DEF ServeSaved
  <2>2. CASE mode # "WEB"
    BY <1>2, <2>2, Zenon DEF ServeSaved
  <2> QED
    BY <2>1, <2>2
<1>3. CASE ImportBad(t) \/ Done(t) \/ RemoveNetworks(t)
  BY <1>3, Zenon DEF ImportBad, Done, RemoveNetworks
<1>4. CASE Rename(t)
  BY <1>4, Zenon DEF Rename
<1>5. CASE ImportJson(t) \/ Converted(t)
  BY <1>5, Zenon DEF ImportJson, Converted
<1>6. CASE Announce(t)
  BY <1>6, PostType, Zenon DEF Announce
<1>7. CASE SaveNetworks(t)
  BY <1>7, Zenon DEF SaveNetworks, Boot
<1> QED
  BY <1>1, <1>2, <1>3, <1>4, <1>5, <1>6, <1>7 DEF Pass, Serve, Import

\* ... and the rest of the state well typed.
LEMMA ServeData ==
  ASSUME TypeOK, NEW t \in Server, Pass(t)
  PROVE  DataOK'
<1> USE DEF TypeOK, DataOK, lists, indexing, web
<1>0. t \in Task
  BY DEF Server, Task
<1> DEFINE Requests == [Uploads -> Stage]
<1>1. /\ Renamed("tmp", "gone") \in Requests /\ Renamed("tmp", "list") \in Requests
      /\ Absent \in File
  BY DEF Renamed, Open, Stage, File
<1>2. ASSUME NEW place \in Place, Goto(t, place) PROVE pc' \in [Task -> Place]
  BY <1>0, <1>2 DEF Goto
<1>3. CASE ServeNothing(t) \/ Check(t) \/ NoFile(t) \/ ImportCsv(t)
  BY <1>0, <1>3 DEF ServeNothing, Check, NextImport, NoFile, ImportCsv, Goto, Place, Importing
<1>4. CASE ServeSaved(t)
  <2>1. pc' \in [Task -> Place]
    BY <1>0, <1>4 DEF ServeSaved, Goto, Place
  <2>2. queue # <<>> /\ queue' = Tail(queue)
    BY <1>4 DEF ServeSaved
  <2>3. queue' \in Seq({"PLAYLISTSAVED", "GETINDEX", "other"}) /\ Len(queue') <= QueueLen
    BY <2>2, TailType, ImportAssumption DEF ImportAssumption
  <2> QED
    BY <1>4, <2>1, <2>3 DEF ServeSaved
<1>5. CASE ServeOther(t)
  <2>1. pc' \in [Task -> Place]
    BY <1>0, <1>5 DEF ServeOther, Goto, Place
  <2> QED
    BY <1>5, <2>1, ServeOtherQueue DEF ServeOther
<1>6. CASE ImportBad(t)
  BY <1>1, <1>2, <1>6 DEF ImportBad, Place, Importing
<1>7. CASE Rename(t)
  BY <1>1, <1>2, <1>7 DEF Rename, Moved, Place, Importing
<1>8. CASE ImportJson(t)
  <2>1. playlist' \in File
    BY <1>8 DEF ImportJson, Part, File, Content
  <2> QED
    BY <1>2, <1>8, <2>1 DEF ImportJson, Place, Importing
<1>9. CASE Converted(t)
  <2>1. playlist' \in File
    BY <1>9, Zenon DEF Converted, File, Content
  <2> QED
    BY <1>1, <1>2, <1>9, <2>1 DEF Converted, Moved, Place, Importing
<1>10. CASE Announce(t)
  BY <1>2, <1>10, PostType DEF Announce, Place, Importing
<1>11. CASE Done(t)
  BY <1>2, <1>11 DEF Done, Place
<1>12. CASE RemoveNetworks(t)
  BY <1>1, <1>2, <1>12 DEF RemoveNetworks, Place, Importing
<1>13. CASE SaveNetworks(t)
  BY <1>1, <1>13, BootType DEF SaveNetworks
<1> QED
  BY <1>3, <1>4, <1>5, <1>6, <1>7, <1>8, <1>9, <1>10, <1>11, <1>12, <1>13 DEF Pass, Serve, Import

\* The rest of the steps keep the types too.
LEMMA RestType == TypeOK /\ Rest => TypeOK'
<1> SUFFICES ASSUME TypeOK, Rest PROVE TypeOK'
  OBVIOUS
<1>1. CASE Restart
  BY <1>1, BootType DEF Restart, TypeOK, DataOK
<1>3. CASE DropIndex \/ ClearSpiffs
  <2>1. pc' \in [Task -> Place] /\ index' \in File
    BY <1>3 DEF DropIndex, ClearSpiffs, ForgetIndex, Goto, TypeOK, DataOK, Place, File
  <2>2. DataOK'
    BY <1>3, <2>1 DEF DropIndex, ClearSpiffs, ForgetIndex, TypeOK, DataOK, lists, web
  <2>3. FlagsOK'
    BY <1>3, Zenon DEF DropIndex, ClearSpiffs, ForgetIndex, TypeOK, FlagsOK, lists, web
  <2> QED
    BY <2>2, <2>3 DEF TypeOK
<1>4. CASE RequestOnChange \/ Begin \/ ChangeMode
  <2>1. queue' \in Seq({"PLAYLISTSAVED", "GETINDEX", "other"}) /\ Len(queue') <= QueueLen
    <3>1. CASE RequestOnChange
      BY <3>1, ImportAssumption DEF ImportAssumption, RequestOnChange, TypeOK, DataOK
    <3>2. CASE Begin
      BY <3>2 DEF Begin, TypeOK, DataOK
    <3>3. CASE ChangeMode
      <4>1. queue' = <<"GETINDEX">>
        BY <3>3 DEF ChangeMode
      <4> QED
        BY <4>1, ImportAssumption DEF ImportAssumption
    <3> QED
      BY <1>4, <3>1, <3>2, <3>3
  <2>2. DataOK'
    BY <1>4, <2>1 DEF RequestOnChange, Begin, ChangeMode, TypeOK, DataOK, lists, indexing, web
  <2>3. FlagsOK'
    BY <1>4, Zenon DEF RequestOnChange, Begin, ChangeMode, TypeOK, FlagsOK, lists, indexing, web
  <2> QED
    BY <2>2, <2>3 DEF TypeOK
<1> QED
  BY <1>1, <1>3, <1>4 DEF Rest

\* TypeOK holds always: nsQueue stays within its length, and no interleaving of uploads,
\* passes, changes of source and restarts leaves a variable outside its type.
THEOREM TypeCorrect == Spec => []TypeOK
<1>1. TypeOK /\ [Next]_vars => TypeOK'
  <2> SUFFICES ASSUME TypeOK, [Next]_vars PROVE TypeOK'
    OBVIOUS
  <2>1. CASE UNCHANGED vars
    BY <2>1 DEF vars, lists, indexing, web, TypeOK, FlagsOK, DataOK
  <2>2. CASE Next
    BY <2>2, HandleFlags, HandleData, IndexType, ServeFlags, ServeData, RestType
      DEF Next, Rest, Pass, TypeOK
  <2> QED
    BY <2>1, <2>2
<1> QED
  BY InitType, <1>1, PTL DEF Spec

-----------------------------------------------------------------------------
(* Uploads and imports that do not overlap *)

LEMMA InitCalm == Init => Calm
BY DEF Init, Calm, UnderWay, Open, Importing, Server, Task

\* With no upload under way, renaming the temporary file moves nobody.
LEMMA NobodyMoved ==
  ASSUME TypeOK, \A u \in Uploads : ~UnderWay(u), NEW to
  PROVE  Renamed("tmp", to) = request
BY DEF TypeOK, DataOK, Renamed, UnderWay, Open

\* A handler that begins an upload beside another, or beside an import, is noticed.
LEMMA HandleCalm ==
  ASSUME TypeOK, Calm, NEW u \in Uploads, Handle(u)
  PROVE  Calm'
<1> SUFFICES ASSUME ~crossed' PROVE Calm'
  BY DEF Calm
<1> USE DEF TypeOK, DataOK, Calm, UnderWay, Open, lists, indexing, web
<1>1. CASE FirstBlock(u) \/ FirstWifiBlock(u) \/ FirstBoardBlock(u)
  <2>1. ~crossed /\ ~Busy(u)
    BY <1>1, Zenon DEF FirstBlock, FirstWifiBlock, FirstBoardBlock
  <2>2. importRequest = "IMDONE" /\ \A v \in Uploads \ {u} : ~UnderWay(v)
    BY <2>1 DEF Busy
  <2>3. \A v \in Uploads \ {u} : request'[v] = request[v]
    BY <1>1, <2>2 DEF FirstBlock, FirstWifiBlock, OpenTemporary, FirstBoardBlock, Renamed
  <2>4. request'[u] = "list" => kind[u] = "board"
    BY <1>1 DEF FirstBlock, FirstWifiBlock, OpenTemporary, FirstBoardBlock, Renamed
  <2>5. /\ UNCHANGED <<importRequest, kind>>
        /\ \A s \in Server : pc'[s] = pc[s]
    BY <1>1 DEF FirstBlock, FirstWifiBlock, OpenTemporary, FirstBoardBlock, Goto, Server, Task
  <2>6. pc'["async"] \in {"unlisted", "cleared"} => playlist' = Absent /\ request'[u] = "first"
    BY <1>1 DEF FirstBlock, FirstWifiBlock, FirstBoardBlock, Async, Renamed, Goto, Task
  <2> QED
    BY <2>1, <2>2, <2>3, <2>4, <2>5, <2>6
<1>6. CASE FirstListBlock(u)
  <2>1. /\ \A v \in Uploads \ {u} : request'[v] = request[v]
        /\ request[u] = "first" /\ request'[u] = "tmp"
        /\ UNCHANGED <<kind, importRequest, crossed>>
    BY <1>6 DEF FirstListBlock, OpenTemporary
  <2>2. pc'["async"] = "idle" /\ \A s \in Server : pc'[s] = pc[s]
    BY <1>6 DEF FirstListBlock, Goto, Server, Task
  <2> QED
    BY <2>1, <2>2
<1>2. CASE LastBlock(u)
  BY <1>2 DEF LastBlock, Async
<1>3. CASE Accept(u)
  BY <1>3 DEF Accept, Async
<1>4. CASE LastBoardBlock(u)
  BY <1>4 DEF LastBoardBlock, Goto, Importing, Server, Task
<1>5. CASE Abort(u)
  BY <1>5 DEF Abort, Async
<1> QED
  BY <1>1, <1>2, <1>3, <1>4, <1>5, <1>6 DEF Handle

\* The two places in the first block of a list.
Emptying == {"unlisted", "cleared"}

\* A step that neither begins nor ends an upload or an import.
LEMMA CalmSame ==
  ASSUME Calm, UNCHANGED <<request, importRequest, kind, crossed, playlist>>,
         \A s \in Server : pc'[s] \in Importing => pc[s] \in Importing,
         pc'["async"] \in Emptying => pc["async"] \in Emptying
  PROVE  Calm'
BY DEF Calm, UnderWay, Emptying

\* Indexing touches neither of them.
LEMMA IndexPlaces ==
  ASSUME TypeOK, NEW t \in Task, Index(t)
  PROVE  /\ \A s \in Server : pc[s] \in Importing \/ pc'[s] \in Importing => pc'[s] = pc[s]
         /\ pc["async"] \in Emptying \/ pc'["async"] \in Emptying => pc'["async"] = pc["async"]
         /\ UNCHANGED <<kind, playlist, tmp, request, importRequest, crossed>>
<1> USE DEF TypeOK, DataOK, AfterIndex, Goto, Importing, Emptying, Server, Task, lists, web
<1>1. CASE ListOpen(t)
  BY <1>1 DEF ListOpen
<1>2. CASE IndexOpen(t)
  BY <1>2 DEF IndexOpen
<1>3. CASE IndexClose(t)
  BY <1>3 DEF IndexClose
<1>4. CASE InitPlaylist(t)
  BY <1>4 DEF InitPlaylist
<1> QED
  BY <1>1, <1>2, <1>3, <1>4 DEF Index

LEMMA IndexCalm ==
  ASSUME TypeOK, Calm, NEW t \in Task, Index(t)
  PROVE  Calm'
BY IndexPlaces, CalmSame DEF Emptying

\* A restart ends every upload and every import.
LEMMA BootCalm ==
  ASSUME TypeOK, Boot
  PROVE  Calm'
BY DEF TypeOK, DataOK, Boot, Calm, UnderWay, Open, Importing, Server, Task

\* An import that begins beside another is noticed; while it lasts, the slot stays taken.
LEMMA ServeCalm ==
  ASSUME TypeOK, Calm, NEW t \in Server, Pass(t)
  PROVE  Calm'
<1> SUFFICES ASSUME ~crossed' PROVE Calm'
  BY DEF Calm
<1> USE DEF TypeOK, DataOK, lists, indexing, web
<1>0. t \in Task /\ t # "async"
  BY DEF Server, Task
<1>1. CASE ServeNothing(t) \/ ServeSaved(t) \/ ServeOther(t)
  <2>1. \A s \in Server : pc'[s] \in Importing => pc[s] \in Importing
    BY <1>0, <1>1 DEF ServeNothing, ServeSaved, ServeOther, Goto, Importing, Server, Task
  <2>2. UNCHANGED <<request, importRequest, kind, crossed, playlist, pc["async"]>>
    BY <1>0, <1>1 DEF ServeNothing, ServeSaved, ServeOther, Goto, Task
  <2> QED
    BY <2>1, <2>2, CalmSame
<1>2. CASE Check(t)
  <2>1. ~crossed /\ (importRequest = "IMDONE" \/ \A s \in Server \ {t} : pc[s] \notin Importing)
    BY <1>2, Zenon DEF Check
  <2>2. /\ \A s \in Server \ {t} : pc'[s] = pc[s]
        /\ pc'[t] \in Importing => importRequest # "IMDONE"
    BY <1>0, <1>2 DEF Check, Goto, NextImport, Importing
  <2>3. UNCHANGED <<request, importRequest, kind, playlist, pc["async"]>>
    BY <1>0, <1>2 DEF Check, Goto
  <2> QED
    BY <2>1, <2>2, <2>3 DEF Calm, UnderWay
<1>3. CASE Done(t)
  <2>1. pc[t] \in Importing /\ pc'[t] \notin Importing /\ \A s \in Server \ {t} : pc'[s] = pc[s]
    BY <1>0, <1>3 DEF Done, Goto, Importing
  <2>2. importRequest' = "IMDONE" /\ UNCHANGED <<request, kind, crossed, playlist, pc["async"]>>
    BY <1>0, <1>3 DEF Done, Goto
  <2> QED
    BY <2>1, <2>2 DEF Calm, UnderWay
<1>4. CASE SaveNetworks(t)
  BY <1>4, BootCalm DEF SaveNetworks
<1>5. CASE \/ NoFile(t) \/ ImportCsv(t) \/ ImportBad(t) \/ Rename(t) \/ ImportJson(t)
           \/ Converted(t) \/ Announce(t) \/ RemoveNetworks(t)
  <2>1. ~crossed /\ UNCHANGED <<importRequest, kind, crossed>>
    BY <1>5 DEF NoFile, ImportCsv, ImportBad, Rename, ImportJson, Converted, Announce,
      RemoveNetworks
  <2>2. pc[t] \in Importing /\ \A s \in Server \ {t} : pc'[s] = pc[s]
    BY <1>0, <1>5 DEF NoFile, ImportCsv, ImportBad, Rename, ImportJson, Converted, Announce,
      RemoveNetworks, Goto, Importing, Server, Task
  <2>3. \A u \in Uploads : ~UnderWay(u)
    BY <2>1, <2>2 DEF Calm
  <2>4. request' = request
    BY <1>5, <2>3, NobodyMoved DEF NoFile, ImportCsv, ImportBad, Rename, ImportJson, Converted,
      Announce, RemoveNetworks
  <2>5. pc'["async"] = pc["async"] /\ pc["async"] \notin {"unlisted", "cleared"}
    <3>1. pc'["async"] = pc["async"]
      BY <1>0, <1>5 DEF NoFile, ImportCsv, ImportBad, Rename, ImportJson, Converted, Announce,
        RemoveNetworks, Goto, Task
    <3> QED
      BY <2>1, <2>3, <3>1 DEF Calm, UnderWay
  <2> QED
    BY <2>1, <2>2, <2>4, <2>5 DEF Calm, UnderWay
<1> QED
  BY <1>1, <1>2, <1>3, <1>4, <1>5 DEF Pass, Serve, Import

LEMMA RestCalm == TypeOK /\ Calm /\ Rest => Calm'
<1> SUFFICES ASSUME TypeOK, Calm, Rest PROVE Calm'
  OBVIOUS
<1>1. CASE Restart
  BY <1>1, BootCalm DEF Restart
<1>2. CASE DropIndex
  BY <1>2, CalmSame DEF DropIndex, Goto, Emptying, Importing, Server, Task, web, lists, TypeOK, DataOK
<1>3. CASE ClearSpiffs \/ RequestOnChange \/ Begin \/ ChangeMode
  BY <1>3, CalmSame DEF ClearSpiffs, RequestOnChange, Begin, ChangeMode, web, lists
<1> QED
  BY <1>1, <1>2, <1>3 DEF Rest

LEMMA CalmAlways == Spec => []Calm
<1>1. TypeOK /\ Calm /\ [Next]_vars => Calm'
  <2> SUFFICES ASSUME TypeOK, Calm, [Next]_vars PROVE Calm'
    OBVIOUS
  <2>1. CASE UNCHANGED vars
    BY <2>1, CalmSame DEF vars, web, lists
  <2>2. CASE Next
    BY <2>2, HandleCalm, IndexCalm, ServeCalm, RestCalm DEF Next, Rest, Pass
  <2> QED
    BY <2>1, <2>2
<1> QED
  BY InitCalm, TypeCorrect, <1>1, PTL DEF Spec

-----------------------------------------------------------------------------
(* The index belongs to the list *)

LEMMA HandleIndex ==
  ASSUME TypeOK, Calm, IndexMatches, NEW u \in Uploads, Handle(u)
  PROVE  IndexMatches'
<1> SUFFICES ASSUME index' # Absent, ~spoilt', ~crossed', pc'["async"] # "unlisted"
             PROVE  index' = playlist' /\ (complete' \/ \E t \in Task : writes'[t])
  BY DEF IndexMatches
<1> USE DEF TypeOK, DataOK, IndexMatches, lists, indexing, web
<1>1. CASE FirstBlock(u)
  BY <1>1 DEF FirstBlock, Goto, Task
<1>5. CASE FirstListBlock(u) \/ FirstWifiBlock(u)
  <2>1. ~crossed /\ pc["async"] # "unlisted"
    <3>1. CASE FirstListBlock(u)
      BY <3>1 DEF FirstListBlock
    <3>2. CASE FirstWifiBlock(u)
      BY <3>2, Zenon DEF FirstWifiBlock, Async
    <3> QED
      BY <1>5, <3>1, <3>2
  <2> QED
    BY <1>5, <2>1 DEF FirstListBlock, FirstWifiBlock, OpenTemporary
<1>2. CASE LastBlock(u)
  <2>1. ~crossed /\ kind[u] # "board"
    BY <1>2 DEF LastBlock
  <2>2. request[u] # "list"
    BY <2>1 DEF Calm
  <2> QED
    BY <1>2, <2>1, <2>2 DEF LastBlock
<1>3. CASE Accept(u) \/ Abort(u)
  BY <1>3 DEF Accept, Abort
<1>4. CASE FirstBoardBlock(u) \/ LastBoardBlock(u)
  BY <1>4 DEF FirstBoardBlock, LastBoardBlock
<1> QED
  BY <1>1, <1>2, <1>3, <1>4, <1>5 DEF Handle

LEMMA IndexIndex ==
  ASSUME TypeOK, IndexMatches, NEW t \in Task, Index(t)
  PROVE  IndexMatches'
<1> SUFFICES ASSUME index' # Absent, ~spoilt', ~crossed', pc'["async"] # "unlisted"
             PROVE  index' = playlist' /\ (complete' \/ \E s \in Task : writes'[s])
  BY DEF IndexMatches
<1>0. pc["async"] # "unlisted" /\ UNCHANGED <<playlist, crossed>>
  BY IndexPlaces DEF Emptying
<1> USE DEF TypeOK, FlagsOK, IndexMatches, lists, indexing
<1>1. CASE ListOpen(t)
  BY <1>0, <1>1 DEF ListOpen
<1>2. CASE IndexOpen(t)
  BY <1>2 DEF IndexOpen
<1>3. CASE IndexClose(t)
  <2>1. index = playlist /\ UNCHANGED <<index, playlist>>
    BY <1>0, <1>3 DEF IndexClose
  <2>2. complete \/ \E s \in Task : writes[s]
    BY <1>0, <1>3 DEF IndexClose
  <2>3. CASE complete \/ writes[t]
    BY <1>3, <2>1, <2>3 DEF IndexClose
  <2>4. CASE ~complete /\ ~writes[t]
    BY <1>3, <2>1, <2>2, <2>4 DEF IndexClose
  <2> QED
    BY <2>3, <2>4
<1>4. CASE InitPlaylist(t)
  BY <1>0, <1>4 DEF InitPlaylist
<1> QED
  BY <1>1, <1>2, <1>3, <1>4 DEF Index

LEMMA BootIndex ==
  ASSUME IndexMatches, Boot
  PROVE  IndexMatches'
BY DEF IndexMatches, Boot

LEMMA ServeIndex ==
  ASSUME TypeOK, IndexMatches, NEW t \in Server, Pass(t)
  PROVE  IndexMatches'
<1> USE DEF IndexMatches, lists, indexing, web, Goto
<1>0. t # "async"
  BY DEF Server
<1>1. CASE \/ ServeNothing(t) \/ ServeSaved(t) \/ ServeOther(t) \/ NoFile(t) \/ ImportCsv(t)
           \/ ImportBad(t) \/ Announce(t) \/ Done(t) \/ RemoveNetworks(t)
  <2>1. UNCHANGED <<index, complete, writes, spoilt, playlist, crossed>>
    BY <1>1, Zenon DEF ServeNothing, ServeSaved, ServeOther, NoFile, ImportCsv, ImportBad, Announce,
      Done, RemoveNetworks
  <2>2. pc'["async"] = pc["async"]
    BY <1>0, <1>1 DEF ServeNothing, ServeSaved, ServeOther, NoFile, ImportCsv, ImportBad, Announce,
      Done, RemoveNetworks, TypeOK, DataOK, Task
  <2> QED
    BY <2>1, <2>2
<1>2. CASE Check(t)
  BY <1>0, <1>2 DEF Check
<1>3. CASE Rename(t)
  BY <1>0, <1>3 DEF Rename
<1>4. CASE ImportJson(t) \/ Converted(t)
  BY <1>0, <1>4 DEF ImportJson, Converted
<1>5. CASE SaveNetworks(t)
  BY <1>5, BootIndex DEF SaveNetworks
<1> QED
  BY <1>1, <1>2, <1>3, <1>4, <1>5 DEF Pass, Serve, Import

\* An index there is was made from the list there is, unless uploads overlapped, the index
\* had two writers, or a restart cut it short.
THEOREM IndexMatchesHolds == Spec => []IndexMatches
<1>1. Init => IndexMatches
  BY DEF Init, IndexMatches
<1>2. TypeOK /\ Calm /\ IndexMatches /\ [Next]_vars => IndexMatches'
  <2> SUFFICES ASSUME TypeOK, Calm, IndexMatches, [Next]_vars PROVE IndexMatches'
    OBVIOUS
  <2>1. CASE UNCHANGED vars
    BY <2>1 DEF vars, lists, indexing, IndexMatches
  <2>2. CASE Restart
    BY <2>2, BootIndex DEF Restart
  <2>3. CASE RequestOnChange \/ Begin \/ ChangeMode
    BY <2>3 DEF RequestOnChange, Begin, ChangeMode, lists, indexing, IndexMatches
  <2>4. CASE DropIndex \/ ClearSpiffs
    BY <2>4 DEF DropIndex, ClearSpiffs, ForgetIndex, IndexMatches
  <2> QED
    BY <2>1, <2>2, <2>3, <2>4, HandleIndex, IndexIndex, ServeIndex DEF Next, Pass
<1> QED
  BY <1>1, <1>2, TypeCorrect, CalmAlways, PTL DEF Spec

-----------------------------------------------------------------------------
(* A list without an index is about to get one *)

\* Where a task is that will index the list, or will have it indexed.
AboutToIndex == {"converting", "post", "index", "listed", "init", "again", "relisted"}

Announced == \E i \in 1..Len(queue) : queue[i] = "PLAYLISTSAVED"

\* A task about to open the index has found a list.
ListOpened == \A t \in Task : pc[t] \in {"listed", "relisted"} => opened[t] # Absent

LEMMA ListOpenedAlways == Spec => []ListOpened
<1>1. Init => ListOpened
  BY DEF Init, ListOpened
<1>2. TypeOK /\ ListOpened /\ [Next]_vars => ListOpened'
  <2> SUFFICES ASSUME TypeOK, ListOpened, [Next]_vars PROVE ListOpened'
    OBVIOUS
  <2> USE DEF ListOpened, TypeOK, DataOK, Goto, lists, indexing, web
  <2>1. ASSUME NEW u \in Uploads, Handle(u) PROVE ListOpened'
    BY <2>1 DEF Handle, FirstBlock, FirstListBlock, FirstWifiBlock, OpenTemporary, LastBlock, Accept,
      FirstBoardBlock, LastBoardBlock, Abort
  <2>2. ASSUME NEW t \in Task, Index(t) PROVE ListOpened'
    BY <2>2 DEF Index, ListOpen, IndexOpen, IndexClose, InitPlaylist, AfterIndex
  <2>3. ASSUME NEW t \in Server, Serve(t) PROVE ListOpened'
    BY <2>3 DEF Serve, ServeNothing, ServeSaved, ServeOther, Server, Task
  <2>4. ASSUME NEW t \in Server, Import(t) PROVE ListOpened'
    <3>1. CASE Check(t)
      BY <3>1 DEF Check, NextImport, Server, Task
    <3>2. CASE SaveNetworks(t)
      BY <3>2 DEF SaveNetworks, Boot
    <3>3. CASE \/ NoFile(t) \/ ImportCsv(t) \/ ImportBad(t) \/ Rename(t) \/ ImportJson(t)
               \/ Converted(t) \/ Announce(t) \/ Done(t) \/ RemoveNetworks(t)
      BY <3>3 DEF NoFile, ImportCsv, ImportBad, Rename, ImportJson, Converted, Moved, Announce, Done,
        RemoveNetworks, Server, Task
    <3> QED
      BY <2>4, <3>1, <3>2, <3>3 DEF Import
  <2>5. CASE Restart
    BY <2>5 DEF Restart, Boot
  <2>6. CASE DropIndex \/ ClearSpiffs \/ RequestOnChange \/ Begin \/ ChangeMode \/ UNCHANGED vars
    BY <2>6 DEF DropIndex, ClearSpiffs, RequestOnChange, Begin, ChangeMode, vars
  <2> QED
    BY <2>1, <2>2, <2>3, <2>4, <2>5, <2>6 DEF Next
<1> QED
  BY <1>1, <1>2, TypeCorrect, PTL DEF Spec

LEMMA HandleNotice ==
  ASSUME TypeOK, Calm, NoticePending, NEW u \in Uploads, Handle(u)
  PROVE  NoticePending'
<1> SUFFICES ASSUME playlist' # Absent, index' = Absent, ~crossed', ~noticeLost'
             PROVE  \/ \E v \in Uploads : request'[v] = "list"
                    \/ Announced'
                    \/ \E t \in Task : pc'[t] \in AboutToIndex
  BY DEF NoticePending, Announced, AboutToIndex
<1> USE DEF TypeOK, DataOK, NoticePending, Announced, AboutToIndex, lists, indexing, web
<1>1. CASE FirstBlock(u)
  BY <1>1 DEF FirstBlock
<1>7. CASE FirstListBlock(u)
  <2>1. playlist = Absent
    BY <1>7 DEF FirstListBlock, Calm
  <2> QED
    BY <1>7, <2>1 DEF FirstListBlock, OpenTemporary
<1>8. CASE FirstWifiBlock(u)
  <2>1. request[u] = "new" /\ ~crossed
    BY <1>8, Zenon DEF FirstWifiBlock
  <2> QED
    BY <1>8, <2>1 DEF FirstWifiBlock, OpenTemporary
<1>2. CASE LastBlock(u)
  <2>1. ~crossed /\ kind[u] # "board"
    BY <1>2 DEF LastBlock
  <2>2. request[u] # "list"
    BY <2>1 DEF Calm
  <2> QED
    BY <1>2, <2>1, <2>2 DEF LastBlock
<1>3. CASE Accept(u)
  BY <1>3 DEF Accept
<1>4. CASE FirstBoardBlock(u)
  BY <1>4 DEF FirstBoardBlock
<1>5. CASE LastBoardBlock(u)
  BY <1>5 DEF LastBoardBlock, Goto, Task
<1>6. CASE Abort(u)
  <2>1. ~noticeLost /\ request[u] # "list"
    BY <1>6 DEF Abort
  <2> QED
    BY <1>6, <2>1 DEF Abort
<1> QED
  BY <1>1, <1>2, <1>3, <1>4, <1>5, <1>6, <1>7, <1>8 DEF Handle

LEMMA IndexNotice ==
  ASSUME TypeOK, ListOpened, NoticePending, NEW t \in Task, Index(t)
  PROVE  NoticePending'
<1> SUFFICES ASSUME playlist' # Absent, index' = Absent, ~crossed', ~noticeLost'
             PROVE  \/ \E v \in Uploads : request'[v] = "list"
                    \/ Announced'
                    \/ \E s \in Task : pc'[s] \in AboutToIndex
  BY DEF NoticePending, Announced, AboutToIndex
<1> USE DEF TypeOK, DataOK, NoticePending, Announced, AboutToIndex, lists, indexing, web
<1>1. CASE IndexOpen(t)
  BY <1>1 DEF IndexOpen, ListOpened
<1>4. CASE ListOpen(t)
  BY <1>4 DEF ListOpen, Goto
<1>2. CASE IndexClose(t)
  BY <1>2 DEF IndexClose, Goto
<1>3. CASE InitPlaylist(t)
  BY <1>3 DEF InitPlaylist, Goto
<1> QED
  BY <1>1, <1>2, <1>3, <1>4 DEF Index

LEMMA BootNotice ==
  ASSUME TypeOK, Boot
  PROVE  NoticePending'
BY DEF NoticePending, Boot, Task

LEMMA ServeNotice ==
  ASSUME TypeOK, NoticePending, NEW t \in Server, Pass(t)
  PROVE  NoticePending'
<1> SUFFICES ASSUME playlist' # Absent, index' = Absent, ~crossed', ~noticeLost'
             PROVE  \/ \E v \in Uploads : request'[v] = "list"
                    \/ Announced'
                    \/ \E s \in Task : pc'[s] \in AboutToIndex
  BY DEF NoticePending, Announced, AboutToIndex
<1> USE DEF TypeOK, DataOK, NoticePending, Announced, AboutToIndex, lists, indexing, web
<1>0. t \in Task
  BY DEF Server, Task
<1>1. CASE ServeNothing(t) \/ NoFile(t) \/ ImportCsv(t) \/ Done(t) \/ RemoveNetworks(t)
  BY <1>0, <1>1 DEF ServeNothing, Between, NoFile, ImportCsv, Done, RemoveNetworks, Goto
<1>2. CASE ServeSaved(t)
  BY <1>0, <1>2 DEF ServeSaved, Goto
<1>3. CASE ServeOther(t)
  <2>1. queue # <<>> /\ Head(queue) # "PLAYLISTSAVED" /\ UNCHANGED <<playlist, index, crossed, noticeLost, request>>
    BY <1>3 DEF ServeOther
  <2>2. \A s \in Task : pc[s] \in AboutToIndex => pc'[s] \in AboutToIndex
    BY <1>0, <1>3 DEF ServeOther, Between, Goto
  <2>3. ASSUME NEW i \in 1..Len(queue), queue[i] = "PLAYLISTSAVED" PROVE Announced'
    <3>1. i # 1
      BY <2>1, <2>3
    <3>2. i - 1 \in 1..Len(Tail(queue)) /\ Tail(queue)[i - 1] = "PLAYLISTSAVED"
      BY <2>1, <2>3, <3>1, TailType
    <3>3. i - 1 \in 1..Len(queue') /\ queue'[i - 1] = "PLAYLISTSAVED"
      BY <1>3, <2>1, <3>2, ServeOtherQueue, TailType
    <3> QED
      BY <3>3
  <2> QED
    BY <2>1, <2>2, <2>3
<1>4. CASE Check(t)
  <2>1. ~crossed
    BY <1>4 DEF Check
  <2> QED
    BY <1>0, <1>4, <2>1 DEF Check, Goto
<1>5. CASE ImportBad(t)
  BY <1>0, <1>5 DEF ImportBad, Goto, Renamed
<1>6. CASE Rename(t) \/ ImportJson(t) \/ Converted(t)
  BY <1>0, <1>6 DEF Rename, ImportJson, Converted, Goto, Moved
<1>7. CASE Announce(t)
  <2>1. queue' = Append(queue, "PLAYLISTSAVED")
    BY <1>7 DEF Announce, Post
  <2>2. Len(queue') \in 1..Len(queue') /\ queue'[Len(queue')] = "PLAYLISTSAVED"
    BY <2>1
  <2> QED
    BY <2>2
<1>8. CASE SaveNetworks(t)
  BY <1>8, BootNotice DEF SaveNetworks
<1> QED
  BY <1>1, <1>2, <1>3, <1>4, <1>5, <1>6, <1>7, <1>8 DEF Pass, Serve, Import

LEMMA RestNotice == TypeOK /\ Calm /\ NoticePending /\ Rest => NoticePending'
<1> SUFFICES ASSUME TypeOK, Calm, NoticePending, Rest PROVE NoticePending'
  OBVIOUS
<1> USE DEF TypeOK, DataOK, NoticePending, lists, indexing, web
<1>1. CASE Restart
  BY <1>1, BootNotice DEF Restart
<1>2. CASE DropIndex
  BY <1>2 DEF DropIndex, Calm
<1>3. CASE RequestOnChange
  <2>1. ASSUME NEW i \in 1..Len(queue) PROVE i \in 1..Len(queue') /\ queue'[i] = queue[i]
    BY <1>3, <2>1 DEF RequestOnChange
  <2> QED
    BY <1>3, <2>1 DEF RequestOnChange
<1>4. CASE Begin
  BY <1>4 DEF Begin
<1>5. CASE ChangeMode
  <2>1. UNCHANGED <<playlist, index, crossed, request, pc>>
        /\ (~noticeLost' => ~noticeLost /\ ~Announced)
    BY <1>5 DEF ChangeMode, Announced
  <2> QED
    BY <2>1 DEF Announced
<1>6. CASE ClearSpiffs
  <2>1. ~noticeLost' => ~noticeLost /\ index = Absent
    BY <1>6 DEF ClearSpiffs
  <2> QED
    BY <1>6, <2>1 DEF ClearSpiffs
<1> QED
  BY <1>1, <1>2, <1>3, <1>4, <1>5, <1>6 DEF Rest

\* A list without an index is being written, or its PLAYLISTSAVED is posted or about to be
\* posted, or a task is about to index it, unless uploads overlapped or the request was lost.
THEOREM NoticePendingHolds == Spec => []NoticePending
<1>1. Init => NoticePending
  BY DEF Init, NoticePending, Task
<1>2. TypeOK /\ Calm /\ ListOpened /\ NoticePending /\ [Next]_vars => NoticePending'
  <2> SUFFICES ASSUME TypeOK, Calm, ListOpened, NoticePending, [Next]_vars PROVE NoticePending'
    OBVIOUS
  <2>1. CASE UNCHANGED vars
    BY <2>1 DEF vars, lists, indexing, web, NoticePending
  <2>2. CASE Next
    BY <2>2, HandleNotice, IndexNotice, ServeNotice, RestNotice DEF Next, Rest, Pass
  <2> QED
    BY <2>1, <2>2
<1> QED
  BY <1>1, <1>2, TypeCorrect, CalmAlways, ListOpenedAlways, PTL DEF Spec

-----------------------------------------------------------------------------
(* An accepted list is imported *)

\* The places of an import by the request it serves.
OfList == {"import", "rename", "converting", "post"}
OfNetworks == {"wifi", "restart"}

\* While nothing has crossed: the old list is gone until the new one is in place, so
\* that the rename finds its file and a free name; what is converted is the file in
\* tmp; and tmp is empty before the slot is.
ImportKept ==
  /\ \A u \in Uploads : request[u] \in {"first", "tmp", "closed"} => kind[u] # "board"
  /\ ~crossed =>
       /\ \A u \in Uploads : UnderWay(u) /\ kind[u] \notin {"wifi", "board"} => playlist = Absent
       /\ importRequest = "IMPL" /\ playlist # Absent =>
            \E t \in Server : pc[t] \in {"converting", "post", "done"}
       /\ \A t \in Server :
            /\ pc[t] \in OfList => importRequest = "IMPL"
            /\ pc[t] \in OfNetworks => importRequest = "IMWIFI"
            /\ pc[t] = "rename" => tmp # Absent /\ playlist = Absent
            /\ pc[t] = "converting" => tmp # Absent /\ playlist = Part(tmp.of)
            /\ pc[t] \in {"post", "done"} => tmp = Absent

LEMMA Places ==
  /\ Importing = OfList \cup OfNetworks \cup {"done"}
  /\ Server \subseteq Task
BY DEF Importing, OfList, OfNetworks, Server, Task

LEMMA FileTypes ==
  /\ Absent \in File
  /\ \A u \in Uploads : Part(u) # Absent /\ Whole(u) # Absent
<1>1. \A u \in Uploads : Part(u) \in Content /\ Whole(u) \in Content
  BY Zenon DEF Content, Part, Whole
<1> QED
  BY <1>1, ImportAssumption DEF ImportAssumption, File

\* A step that neither begins nor ends an import, nor touches its files.
LEMMA ImportSame ==
  ASSUME ImportKept, UNCHANGED <<kind, playlist, tmp, request, importRequest>>,
         crossed => crossed',
         \A s \in Server : pc[s] \in Importing \/ pc'[s] \in Importing => pc'[s] = pc[s]
  PROVE  ImportKept'
<1> SUFFICES ASSUME ~crossed' PROVE ImportKept'
  BY DEF ImportKept
<1>1. \A s \in Server : pc[s] \in Importing \/ pc'[s] \in Importing => pc'[s] = pc[s]
  OBVIOUS
<1> QED
  BY <1>1, Places DEF ImportKept, UnderWay, OfList, OfNetworks

\* The state of the files while nothing is imported.
LEMMA ImportQuiet ==
  ASSUME \A u \in Uploads : request'[u] \in {"first", "tmp", "closed"} => kind'[u] # "board",
         ~crossed' =>
           /\ importRequest' = "IMDONE" /\ \A s \in Server : pc'[s] \notin Importing
           /\ \A u \in Uploads :
                UnderWay(u)' /\ kind'[u] \notin {"wifi", "board"} => playlist' = Absent
  PROVE  ImportKept'
<1> SUFFICES ASSUME ~crossed' PROVE ImportKept'
  BY DEF ImportKept
<1>1. \A s \in Server :
        pc'[s] \notin OfList \cup OfNetworks \cup {"rename", "converting", "post", "done"}
  BY Places DEF OfList
<1>2. importRequest' # "IMPL"
  OBVIOUS
<1> QED
  BY <1>1, <1>2 DEF ImportKept

LEMMA HandleImport ==
  ASSUME TypeOK, Calm, ImportKept, NEW u \in Uploads, Handle(u)
  PROVE  ImportKept'
<1> USE DEF TypeOK, DataOK, UnderWay, Open, lists, indexing, web
<1>1. CASE FirstBlock(u) \/ FirstWifiBlock(u) \/ FirstBoardBlock(u)
  <2>1. /\ \A v \in Uploads \ {u} : request'[v] \in {request[v], "gone"}
        /\ request'[u] # "list" => kind[u] # "board"
        /\ request'[u] \in {"first", "tmp", "list"}
        /\ UNCHANGED <<kind, importRequest>>
        /\ \A s \in Server : pc'[s] = pc[s]
    BY <1>1 DEF FirstBlock, FirstWifiBlock, OpenTemporary, FirstBoardBlock, Renamed,
      Goto, Server, Task
  <2>2. ASSUME ~crossed'
        PROVE  importRequest = "IMDONE" /\ ~crossed /\ \A v \in Uploads \ {u} : ~UnderWay(v)
    BY <1>1, <2>2, Zenon DEF FirstBlock, FirstWifiBlock, OpenTemporary, FirstBoardBlock, Busy
  <2>3. ASSUME ~crossed' PROVE \A s \in Server : pc[s] \notin Importing
    BY <2>2, <2>3 DEF Calm
  <2>4. kind[u] \notin {"wifi", "board"} => playlist' = Absent
    BY <1>1 DEF FirstBlock, FirstWifiBlock, OpenTemporary, FirstBoardBlock
  <2>5. ASSUME ~crossed' PROVE \A v \in Uploads \ {u} : request'[v] = request[v]
    <3>1. \A v \in Uploads \ {u} : request[v] \notin {"tmp", "list", "gone"}
      BY <2>2, <2>5
    <3> QED
      BY <1>1, <3>1 DEF FirstBlock, FirstWifiBlock, OpenTemporary, FirstBoardBlock, Renamed
  <2>6. \A v \in Uploads : request'[v] \in {"first", "tmp", "closed"} => kind'[v] # "board"
    BY <2>1 DEF ImportKept
  <2>7. ASSUME ~crossed', NEW v \in Uploads, UnderWay(v)', kind'[v] \notin {"wifi", "board"}
        PROVE  playlist' = Absent
    BY <2>1, <2>2, <2>4, <2>5, <2>7
  <2> HIDE DEF UnderWay
  <2> QED
    BY <2>1, <2>2, <2>3, <2>6, <2>7, ImportQuiet
<1>2. CASE LastBlock(u)
  <2>1. /\ \A v \in Uploads \ {u} : request'[v] = request[v]
        /\ request'[u] = "closed" /\ kind[u] # "board" /\ request[u] \in Open
        /\ UNCHANGED <<kind, importRequest, pc, crossed>>
        /\ request[u] # "list" => playlist' = playlist
    BY <1>2 DEF LastBlock
  <2>2. ASSUME ~crossed
        PROVE  request[u] # "list" /\ importRequest = "IMDONE"
    BY <2>1, <2>2 DEF Calm
  <2>3. ASSUME ~crossed PROVE \A s \in Server : pc[s] \notin Importing
    BY <2>2, <2>3 DEF Calm
  <2>4. \A v \in Uploads : request'[v] \in {"first", "tmp", "closed"} => kind'[v] # "board"
    BY <2>1 DEF ImportKept
  <2>5. ASSUME ~crossed', NEW v \in Uploads, UnderWay(v)', kind'[v] \notin {"wifi", "board"}
        PROVE  playlist' = Absent
    BY <2>1, <2>2, <2>5 DEF ImportKept
  <2> HIDE DEF UnderWay
  <2> QED
    BY <2>1, <2>2, <2>3, <2>4, <2>5, ImportQuiet
<1>3. CASE Accept(u)
  <2>1. /\ request[u] = "closed" /\ \A v \in Uploads \ {u} : request'[v] = request[v]
        /\ request'[u] = "accepted"
        /\ importRequest' = IF kind[u] = "wifi" THEN "IMWIFI" ELSE "IMPL"
        /\ UNCHANGED <<kind, playlist, tmp, pc, crossed>>
    BY <1>3 DEF Accept, AskImport
  <2>2. ASSUME ~crossed PROVE \A s \in Server : pc[s] \notin Importing
    BY <2>1, <2>2 DEF Calm
  <2>3. ASSUME ~crossed, importRequest' = "IMPL" PROVE playlist = Absent
    BY <2>1, <2>3 DEF ImportKept
  <2>4. ASSUME ~crossed
        PROVE  \A s \in Server :
                 pc[s] \notin OfList \cup OfNetworks \cup {"rename", "converting", "post", "done"}
    BY <2>2, <2>4, Places DEF OfList
  <2>5. \A v \in Uploads : request'[v] \in {"first", "tmp", "closed"} => kind'[v] # "board"
    BY <2>1 DEF ImportKept
  <2>6. ASSUME ~crossed', NEW v \in Uploads, UnderWay(v)', kind'[v] \notin {"wifi", "board"}
        PROVE  playlist' = Absent
    BY <2>1, <2>6 DEF ImportKept
  <2> QED
    BY <2>1, <2>3, <2>4, <2>5, <2>6 DEF ImportKept
<1>4. CASE LastBoardBlock(u)
  <2>1. /\ request[u] \in Open /\ \A v \in Uploads \ {u} : request'[v] = request[v]
        /\ request'[u] = "over" /\ UNCHANGED <<kind, tmp, importRequest, crossed>>
        /\ \A s \in Server : pc'[s] = pc[s]
    BY <1>4 DEF LastBoardBlock, Goto, Server, Task
  <2>2. ASSUME ~crossed
        PROVE  importRequest = "IMDONE" /\ \A v \in Uploads \ {u} : ~UnderWay(v)
    BY <2>1, <2>2 DEF Calm
  <2>3. ASSUME ~crossed PROVE \A s \in Server : pc[s] \notin Importing
    BY <2>2, <2>3 DEF Calm
  <2>4. \A v \in Uploads : request'[v] \in {"first", "tmp", "closed"} => kind'[v] # "board"
    BY <2>1 DEF ImportKept
  <2>5. ~crossed' => \A v \in Uploads : ~UnderWay(v)'
    BY <2>1, <2>2
  <2> HIDE DEF UnderWay
  <2> QED
    BY <2>1, <2>2, <2>3, <2>4, <2>5, ImportQuiet
<1>5. CASE Abort(u)
  <2>1. /\ \A v \in Uploads \ {u} : request'[v] = request[v]
        /\ request'[u] = "over"
        /\ UNCHANGED <<kind, playlist, tmp, importRequest, pc, crossed>>
    BY <1>5 DEF Abort
  <2> QED
    BY <2>1 DEF ImportKept
<1>6. CASE FirstListBlock(u)
  <2>1. /\ request[u] = "first" /\ request'[u] = "tmp"
        /\ \A v \in Uploads \ {u} : request'[v] = request[v]
        /\ \A s \in Server : pc'[s] = pc[s]
        /\ UNCHANGED <<kind, playlist, importRequest, crossed>>
    BY <1>6 DEF FirstListBlock, OpenTemporary, Goto, Server, Task
  <2>2. kind[u] # "board"
    BY <2>1 DEF ImportKept
  <2>3. \A v \in Uploads : request'[v] \in {"first", "tmp", "closed"} => kind'[v] # "board"
    BY <2>1, <2>2 DEF ImportKept
  <2>4. ASSUME ~crossed' PROVE importRequest' = "IMDONE" /\ \A s \in Server : pc'[s] \notin Importing
    BY <2>1, <2>4 DEF Calm
  <2>5. ASSUME ~crossed', NEW v \in Uploads, UnderWay(v)', kind'[v] \notin {"wifi", "board"}
        PROVE  playlist' = Absent
    BY <2>1, <2>5 DEF ImportKept
  <2> HIDE DEF UnderWay
  <2> QED
    BY <2>3, <2>4, <2>5, ImportQuiet
<1> QED
  BY <1>1, <1>2, <1>3, <1>4, <1>5, <1>6 DEF Handle

\* A task that indexes is in no import.
LEMMA IndexImport ==
  ASSUME TypeOK, ImportKept, NEW t \in Task, Index(t)
  PROVE  ImportKept'
BY IndexPlaces, ImportSame

\* A restart leaves no import and no upload.
LEMMA BootImport ==
  ASSUME TypeOK, Boot
  PROVE  ImportKept'
BY DEF TypeOK, DataOK, Boot, ImportKept, UnderWay, Open, OfList, OfNetworks, Server, Task

\* One task imports at a time, step by step.
LEMMA ServeImport ==
  ASSUME TypeOK, Calm, ImportKept, NEW t \in Server, Pass(t)
  PROVE  ImportKept'
<1> USE DEF TypeOK, DataOK, lists, indexing, web
<1>0. t \in Task
  BY Places
<1>1. CASE ServeNothing(t) \/ ServeSaved(t) \/ ServeOther(t)
  <2>1. \A s \in Server : pc[s] \in Importing \/ pc'[s] \in Importing => pc'[s] = pc[s]
    BY <1>0, <1>1 DEF ServeNothing, ServeSaved, ServeOther, Between, Goto, Importing, Server, Task
  <2>2. UNCHANGED <<kind, playlist, tmp, request, importRequest, crossed>>
    BY <1>1 DEF ServeNothing, ServeSaved, ServeOther
  <2> QED
    BY <2>1, <2>2, ImportSame
<1>2. CASE SaveNetworks(t)
  BY <1>2, BootImport DEF SaveNetworks
<1>3. CASE Check(t)
  <2>1. /\ pc[t] = "check" /\ \A s \in Server \ {t} : pc'[s] = pc[s]
        /\ pc'[t] = NextImport /\ (crossed => crossed')
        /\ UNCHANGED <<kind, playlist, tmp, request, importRequest>>
    BY <1>0, <1>3, Places, Zenon DEF Check, Goto
  <2>2. /\ pc'[t] \in {"import", "wifi", "idle"}
        /\ pc'[t] = "import" => importRequest = "IMPL"
        /\ pc'[t] = "wifi" => importRequest = "IMWIFI"
    <3>1. CASE importRequest = "IMPL"
      BY <2>1, <3>1 DEF NextImport
    <3>2. CASE importRequest = "IMWIFI"
      BY <2>1, <3>2 DEF NextImport
    <3>3. CASE importRequest = "IMDONE"
      BY <2>1, <3>3 DEF NextImport
    <3> QED
      BY <3>1, <3>2, <3>3
  <2>3. ASSUME ~crossed', importRequest = "IMPL", playlist # Absent
        PROVE  \E s \in Server : pc'[s] \in {"converting", "post", "done"}
    BY <2>1, <2>3 DEF ImportKept
  <2>4. ASSUME NEW s \in Server, ~crossed'
        PROVE  /\ pc'[s] \in OfList => importRequest = "IMPL"
               /\ pc'[s] \in OfNetworks => importRequest = "IMWIFI"
               /\ pc'[s] = "rename" => tmp # Absent /\ playlist = Absent
               /\ pc'[s] = "converting" => tmp # Absent /\ playlist = Part(tmp.of)
               /\ pc'[s] \in {"post", "done"} => tmp = Absent
    <3>1. CASE s = t
      BY <2>1, <2>2, <3>1 DEF OfList, OfNetworks
    <3>2. CASE s # t
      BY <2>1, <2>4, <3>2 DEF ImportKept
    <3> QED
      BY <3>1, <3>2
  <2> QED
    BY <2>1, <2>3, <2>4 DEF ImportKept, UnderWay
<1>4. CASE \/ NoFile(t) \/ ImportCsv(t) \/ ImportBad(t) \/ Rename(t) \/ ImportJson(t)
           \/ Converted(t) \/ Announce(t) \/ Done(t) \/ RemoveNetworks(t)
  <2>1. /\ pc[t] \in Importing /\ \A s \in Server \ {t} : pc'[s] = pc[s]
        /\ UNCHANGED <<kind, crossed>>
    BY <1>0, <1>4, Places DEF NoFile, ImportCsv, ImportBad, Rename, ImportJson, Converted,
      Announce, Done, RemoveNetworks, Goto, Importing
  <2>2. \A u \in Uploads :
          request'[u] \in {"first", "tmp", "closed"} => request[u] \in {"first", "tmp", "closed"}
    BY <1>4 DEF NoFile, ImportCsv, ImportBad, Rename, ImportJson, Converted,
      Announce, Done, RemoveNetworks, Renamed
  <2>3. CASE crossed
    BY <2>1, <2>2, <2>3 DEF ImportKept
  <2>4. CASE ~crossed
    <3>1. /\ \A s \in Server \ {t} : pc'[s] = pc[s] /\ pc[s] \notin Importing
          /\ importRequest # "IMDONE"
      BY <2>1, <2>4 DEF Calm
    <3>2. \A u \in Uploads : ~UnderWay(u)
      BY <3>1, <2>4 DEF Calm
    <3>3. request' = request
      BY <1>4, <3>2, NobodyMoved DEF NoFile, ImportCsv, ImportBad, Rename, ImportJson, Converted,
        Announce, Done, RemoveNetworks
    <3> DEFINE Here(p) ==
          /\ p \in OfList => importRequest' = "IMPL"
          /\ p \in OfNetworks => importRequest' = "IMWIFI"
          /\ p = "rename" => tmp' # Absent /\ playlist' = Absent
          /\ p = "converting" => tmp' # Absent /\ playlist' = Part(tmp'.of)
          /\ p \in {"post", "done"} => tmp' = Absent
          /\ importRequest' = "IMPL" /\ playlist' # Absent => p \in {"converting", "post", "done"}
    <3>4. /\ pc[t] \in OfList => importRequest = "IMPL"
          /\ pc[t] \in OfNetworks => importRequest = "IMWIFI"
          /\ pc[t] = "rename" => tmp # Absent /\ playlist = Absent
          /\ pc[t] = "converting" => tmp # Absent /\ playlist = Part(tmp.of)
          /\ pc[t] \in {"post", "done"} => tmp = Absent
      BY <2>4 DEF ImportKept
    <3>5. /\ importRequest = "IMPL" /\ playlist # Absent =>
               pc[t] \in {"converting", "post", "done"}
          /\ pc[t] \in Importing
      <4>1. ASSUME NEW s \in Server, pc[s] \in {"converting", "post", "done"} PROVE s = t
        BY <3>1, <4>1, Places DEF OfList
      <4> QED
        BY <2>1, <2>4, <4>1 DEF ImportKept
    <3>6. \E p \in {"rename", "converting", "post", "done", "restart", "idle"} :
            pc'[t] = p /\ Here(p)
      <4> USE <1>0, <3>4, <3>5 DEF OfList, OfNetworks, Goto
      <4>1. CASE NoFile(t)
        BY <4>1 DEF NoFile
      <4>2. CASE ImportCsv(t)
        BY <4>2 DEF ImportCsv
      <4>3. CASE ImportBad(t)
        BY <4>3 DEF ImportBad
      <4>4. CASE Rename(t)
        BY <4>4 DEF Rename, Moved
      <4>5. CASE ImportJson(t)
        BY <4>5 DEF ImportJson
      <4>6. CASE Converted(t)
        BY <4>6 DEF Converted, Moved
      <4>7. CASE Announce(t)
        BY <4>7 DEF Announce
      <4>8. CASE Done(t)
        BY <4>8 DEF Done
      <4>9. CASE RemoveNetworks(t)
        BY <4>9 DEF RemoveNetworks
      <4> QED
        BY <1>4, <4>1, <4>2, <4>3, <4>4, <4>5, <4>6, <4>7, <4>8, <4>9
    <3>7. Here(pc'[t])
      BY <3>6
    <3>8. \A s \in Server \ {t} :
            pc'[s] \notin OfList \cup OfNetworks \cup {"done"}
      BY <3>1, Places
    <3>9. \A u \in Uploads : ~UnderWay(u)'
      BY <3>2, <3>3 DEF UnderWay
    <3>10. \A s \in Server :
             /\ pc'[s] \in OfList => importRequest' = "IMPL"
             /\ pc'[s] \in OfNetworks => importRequest' = "IMWIFI"
             /\ pc'[s] = "rename" => tmp' # Absent /\ playlist' = Absent
             /\ pc'[s] = "converting" => tmp' # Absent /\ playlist' = Part(tmp'.of)
             /\ pc'[s] \in {"post", "done"} => tmp' = Absent
      <4> TAKE s \in Server
      <4>1. CASE s = t
        BY <3>7, <4>1
      <4>2. CASE s # t
        BY <3>8, <4>2 DEF OfList
      <4> QED
        BY <4>1, <4>2
    <3> QED
      BY <2>1, <2>2, <3>7, <3>9, <3>10 DEF ImportKept
  <2> QED
    BY <2>3, <2>4
<1> QED
  BY <1>1, <1>2, <1>3, <1>4 DEF Pass, Serve, Import

LEMMA RestImport == TypeOK /\ ImportKept /\ Rest => ImportKept'
<1> SUFFICES ASSUME TypeOK, ImportKept, Rest PROVE ImportKept'
  OBVIOUS
<1>1. CASE Restart
  BY <1>1, BootImport DEF Restart
<1>2. CASE DropIndex
  BY <1>2, ImportSame DEF DropIndex, Goto, Server, Task, web, lists, TypeOK, DataOK
<1>3. CASE ClearSpiffs \/ RequestOnChange \/ Begin \/ ChangeMode
  BY <1>3, ImportSame DEF ClearSpiffs, RequestOnChange, Begin, ChangeMode, web, lists
<1> QED
  BY <1>1, <1>2, <1>3 DEF Rest

LEMMA ImportAlways == Spec => []ImportKept
<1>1. Init => ImportKept
  BY DEF Init, ImportKept, UnderWay, Open, OfList, OfNetworks, Server, Task
<1>2. TypeOK /\ Calm /\ ImportKept /\ [Next]_vars => ImportKept'
  <2> SUFFICES ASSUME TypeOK, Calm, ImportKept, [Next]_vars PROVE ImportKept'
    OBVIOUS
  <2>1. CASE UNCHANGED vars
    BY <2>1, ImportSame DEF vars, lists, web
  <2>2. CASE Next
    BY <2>2, HandleImport, IndexImport, ServeImport, RestImport DEF Next, Rest, Pass
  <2> QED
    BY <2>1, <2>2
<1> QED
  BY <1>1, <1>2, TypeCorrect, CalmAlways, PTL DEF Spec

\* A part that gets its last line is whole.
LEMMA Completed ==
  ASSUME NEW u \in Uploads
  PROVE  Part(u).of = u /\ [Part(u) EXCEPT !.whole = TRUE] = Whole(u)
<1> DEFINE Contents == [of : Uploads \cup {Original}, whole : BOOLEAN]
           p == Part(u)
           q == [p EXCEPT !.whole = TRUE]
<1>1. p \in Contents /\ p.of = u
  BY DEF Part
<1> HIDE DEF p
<1>2. q \in Contents /\ q.of = u /\ q.whole = TRUE
  BY <1>1
<1> HIDE DEF q
<1>3. q = [of |-> q.of, whole |-> q.whole]
  BY <1>2
<1> QED
  BY <1>1, <1>2, <1>3 DEF p, q, Whole

\* What becomes of one accepted list in one step.
LEMMA AcceptedStep ==
  ASSUME TypeOK, Calm, ImportKept, [Next]_vars, NEW u \in Uploads, ToImport(u)
  PROVE  ToImport(u)' \/ Settled(u)'
<1> SUFFICES ASSUME ~crossed', request'[u] # "over"
             PROVE  ToImport(u)' \/ playlist' = Whole(u)
  BY DEF Settled
<1> USE DEF TypeOK, DataOK, lists, indexing, web
<1>1. /\ request[u] = "accepted" /\ importRequest = "IMPL" /\ tmp = Whole(u)
      /\ kind[u] \in {"csv", "json"} /\ tmp # Absent /\ tmp.of = u
  BY FileTypes DEF ToImport, Whole
<1>2. ASSUME UNCHANGED <<kind, tmp, importRequest>>, request'[u] = request[u]
      PROVE  ToImport(u)'
  BY <1>1, <1>2 DEF ToImport
<1>3. ASSUME NEW v \in Uploads, Handle(v) PROVE ToImport(u)'
  <2>1. ~crossed /\ ~(FirstBlock(v) \/ FirstWifiBlock(v) \/ FirstBoardBlock(v))
    <3>1. Busy(v)
      BY <1>1 DEF Busy
    <3>2. ~FirstBlock(v)
      BY <3>1, Zenon DEF FirstBlock
    <3>3. ~FirstBoardBlock(v)
      BY <3>1, Zenon DEF FirstBoardBlock
    <3>5. ~FirstWifiBlock(v)
      BY <3>1, Zenon DEF FirstWifiBlock
    <3>4. FirstListBlock(v) \/ LastBlock(v) \/ Accept(v) \/ LastBoardBlock(v) \/ Abort(v) => crossed' = crossed
      BY Zenon DEF FirstListBlock, LastBlock, Accept, LastBoardBlock, Abort
    <3> QED
      BY <1>3, <3>2, <3>3, <3>4, <3>5 DEF Handle
  <2>2. ~UnderWay(v)
    BY <1>1, <2>1 DEF Calm
  <2>3. FALSE
    BY <1>3, <2>1, <2>2 DEF Handle, FirstListBlock, LastBlock, Accept, LastBoardBlock, Abort, UnderWay, Open
  <2> QED
    BY <2>3
<1>4. ASSUME NEW t \in Task, Index(t) PROVE ToImport(u)'
  BY <1>2, <1>4, IndexPlaces
<1>5. ASSUME NEW t \in Server, Pass(t) PROVE ToImport(u)' \/ playlist' = Whole(u)
  <2>1. CASE \/ ServeNothing(t) \/ ServeSaved(t) \/ ServeOther(t) \/ Check(t) \/ ImportCsv(t)
             \/ ImportJson(t) \/ Announce(t)
    BY <1>2, <2>1 DEF ServeNothing, ServeSaved, ServeOther, Check, ImportCsv, ImportJson, Announce
  <2>2. CASE NoFile(t)
    BY <1>1, <2>2 DEF NoFile
  <2>3. ASSUME ~crossed
        PROVE  /\ pc[t] \in OfNetworks => importRequest = "IMWIFI"
               /\ pc[t] = "rename" => playlist = Absent
               /\ pc[t] = "converting" => playlist = Part(tmp.of)
               /\ pc[t] = "done" => tmp = Absent
    BY <2>3 DEF ImportKept
  <2>4. CASE ImportBad(t)
    <3>1. FirstLine(tmp) = {kind[u]}
      BY <1>1 DEF FirstLine, Whole
    <3> QED
      BY <1>1, <2>4, <3>1 DEF ImportBad
  <2>5. CASE Rename(t)
    BY <1>1, <2>3, <2>5 DEF Rename
  <2>6. CASE Converted(t)
    <3>1. playlist = Part(u) /\ Part(u) # Absent
      BY <1>1, <2>3, <2>6, FileTypes DEF Converted
    <3>3. playlist' = [playlist EXCEPT !.whole = (tmp = Whole(playlist.of))]
      BY <2>6, <3>1 DEF Converted
    <3> QED
      BY <1>1, <3>1, <3>3, Completed
  <2>7. CASE Done(t)
    BY <1>1, <2>3, <2>7 DEF Done
  <2>8. CASE RemoveNetworks(t)
    BY <1>1, <2>3, <2>8 DEF RemoveNetworks, OfNetworks
  <2>9. CASE SaveNetworks(t)
    BY <1>1, <2>9 DEF SaveNetworks, Boot
  <2> QED
    BY <1>5, <2>1, <2>2, <2>4, <2>5, <2>6, <2>7, <2>8, <2>9 DEF Pass, Serve, Import
<1>6. CASE Restart
  BY <1>1, <1>6 DEF Restart, Boot
<1>7. CASE DropIndex \/ ClearSpiffs \/ RequestOnChange \/ Begin \/ ChangeMode \/ UNCHANGED vars
  BY <1>2, <1>7 DEF DropIndex, ClearSpiffs, RequestOnChange, Begin, ChangeMode, vars
<1> QED
  BY <1>3, <1>4, <1>5, <1>6, <1>7 DEF Next, Pass

\* However the three tasks interleave, a list answered with 200 stays where the import
\* looks for it, with the slot asking for it, until it is installed whole; only another
\* upload or a restart can prevent that.
THEOREM AcceptedIsKept == Spec => AcceptedKept
<1> DEFINE Step == \A u \in Uploads : ToImport(u) => ToImport(u)' \/ Settled(u)'
<1>1. TypeOK /\ Calm /\ ImportKept /\ [Next]_vars => Step
  BY AcceptedStep
<1>2. Spec => [][Step]_vars
  BY <1>1, TypeCorrect, CalmAlways, ImportAlways, PTL DEF Spec
<1> QED
  BY <1>2 DEF AcceptedKept
=============================================================================
