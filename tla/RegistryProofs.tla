---------------------------- MODULE RegistryProofs ----------------------------
(***************************************************************************)
(* Proofs about Registry, for any number of requests and any process lists. *)
(*                                                                         *)
(* BinaryNeverAhead is not inductive: a file is written from what a request *)
(* holds, not from the row.  What carries it is that a request that has     *)
(* come as far as the files holds a configuration the row has had, unless   *)
(* the row is gone - and a row that is gone never comes back.              *)
(*                                                                         *)
(* The second part has the promises that hold of an agent's registration   *)
(* when its requests come one after another and nothing fails.             *)
(***************************************************************************)
EXTENDS Registry, TLAPS

Generating == {"mkdir", "write", "fill"}

\* Nothing exists of an agent that was never created.
NothingBefore ==
  ~created => /\ row = NoRow
              /\ \A h \in Handler : pc[h] # "store" /\ pc[h] \notin Generating
              /\ \A a \in Arch : names[a] = NoFile

\* As long as the row exists, requests and files hold what it has held.
HeldByRow ==
  row # NoRow =>
    /\ \A h \in Handler : pc[h] \in Generating => req[h].config \in stored
    /\ \A a \in Arch : names[a] # NoFile => FileOf(a).config \in stored

\* Request g is not set back to where it would need a configuration.
MovesOn(g) == /\ pc'[g] \in Generating => pc[g] \in Generating
              /\ pc'[g] = "store" => pc[g] = "store"

IInv == TypeOK /\ NothingBefore /\ HeldByRow

(* generateBinaries writes for the two architectures only.                 *)
LEMMA NextArchInArch == ASSUME NEW h PROVE NextArch(h) \in Arch
  BY DEF NextArch, Arch

(* Reaching the end of a file changes three fields of the request, within  *)
(* their types.                                                            *)
LEMMA WrittenType ==
  ASSUME TypeOK, NEW h \in Handler, NEW ok \in BOOLEAN, Written(h, ok)
  PROVE  /\ req' \in [Handler -> Request]
         /\ \A g \in Handler : req'[g].config = req[g].config
<1> DEFINE new == [req[h] EXCEPT !.todo = @ \ {NextArch(h)},
                                 !.written = IF ok THEN @ \cup {NextArch(h)} ELSE @,
                                 !.inode = h]
<1>1. req[h] \in Request /\ NextArch(h) \in Arch
  BY NextArchInArch DEF TypeOK
<1>2. new \in Request /\ new.config = req[h].config
  BY <1>1 DEF Request
<1>3. req' = [req EXCEPT ![h] = new]
  BY DEF Written
<1> QED BY <1>2, <1>3 DEF TypeOK

(* A named file, and the file a request has opened, are files.             *)
LEMMA FileTypes ==
  ASSUME TypeOK
  PROVE  /\ \A a \in Arch : names[a] # NoFile => names[a] \in Handler /\ FileOf(a) \in File
         /\ \A h \in Handler : NextArch(h) \in Arch /\ req[h].inode \in Handler
                               /\ Opened(h) \in File
BY NextArchInArch DEF TypeOK, FileOf, Opened, Request, Files

(* Writing one file leaves the others.                                     *)
LEMMA OneFile ==
  ASSUME TypeOK, NEW a \in Arch, NEW i \in Handler, NEW new \in File,
         files' = [files EXCEPT ![a][i] = new]
  PROVE  /\ files' \in Files
         /\ \A b \in Arch, g \in Handler :
              files'[b][g] = IF b = a /\ g = i THEN new ELSE files[b][g]
<1> DEFINE ofA == [files[a] EXCEPT ![i] = new]
<1>1. files[a] \in [Handler -> File]
  BY DEF TypeOK, Files
<1>2. /\ ofA \in [Handler -> File] /\ ofA[i] = new
      /\ \A g \in Handler \ {i} : ofA[g] = files[a][g]
  BY <1>1
<1>3. files' = [files EXCEPT ![a] = ofA]
  OBVIOUS
<1> HIDE DEF ofA
<1> QED BY <1>2, <1>3 DEF TypeOK, Files

(* What opening, filling and failing leave in the file.                    *)
LEMMA OpenFileType ==
  ASSUME TypeOK, NEW h \in Handler, OpenFile(h)
  PROVE  LET a == NextArch(h)
             i == Inode(h, a)
         IN /\ a \in Arch /\ i \in Handler /\ i # NoFile
            /\ Truncated(h, a) \in File /\ Truncated(h, a).content = "empty"
            /\ names[a] # NoFile => Truncated(h, a).config = FileOf(a).config
            /\ names[a] = NoFile => Truncated(h, a).config = req[h].config
            /\ names' = [names EXCEPT ![a] = i]
            /\ files' = [files EXCEPT ![a][i] = Truncated(h, a)]
            /\ req' = [req EXCEPT ![h].inode = i]
<1> DEFINE a == NextArch(h)
           i == Inode(h, a)
<1>1. a \in Arch
  BY NextArchInArch
<1>2. i \in Handler /\ i # NoFile
  BY <1>1, NothingAssumption DEF Inode, TypeOK
<1>3. CASE names[a] = NoFile
  <2>1. req[h].config \in Config
    BY DEF TypeOK, Request
  <2>2. Truncated(h, a) = [content |-> "empty", config |-> req[h].config]
    BY <1>3 DEF Truncated
  <2> QED BY <1>1, <1>2, <1>3, <2>1, <2>2 DEF OpenFile, File, Content
<1>4. CASE names[a] # NoFile
  <2>1. FileOf(a) \in File
    BY <1>1, <1>4, FileTypes
  <2>2. Truncated(h, a) = [FileOf(a) EXCEPT !.content = "empty"]
    BY <1>4 DEF Truncated
  <2> QED BY <1>1, <1>2, <1>4, <2>1, <2>2 DEF OpenFile, File, Content
<1> QED BY <1>3, <1>4

(* A request fills the file it has opened with what it holds.              *)
LEMMA FillFileType ==
  ASSUME TypeOK, NEW h \in Handler, FillFile(h)
  PROVE  \E content \in Overwritten(h) :
           /\ content \in Content
           /\ [content |-> content, config |-> req[h].config] \in File
           /\ files' = [files EXCEPT ![NextArch(h)][req[h].inode] =
                          [content |-> content, config |-> req[h].config]]
<1>1. PICK content \in Overwritten(h) :
        files' = [files EXCEPT ![NextArch(h)][req[h].inode] =
                    [content |-> content, config |-> req[h].config]]
  BY DEF FillFile
<1>2. content \in Content
  BY FileTypes DEF Overwritten, Content, File
<1>3. req[h].config \in Config
  BY DEF TypeOK, Request
<1> QED BY <1>1, <1>2, <1>3 DEF File

(* A failing write leaves the files, or a mixture in the one it opened.    *)
LEMMA FileFailsType ==
  ASSUME TypeOK, NEW h \in Handler, FileFails(h)
  PROVE  \/ UNCHANGED files
         \/ /\ [Opened(h) EXCEPT !.content = "mixed"] \in File
            /\ [Opened(h) EXCEPT !.content = "mixed"].config = Opened(h).config
            /\ files' = [files EXCEPT ![NextArch(h)][req[h].inode] =
                           [Opened(h) EXCEPT !.content = "mixed"]]
BY FileTypes DEF FileFails, File, Content

(* Reading on changes what a download has, within its type.                *)
LEMMA ReadsType ==
  ASSUME TypeOK, NEW h \in Handler, DownloadReads(h)
  PROVE  \E new \in Request :
           /\ req' = [req EXCEPT ![h] = new]
           /\ new.data \in ReadOn(h) /\ new.config = Opened(h).config
           /\ new.todo = req[h].todo /\ new.written = req[h].written
           /\ new.inode = req[h].inode
<1>1. PICK data \in ReadOn(h) :
        req' = [req EXCEPT ![h] = [req[h] EXCEPT !.data = data, !.config = Opened(h).config]]
  BY Zenon DEF DownloadReads
<1> DEFINE new == [req[h] EXCEPT !.data = data, !.config = Opened(h).config]
<1>2. data \in Content
  BY DEF ReadOn
<1>3. Opened(h).config \in Config /\ req[h] \in Request
  BY FileTypes DEF TypeOK, File
<1>4. new \in Request /\ new.data = data /\ new.config = Opened(h).config
      /\ new.todo = req[h].todo /\ new.written = req[h].written /\ new.inode = req[h].inode
  BY <1>2, <1>3 DEF Request
<1> QED BY <1>1, <1>4

\* A step of a download.
Downloading(h) ==
  \/ \E a \in Arch : DownloadLooksUp(h, a)
  \/ DownloadOpens(h)
  \/ DownloadFails(h)
  \/ DownloadReads(h)
  \/ DownloadSends(h)

(* It changes nothing but the request.                                     *)
LEMMA DownloadStep ==
  ASSUME TypeOK, NEW h \in Handler, Downloading(h)
  PROVE  /\ UNCHANGED <<row, created, dir, names, files>>
         /\ UNCHANGED <<stored, failed, crossed, asked, rewritten>>
         /\ pc[h] \in {"idle", "open", "read"} /\ pc'[h] \in {"open", "read", "done"}
         /\ \A g \in Handler \ {h} : pc'[g] = pc[g] /\ req'[g] = req[g]
<1>1. ASSUME NEW a \in Arch, DownloadLooksUp(h, a)
      PROVE  /\ Goto(h, "idle", "open") /\ UNCHANGED <<row, created, disk, history>>
             /\ \A g \in Handler \ {h} : req'[g] = req[g]
  BY <1>1 DEF DownloadLooksUp, TypeOK
<1>2. ASSUME DownloadOpens(h)
      PROVE  /\ Goto(h, "open", "read") /\ UNCHANGED <<row, created, disk, history>>
             /\ \A g \in Handler \ {h} : req'[g] = req[g]
  BY <1>2 DEF DownloadOpens, TypeOK
<1>3. ASSUME DownloadFails(h)
      PROVE  /\ Goto(h, "open", "done") \/ Goto(h, "read", "done")
             /\ UNCHANGED <<row, created, disk, history>>
             /\ \A g \in Handler \ {h} : req'[g] = req[g]
  BY <1>3 DEF DownloadFails, TypeOK
<1>4. ASSUME DownloadReads(h)
      PROVE  /\ Goto(h, "read", "read") /\ UNCHANGED <<row, created, disk, history>>
             /\ \A g \in Handler \ {h} : req'[g] = req[g]
  <2>1. \A g \in Handler \ {h} : req'[g] = req[g]
    BY <1>4, ReadsType DEF TypeOK
  <2> QED BY <1>4, <2>1 DEF DownloadReads
<1>5. ASSUME DownloadSends(h)
      PROVE  /\ Goto(h, "read", "done") /\ UNCHANGED <<row, created, disk, history>>
             /\ \A g \in Handler \ {h} : req'[g] = req[g]
  BY <1>5 DEF DownloadSends, TypeOK
<1>6. /\ \/ Goto(h, "idle", "open") \/ Goto(h, "open", "read") \/ Goto(h, "open", "done")
         \/ Goto(h, "read", "read") \/ Goto(h, "read", "done")
      /\ UNCHANGED <<row, created, disk, history>>
      /\ \A g \in Handler \ {h} : req'[g] = req[g]
  BY <1>1, <1>2, <1>3, <1>4, <1>5 DEF Downloading
<1>7. UNCHANGED <<row, created, dir, names, files>>
      /\ UNCHANGED <<stored, failed, crossed, asked, rewritten>>
  BY <1>6 DEF disk, history
<1> QED BY <1>6, <1>7 DEF Goto, TypeOK

(* Before the agent exists there is nothing to hold.                       *)
LEMMA InitInv == Init => IInv
<1> SUFFICES ASSUME Init PROVE IInv
  OBVIOUS
<1>1. TypeOK
  <2>1. PICK p \in Processes :
          LET none == [processes |-> p, trackOS |-> TRUE] IN
          /\ files = [a \in Arch |-> [h \in Handler |-> [content |-> "empty", config |-> none]]]
          /\ req = [h \in Handler |-> [config |-> none, todo |-> {}, written |-> {},
                                       inode |-> h, data |-> "nothing"]]
    BY DEF Init
  <2>2. [processes |-> p, trackOS |-> TRUE] \in Config
    BY DEF Config
  <2>3. files \in Files /\ req \in [Handler -> Request]
    BY <2>1, <2>2 DEF Request, Files, File, Content
  <2>4. names \in [Arch -> Handler \cup {NoFile}] /\ \A a \in Arch : names[a] = NoFile
    BY DEF Init
  <2> QED BY <2>3, <2>4 DEF Init, TypeOK
<1>2. NothingBefore /\ HeldByRow
  BY DEF Init, NothingBefore, HeldByRow, Generating
<1> QED BY <1>1, <1>2 DEF IInv

(* No step takes a variable out of its type, nor leaves a file without its *)
(* directory.                                                              *)
LEMMA TypeStep == TypeOK /\ [Next]_vars => TypeOK'
<1> USE EmbeddedAssumption
<1> SUFFICES ASSUME TypeOK, [Next]_vars PROVE TypeOK'
  OBVIOUS
<1>1. ASSUME NEW h \in Handler, NEW config \in Config, Create(h, config)
      PROVE  TypeOK'
  BY <1>1 DEF TypeOK, Create, Goto, Begin, Row, Request, Changing, Reading, Config, disk
<1>2. ASSUME NEW h \in Handler, NEW config \in Config, NEW without \in BOOLEAN,
             UpdateReads(h, config, without)
      PROVE  TypeOK'
  <2> DEFINE written == IF without THEN [config EXCEPT !.trackOS = row.config.trackOS]
                        ELSE config
  <2>1. row \in Row
    BY <1>2 DEF TypeOK, UpdateReads, AgentByID
  <2>2. written \in Config
    BY <2>1 DEF Row, Config
  <2>3. req' = [req EXCEPT ![h].config = written]
    BY <1>2 DEF UpdateReads
  <2>4. req' \in [Handler -> Request]
    BY <2>2, <2>3 DEF TypeOK, Request
  <2>5. asked' \in BOOLEAN /\ crossed' \in BOOLEAN
    BY <1>2 DEF TypeOK, UpdateReads, Begin, Config
  <2>6. pc' \in [Handler -> {"idle", "done"} \cup Changing \cup Reading]
    BY <1>2 DEF TypeOK, UpdateReads, Goto, Changing, Reading
  <2> QED BY <1>2, <2>4, <2>5, <2>6 DEF TypeOK, UpdateReads, disk
<1>3. ASSUME NEW h \in Handler, Reject(h) PROVE TypeOK'
  BY <1>3 DEF TypeOK, Reject, Goto, history, disk
<1>4. ASSUME NEW h \in Handler, UpdateStores(h) PROVE TypeOK'
  <2>1. req[h].config \in Config
    BY DEF TypeOK, Request
  <2>2. row' \in Row \cup {NoRow} /\ stored' \subseteq Config
    BY <1>4, <2>1 DEF TypeOK, UpdateStores, Row
  <2> QED BY <1>4, <2>2 DEF TypeOK, UpdateStores, Goto, Changing, Reading, disk
<1>5. ASSUME NEW h \in Handler, MakeDir(h) PROVE TypeOK'
  BY <1>5 DEF TypeOK, MakeDir, Goto, Request, Changing, Reading, history
<1>6. ASSUME NEW h \in Handler, OpenFile(h) PROVE TypeOK'
  <2> DEFINE a == NextArch(h)
             i == Inode(h, a)
  <2>1. /\ a \in Arch /\ i \in Handler /\ Truncated(h, a) \in File
        /\ names' = [names EXCEPT ![a] = i]
        /\ files' = [files EXCEPT ![a][i] = Truncated(h, a)]
        /\ req' = [req EXCEPT ![h].inode = i]
    BY <1>6, OpenFileType
  <2> HIDE DEF a, i
  <2>2. files' \in Files
    BY <2>1, OneFile
  <2>3. names' \in [Arch -> Handler \cup {NoFile}] /\ req' \in [Handler -> Request]
    BY <2>1 DEF TypeOK, Request
  <2>4. pc' \in [Handler -> {"idle", "done"} \cup Changing \cup Reading]
    BY <1>6 DEF TypeOK, OpenFile, Goto, Changing, Reading
  <2>5. dir' /\ rewritten' \subseteq Handler
    BY <1>6 DEF OpenFile, TypeOK, ReadersOf
  <2> QED BY <1>6, <2>2, <2>3, <2>4, <2>5 DEF TypeOK, OpenFile
<1>7. ASSUME NEW h \in Handler, FillFile(h) PROVE TypeOK'
  <2>1. files' \in Files
    <3>1. PICK content \in Overwritten(h) :
            /\ [content |-> content, config |-> req[h].config] \in File
            /\ files' = [files EXCEPT ![NextArch(h)][req[h].inode] =
                           [content |-> content, config |-> req[h].config]]
      BY <1>7, FillFileType
    <3> QED BY <3>1, FileTypes, OneFile
  <2>2. req' \in [Handler -> Request]
    BY <1>7, WrittenType DEF FillFile
  <2>3. pc' \in [Handler -> {"idle", "done"} \cup Changing \cup Reading]
    BY <1>7 DEF TypeOK, FillFile, Goto, Changing, Reading
  <2> QED BY <1>7, <2>1, <2>2, <2>3 DEF TypeOK, FillFile, history
<1>8. ASSUME NEW h \in Handler, FileFails(h) PROVE TypeOK'
  <2>1. files' \in Files
    <3> DEFINE new == [Opened(h) EXCEPT !.content = "mixed"]
    <3>1. CASE UNCHANGED files
      BY <3>1 DEF TypeOK
    <3>2. CASE new \in File /\ files' = [files EXCEPT ![NextArch(h)][req[h].inode] = new]
      <4> HIDE DEF new
      <4> QED BY <3>2, FileTypes, OneFile
    <3> QED BY <1>8, <3>1, <3>2, FileFailsType
  <2>2. req' \in [Handler -> Request]
    BY <1>8, WrittenType DEF FileFails
  <2>3. pc' \in [Handler -> {"idle", "done"} \cup Changing \cup Reading]
    BY <1>8 DEF TypeOK, FileFails, Goto, Changing, Reading
  <2> QED BY <1>8, <2>1, <2>2, <2>3 DEF TypeOK, FileFails
<1>9. ASSUME NEW h \in Handler, SetBinaries(h) PROVE TypeOK'
  <2>1. req[h].written \subseteq Arch
    BY DEF TypeOK, Request
  <2>2. row' \in Row \cup {NoRow}
    BY <1>9, <2>1 DEF SetBinaries, TypeOK, Row
  <2> QED BY <1>9, <2>2 DEF TypeOK, SetBinaries, Goto, history, disk
<1>10. ASSUME NEW h \in Handler, StepFails(h) PROVE TypeOK'
  BY <1>10 DEF TypeOK, StepFails, Goto, disk
<1>11. ASSUME NEW h \in Handler, ListFiles(h) PROVE TypeOK'
  BY <1>11 DEF TypeOK, ListFiles, Goto, Begin, Request, Changing, Reading, disk
<1>12. ASSUME NEW h \in Handler, NEW a \in Arch, Unlink(h, a) PROVE TypeOK'
  <2>1. req' \in [Handler -> Request]
    BY <1>12 DEF TypeOK, Unlink, Request
  <2>2. /\ names' \in [Arch -> Handler \cup {NoFile}] /\ failed' \in BOOLEAN
        /\ \A b \in Arch : names'[b] # NoFile => names[b] # NoFile
    BY <1>12 DEF TypeOK, Unlink
  <2>3. pc' \in [Handler -> {"idle", "done"} \cup Changing \cup Reading]
    BY <1>12 DEF TypeOK, Unlink, Goto, Changing, Reading
  <2> QED BY <1>12, <2>1, <2>2, <2>3 DEF TypeOK, Unlink
<1>13. ASSUME NEW h \in Handler, RemoveDir(h) PROVE TypeOK'
  <2>1. dir' \in BOOLEAN /\ failed' \in BOOLEAN /\ ((\E a \in Arch : names[a] # NoFile) => dir')
    <3>1. CASE (\A a \in Arch : names[a] = NoFile) /\ dir' = FALSE /\ failed' = failed
      BY <3>1 DEF TypeOK
    <3>2. CASE dir /\ failed' = TRUE /\ dir' = dir
      BY <3>2 DEF TypeOK
    <3> QED BY <1>13, <3>1, <3>2 DEF RemoveDir
  <2>2. pc' \in [Handler -> {"idle", "done"} \cup Changing \cup Reading]
    BY <1>13 DEF TypeOK, RemoveDir, Goto, Changing, Reading
  <2> QED BY <1>13, <2>1, <2>2 DEF TypeOK, RemoveDir
<1>14. ASSUME NEW h \in Handler, DeleteRow(h) PROVE TypeOK'
  BY <1>14 DEF TypeOK, DeleteRow, Goto, disk
<1>15. ASSUME NEW h \in Handler, NEW a \in Arch, DownloadLooksUp(h, a)
       PROVE  TypeOK'
  BY <1>15 DEF TypeOK, DownloadLooksUp, Goto, Request, Changing, Reading, history, disk
<1>16. ASSUME NEW h \in Handler, DownloadOpens(h) PROVE TypeOK'
  <2>1. req' \in [Handler -> Request]
    BY <1>16, FileTypes DEF TypeOK, DownloadOpens, Request
  <2> QED BY <1>16, <2>1 DEF TypeOK, DownloadOpens, Goto, Changing, Reading, history, disk
<1>17. ASSUME NEW h \in Handler, DownloadFails(h) PROVE TypeOK'
  BY <1>17 DEF TypeOK, DownloadFails, Goto, Request, Changing, Reading, history, disk
<1>18. ASSUME NEW h \in Handler, DownloadReads(h) PROVE TypeOK'
  <2>1. req' \in [Handler -> Request]
    BY <1>18, ReadsType DEF TypeOK
  <2> QED BY <1>18, <2>1 DEF TypeOK, DownloadReads, Goto, Changing, Reading, history, disk
<1>19. ASSUME NEW h \in Handler, DownloadSends(h) PROVE TypeOK'
  <2>1. req' \in [Handler -> Request]
    BY <1>19 DEF TypeOK, DownloadSends, Request, Content
  <2> QED BY <1>19, <2>1 DEF TypeOK, DownloadSends, Goto, history, disk
<1>20. CASE Crash
  <2>1. req' \in [Handler -> Request]
    <3>1. ASSUME NEW h \in Handler
          PROVE  [req[h] EXCEPT !.todo = {}, !.written = {}, !.inode = h] \in Request
      <4>1. req[h] \in Request
        BY DEF TypeOK
      <4> QED BY <4>1 DEF Request
    <3>2. req' = [h \in Handler |-> [req[h] EXCEPT !.todo = {}, !.written = {}, !.inode = h]]
      BY <1>20, Zenon DEF Crash
    <3> QED BY <3>1, <3>2, Zenon
  <2>2. pc' = [h \in Handler |-> IF pc[h] = "idle" THEN "idle" ELSE "done"]
    BY <1>20, Zenon DEF Crash
  <2>3. failed' = (failed \/ ~Quiet)
    BY <1>20, Zenon DEF Crash
  <2>4. UNCHANGED <<row, created, disk, stored, crossed, asked, rewritten>>
    BY <1>20, Zenon DEF Crash
  <2> QED BY <2>1, <2>2, <2>3, <2>4 DEF TypeOK, disk
<1>21. CASE UNCHANGED vars
  BY <1>21 DEF TypeOK, vars, disk, history
<1> QED BY <1>1, <1>2, <1>3, <1>4, <1>5, <1>6, <1>7, <1>8, <1>9, <1>10, <1>11, <1>12, <1>13,
           <1>14, <1>15, <1>16, <1>17, <1>18, <1>19, <1>20, <1>21 DEF Next, Serve

(* No step gives a request or a file a configuration that the row has not  *)
(* had; UpdateStores and Create are where one enters.                      *)
LEMMA HeldStep == IInv /\ [Next]_vars => NothingBefore' /\ HeldByRow'
<1> SUFFICES ASSUME IInv, [Next]_vars PROVE NothingBefore' /\ HeldByRow'
  OBVIOUS
<1> USE DEF IInv
<1>1. ASSUME NEW h \in Handler, NEW config \in Config, Create(h, config)
      PROVE  NothingBefore' /\ HeldByRow'
  BY <1>1 DEF TypeOK, NothingBefore, HeldByRow, Create, Goto, Generating, Request, disk, FileOf
<1>2. ASSUME NEW h \in Handler, NEW config \in Config, NEW without \in BOOLEAN,
             UpdateReads(h, config, without)
      PROVE  NothingBefore' /\ HeldByRow'
  BY <1>2 DEF TypeOK, NothingBefore, HeldByRow, UpdateReads, AgentByID, Goto, Generating, Request, disk, FileOf
<1>3. ASSUME NEW h \in Handler, Reject(h) PROVE NothingBefore' /\ HeldByRow'
  BY <1>3 DEF TypeOK, NothingBefore, HeldByRow, Reject, Goto, Generating, history, disk, FileOf
<1>4. ASSUME NEW h \in Handler, UpdateStores(h) PROVE NothingBefore' /\ HeldByRow'
  <2>1. created
    BY <1>4 DEF NothingBefore, UpdateStores, Goto
  <2>2. HeldByRow'
    BY <1>4 DEF TypeOK, HeldByRow, UpdateStores, Goto, Generating, disk, FileOf
  <2> QED BY <1>4, <2>1, <2>2 DEF NothingBefore, UpdateStores, Goto, Generating, TypeOK, disk
<1>5. ASSUME NEW h \in Handler, MakeDir(h) PROVE NothingBefore' /\ HeldByRow'
  BY <1>5 DEF TypeOK, NothingBefore, HeldByRow, MakeDir, Goto, Generating, Request,
              history, FileOf
<1>6. ASSUME NEW h \in Handler, OpenFile(h) PROVE NothingBefore' /\ HeldByRow'
  <2> DEFINE a == NextArch(h)
             i == Inode(h, a)
             new == Truncated(h, a)
  <2>1. /\ a \in Arch /\ i \in Handler /\ i # NoFile /\ new \in File
        /\ names[a] # NoFile => new.config = FileOf(a).config
        /\ names[a] = NoFile => new.config = req[h].config
        /\ names' = [names EXCEPT ![a] = i]
        /\ files' = [files EXCEPT ![a][i] = new]
        /\ req' = [req EXCEPT ![h].inode = i]
    BY <1>6, OpenFileType
  <2> HIDE DEF a, i, new
  <2>2. created
    BY <1>6 DEF NothingBefore, OpenFile, Goto, Generating
  <2>3. ASSUME row # NoRow PROVE req[h].config \in stored
    BY <1>6, <2>3 DEF HeldByRow, OpenFile, Goto, Generating
  <2>4. \A g \in Handler : req'[g].config = req[g].config
    BY <2>1 DEF TypeOK, Request
  <2>5. \A g \in Handler : MovesOn(g)
    BY <1>6 DEF TypeOK, OpenFile, Goto, Generating, MovesOn
  <2>6. ASSUME row # NoRow, NEW b \in Arch, names'[b] # NoFile
        PROVE  FileOf(b)'.config \in stored
    <3>1. CASE b # a
      <4>1. names'[b] = names[b] /\ names[b] \in Handler
        BY <2>1, <2>6, <3>1 DEF TypeOK
      <4>2. files'[b][names[b]] = files[b][names[b]]
        BY <2>1, <3>1, <4>1, OneFile
      <4> QED BY <2>6, <4>1, <4>2 DEF HeldByRow, FileOf
    <3>2. CASE b = a
      <4>1. FileOf(b)' = new
        <5>1. names'[b] = i
          BY <2>1, <3>2 DEF TypeOK
        <5>2. files'[a][i] = new
          BY <2>1 DEF TypeOK, Files
        <5> QED BY <3>2, <5>1, <5>2 DEF FileOf
      <4> QED BY <2>1, <2>3, <2>6, <4>1 DEF HeldByRow
    <3> QED BY <3>1, <3>2
  <2> QED BY <1>6, <2>2, <2>4, <2>5, <2>6 DEF NothingBefore, HeldByRow, OpenFile, MovesOn
<1>7. ASSUME NEW h \in Handler, FillFile(h) PROVE NothingBefore' /\ HeldByRow'
  <2> DEFINE a == NextArch(h)
             i == req[h].inode
  <2>1. a \in Arch /\ i \in Handler /\ UNCHANGED <<row, names, stored, created>>
    BY <1>7, FileTypes DEF FillFile, history
  <2>2. created
    BY <1>7 DEF NothingBefore, FillFile, Goto, Generating
  <2>3. ASSUME row # NoRow PROVE req[h].config \in stored
    BY <1>7, <2>3 DEF HeldByRow, FillFile, Goto, Generating
  <2>4. \A g \in Handler : req'[g].config = req[g].config
    BY <1>7, WrittenType DEF FillFile
  <2>5. \A g \in Handler : MovesOn(g)
    BY <1>7 DEF TypeOK, FillFile, Goto, Generating, MovesOn
  <2>6. PICK new \in File :
          files' = [files EXCEPT ![a][i] = new] /\ new.config = req[h].config
    BY <1>7, FillFileType
  <2> HIDE DEF a, i
  <2>7. ASSUME row # NoRow, NEW b \in Arch, names[b] # NoFile
        PROVE  FileOf(b)'.config \in stored
    <3>1. names[b] \in Handler /\ FileOf(b).config \in stored
      BY <2>7, FileTypes DEF HeldByRow
    <3>2. FileOf(b)' = FileOf(b) \/ FileOf(b)' = new
      BY <2>1, <2>6, <3>1, OneFile DEF FileOf
    <3> QED BY <2>3, <2>6, <2>7, <3>1, <3>2
  <2> QED BY <2>1, <2>2, <2>4, <2>5, <2>7 DEF NothingBefore, HeldByRow, MovesOn
<1>8. ASSUME NEW h \in Handler, FileFails(h) PROVE NothingBefore' /\ HeldByRow'
  <2> DEFINE a == NextArch(h)
             i == req[h].inode
  <2>1. a \in Arch /\ i \in Handler /\ UNCHANGED <<row, names, stored, created>>
    BY <1>8, FileTypes DEF FileFails
  <2>2. created
    BY <1>8 DEF NothingBefore, FileFails, Goto, Generating
  <2>4. \A g \in Handler : req'[g].config = req[g].config
    BY <1>8, WrittenType DEF FileFails
  <2>5. \A g \in Handler : MovesOn(g)
    BY <1>8 DEF TypeOK, FileFails, Goto, Generating, MovesOn
  <2>6. ASSUME row # NoRow, NEW b \in Arch, names[b] # NoFile
        PROVE  FileOf(b)'.config \in stored
    <3>1. names[b] \in Handler /\ FileOf(b).config \in stored
      BY <2>6, FileTypes DEF HeldByRow
    <3>2. CASE UNCHANGED files
      BY <2>1, <3>1, <3>2 DEF FileOf
    <3>3. ASSUME NEW new \in File, new.config = Opened(h).config,
                 files' = [files EXCEPT ![a][i] = new]
          PROVE  FileOf(b)'.config \in stored
      <4>1. CASE b = a /\ names[b] = i
        <5>1. files'[a][i] = new
          BY <2>1, <3>3 DEF TypeOK, Files
        <5>2. FileOf(b)'.config = FileOf(b).config
          BY <2>1, <3>3, <4>1, <5>1 DEF FileOf, Opened, a, i
        <5> QED BY <3>1, <5>2
      <4>2. CASE b # a \/ names[b] # i
        <5>1. files'[b][names[b]] = files[b][names[b]]
          BY <2>1, <3>1, <3>3, <4>2, OneFile
        <5> QED BY <2>1, <3>1, <5>1 DEF FileOf
      <4> QED BY <4>1, <4>2
    <3> QED BY <1>8, <3>2, <3>3, FileFailsType
  <2> QED BY <2>1, <2>2, <2>4, <2>5, <2>6 DEF NothingBefore, HeldByRow, MovesOn
<1>9. ASSUME NEW h \in Handler, SetBinaries(h) PROVE NothingBefore' /\ HeldByRow'
  <2>1. row' # NoRow => row # NoRow
    BY <1>9 DEF SetBinaries
  <2>2. created
    BY <1>9 DEF NothingBefore, SetBinaries, Goto, Generating
  <2>3. \A g \in Handler : MovesOn(g)
    BY <1>9 DEF TypeOK, SetBinaries, Goto, Generating, MovesOn
  <2> QED BY <1>9, <2>1, <2>2, <2>3
          DEF NothingBefore, HeldByRow, SetBinaries, history, MovesOn, disk, FileOf
<1>10. ASSUME NEW h \in Handler, StepFails(h) PROVE NothingBefore' /\ HeldByRow'
  <2>1. \A g \in Handler : MovesOn(g)
    BY <1>10 DEF TypeOK, StepFails, Goto, disk, Generating, MovesOn
  <2> QED BY <1>10, <2>1 DEF NothingBefore, HeldByRow, StepFails, MovesOn, disk, FileOf
<1>11. ASSUME NEW h \in Handler, ListFiles(h) PROVE NothingBefore' /\ HeldByRow'
  <2>1. \A g \in Handler : req'[g].config = req[g].config
    BY <1>11 DEF TypeOK, ListFiles, Request
  <2>2. \A g \in Handler : MovesOn(g)
    BY <1>11 DEF TypeOK, ListFiles, Goto, Generating, MovesOn
  <2> QED BY <1>11, <2>1, <2>2 DEF NothingBefore, HeldByRow, ListFiles, MovesOn, disk, FileOf
<1>12. ASSUME NEW h \in Handler, NEW a \in Arch, Unlink(h, a)
       PROVE  NothingBefore' /\ HeldByRow'
  <2>1. \A b \in Arch : names'[b] # NoFile => names'[b] = names[b]
    BY <1>12 DEF TypeOK, Unlink
  <2>2. \A g \in Handler : req'[g].config = req[g].config
    BY <1>12 DEF TypeOK, Unlink, Request
  <2>3. \A g \in Handler : MovesOn(g)
    BY <1>12 DEF TypeOK, Unlink, Goto, Generating, MovesOn
  <2> QED BY <1>12, <2>1, <2>2, <2>3 DEF NothingBefore, HeldByRow, Unlink, MovesOn, FileOf
<1>13. ASSUME NEW h \in Handler, RemoveDir(h) PROVE NothingBefore' /\ HeldByRow'
  <2>1. \A g \in Handler : MovesOn(g)
    BY <1>13 DEF TypeOK, RemoveDir, Goto, Generating, MovesOn
  <2> QED BY <1>13, <2>1 DEF NothingBefore, HeldByRow, RemoveDir, MovesOn, FileOf
<1>14. ASSUME NEW h \in Handler, DeleteRow(h) PROVE NothingBefore' /\ HeldByRow'
  <2>1. row' # NoRow => row # NoRow
    BY <1>14 DEF DeleteRow
  <2>2. \A g \in Handler : MovesOn(g)
    BY <1>14 DEF TypeOK, DeleteRow, Goto, Generating, MovesOn
  <2> QED BY <1>14, <2>1, <2>2 DEF NothingBefore, HeldByRow, DeleteRow, MovesOn, disk, FileOf
<1>15. ASSUME NEW h \in Handler, Downloading(h) PROVE NothingBefore' /\ HeldByRow'
  <2>1. /\ UNCHANGED <<row, created, names, files, stored>>
        /\ \A g \in Handler \ {h} : pc'[g] = pc[g] /\ req'[g] = req[g]
        /\ pc'[h] \in {"open", "read", "done"}
    BY <1>15, DownloadStep
  <2> QED BY <2>1 DEF NothingBefore, HeldByRow, FileOf, Generating
<1>16. CASE Crash
  <2>1. pc' = [h \in Handler |-> IF pc[h] = "idle" THEN "idle" ELSE "done"]
    BY <1>16, Zenon DEF Crash
  <2>2. UNCHANGED <<row, created, disk, stored>>
    BY <1>16, Zenon DEF Crash
  <2>3. \A g \in Handler : pc'[g] \notin Generating /\ pc'[g] # "store"
    BY <2>1 DEF Generating
  <2> QED BY <2>2, <2>3 DEF NothingBefore, HeldByRow, FileOf, disk
<1>17. CASE UNCHANGED vars
  BY <1>17 DEF NothingBefore, HeldByRow, vars, disk, history, FileOf
<1> QED BY <1>1, <1>2, <1>3, <1>4, <1>5, <1>6, <1>7, <1>8, <1>9, <1>10, <1>11, <1>12, <1>13,
           <1>14, <1>15, <1>16, <1>17 DEF Next, Serve, Downloading

(* The inductive invariant holds of every behaviour.                       *)
THEOREM RegistryInvariant == Spec => []IInv
<1>1. IInv /\ [Next]_vars => IInv'
  BY TypeStep, HeldStep DEF IInv
<1> QED BY <1>1, InitInv, PTL DEF Spec

(* Every variable keeps its type, and no file stands outside a directory.  *)
THEOREM RegistryTypeOK == Spec => []TypeOK
<1>1. IInv => TypeOK
  BY DEF IInv
<1> QED BY <1>1, RegistryInvariant, PTL

(* A whole binary of a registered agent holds a configuration its row had: *)
(* generateBinaries never runs ahead of UpdateAgent, whatever overlaps,    *)
(* fails or dies.                                                          *)
THEOREM RegistryNeverAhead == Spec => []BinaryNeverAhead
<1>1. IInv => BinaryNeverAhead
  BY DEF IInv, HeldByRow, BinaryNeverAhead, Whole
<1> QED BY <1>1, RegistryInvariant, PTL
-----------------------------------------------------------------------------
(***************************************************************************)
(* Requests one after another.                                             *)
(*                                                                         *)
(* That no two requests crossed means that at most one is changing         *)
(* something at a time; the invariant says what each phase of that one has *)
(* done so far, and that what it has not touched is as it was left.        *)
(***************************************************************************)

OneAtATime == \A g, h \in Handler : pc[g] \in Changing /\ pc[h] \in Changing => g = h

\* No file is a mixture, nor is what a download has, unless the file was
\* truncated under it.
NoMixture ==
  /\ \A a \in Arch, i \in Handler : files[a][i].content # "mixed"
  /\ \A h \in Handler : req[h].data = "mixed" => h \in rewritten

\* What a download has read is of the file it reads, as it is now.
ReadsWell ==
  \A h \in Handler :
    /\ pc[h] \in {"idle", "open"} => req[h].data = "nothing"
    /\ pc[h] = "read" /\ req[h].data # "nothing" /\ h \notin rewritten =>
         Opened(h).content = "whole" /\ Opened(h).config = req[h].config

\* The binary of an architecture is what it should be.
Ready(a) == Whole(a) /\ FileOf(a).config = row.config

Settled ==
  Quiet /\ created =>
    IF row = NoRow THEN \A a \in Arch : names[a] = NoFile
    ELSE /\ row.config.trackOS = asked
         /\ \A a \in Embedded : a \in row.paths /\ Ready(a)

\* How far a request has come.
Phase(h) ==
  /\ pc[h] \in {"idle", "store", "mkdir"} => req[h].written = {}
  /\ pc[h] = "store" => row # NoRow /\ req[h].config.trackOS = asked
  /\ pc[h] \in Generating =>
       row # NoRow /\ row.config = req[h].config /\ row.config.trackOS = asked
  /\ pc[h] \in {"write", "fill"} =>
       /\ req[h].todo \subseteq Embedded
       /\ req[h].written = Embedded \ req[h].todo
       /\ \A a \in req[h].written : Ready(a)
  /\ pc[h] = "fill" =>
       /\ req[h].todo # {}
       /\ names[NextArch(h)] = req[h].inode /\ Opened(h).content = "empty"
  /\ pc[h] = "unlink" => \A a \in Arch : names[a] # NoFile => a \in req[h].todo
  /\ pc[h] = "drop" => \A a \in Arch : names[a] = NoFile

Orderly == /\ OneAtATime /\ NoMixture /\ ReadsWell /\ Settled
           /\ \A h \in Handler : Phase(h)
SequentialInv == ~failed /\ ~crossed => Orderly

USE EmbeddedAssumption

(* Before the first request nothing is out of order.                       *)
LEMMA InitSequential == Init => SequentialInv
<1> SUFFICES ASSUME Init PROVE Orderly
  BY DEF SequentialInv
<1>1. \A a \in Arch, i \in Handler : files[a][i].content = "empty"
  BY DEF Init
<1>2. \A h \in Handler : pc[h] = "idle" /\ req[h].data = "nothing" /\ req[h].written = {}
  BY DEF Init
<1>3. created = FALSE
  BY DEF Init
<1> QED
  BY <1>1, <1>2, <1>3 DEF Orderly, OneAtATime, NoMixture, ReadsWell, Settled, Phase, Changing,
     Generating

(* The next architecture is one that is still to be written.                *)
LEMMA NextArchTodo ==
  ASSUME TypeOK, NEW h \in Handler, req[h].todo # {}
  PROVE  NextArch(h) \in req[h].todo
BY DEF TypeOK, Request, NextArch, Arch

(* A step that writes no file, of a request that is not a download, does    *)
(* not disturb one.                                                         *)
LEMMA FilesKept ==
  ASSUME TypeOK, Orderly, NEW h \in Handler,
         UNCHANGED <<files, rewritten>>,
         \A g \in Handler \ {h} : pc'[g] = pc[g] /\ req'[g] = req[g],
         pc'[h] \in Changing \cup {"done"},
         req'[h].data = req[h].data
  PROVE  NoMixture' /\ ReadsWell'
<1>1. NoMixture'
  BY DEF Orderly, NoMixture
<1>2. ASSUME NEW g \in Handler
      PROVE  /\ pc'[g] \in {"idle", "open"} => req'[g].data = "nothing"
             /\ pc'[g] = "read" /\ req'[g].data # "nothing" /\ g \notin rewritten' =>
                  Opened(g)'.content = "whole" /\ Opened(g)'.config = req'[g].config
  <2>1. CASE g = h
    BY <2>1 DEF Changing
  <2>2. CASE g # h
    <3>1. pc'[g] = pc[g] /\ req'[g] = req[g] /\ Opened(g)' = Opened(g)
      BY <2>2 DEF Opened, NextArch
    <3> QED BY <3>1 DEF Orderly, ReadsWell
  <2> QED BY <2>1, <2>2
<1> QED BY <1>1, <1>2 DEF ReadsWell

(* A step of one request that changes neither the row nor a file.           *)
LEMMA QuietStep ==
  ASSUME TypeOK, Orderly, NEW h \in Handler,
         UNCHANGED <<row, created, names, files, asked>>,
         \A g \in Handler \ {h} : pc'[g] = pc[g] /\ req'[g] = req[g],
         pc[h] \notin Changing, pc'[h] \in {"open", "read", "done"},
         NoMixture', ReadsWell'
  PROVE  Orderly'
<1>1. OneAtATime'
  BY DEF Orderly, OneAtATime, Changing
<1>2. Settled'
  BY DEF Orderly, Settled, Quiet, Whole, Ready, FileOf, Changing
<1>3. ASSUME NEW g \in Handler PROVE Phase(g)'
  BY DEF Orderly, Phase, Generating, Changing, Whole, Ready, FileOf, Opened, NextArch
<1> QED
  BY <1>1, <1>2, <1>3 DEF Orderly

(* A step of the one request that is changing something, or begins to: the  *)
(* others are in no phase.                                                  *)
LEMMA ChangingStep ==
  ASSUME TypeOK, Orderly, NEW h \in Handler,
         pc[h] \in Changing \/ Quiet,
         \A g \in Handler \ {h} : pc'[g] = pc[g] /\ req'[g] = req[g],
         pc'[h] \in Changing,
         NoMixture', ReadsWell',
         Phase(h)'
  PROVE  Orderly'
<1>1. \A g \in Handler \ {h} : pc'[g] \notin Changing
  BY DEF Orderly, OneAtATime, Quiet
<1>2. OneAtATime'
  BY <1>1 DEF OneAtATime
<1>4. Settled'
  BY DEF Settled, Quiet
<1>5. \A g \in Handler \ {h} : Phase(g)'
  <2>1. \A g \in Handler \ {h} : pc'[g] = "idle" => req'[g].written = {}
    BY DEF Orderly, Phase
  <2> QED
    BY <1>1, <2>1 DEF Phase, Generating, Changing
<1> QED
  BY <1>2, <1>4, <1>5 DEF Orderly

(* A new agent: nothing is on the disk, and the row is the one asked for.   *)
LEMMA CreateOrderly ==
  ASSUME TypeOK, Orderly, ~crossed', NEW h \in Handler,
         NEW config \in Config, Create(h, config)
  PROVE  Orderly'
<1>1. Quiet /\ pc[h] = "idle"
  BY DEF Create, Goto, Begin
<1>2. \A g \in Handler \ {h} : pc'[g] = pc[g] /\ req'[g] = req[g]
  BY DEF Create, Goto, TypeOK
<1>3. /\ pc'[h] = "mkdir" /\ req'[h].data = req[h].data
      /\ req'[h].written = req[h].written /\ req'[h].config = config
  BY DEF Create, Goto, TypeOK, Request
<1>4. row' # NoRow /\ row'.config = config /\ asked' = config.trackOS
  <2>1. row' = [config |-> config, paths |-> {}] /\ asked' = config.trackOS
    BY DEF Create
  <2>2. row' # NoRow
    BY <2>1, NothingAssumption DEF Row
  <2> QED BY <2>1, <2>2
<1>5. Phase(h)'
  BY <1>1, <1>3, <1>4 DEF Orderly, Phase, Generating
<1>6. UNCHANGED <<files, rewritten>>
  BY DEF Create, disk
<1>7. NoMixture' /\ ReadsWell'
  BY <1>2, <1>3, <1>6, FilesKept DEF Changing
<1> QED
  BY <1>1, <1>2, <1>3, <1>5, <1>7, ChangingStep DEF Changing

(* An update holds what was asked for, track_os from the settled row.       *)
LEMMA UpdateReadsOrderly ==
  ASSUME TypeOK, NothingBefore, Orderly, ~crossed', NEW h \in Handler,
         NEW config \in Config, NEW without \in BOOLEAN, UpdateReads(h, config, without)
  PROVE  Orderly'
<1>1. Quiet /\ pc[h] = "idle" /\ row # NoRow
  BY DEF UpdateReads, Goto, Begin, AgentByID
<1>2. \A g \in Handler \ {h} : pc'[g] = pc[g] /\ req'[g] = req[g]
  BY DEF UpdateReads, Goto, TypeOK
<1>3. row.config.trackOS = asked
  BY <1>1 DEF Orderly, Settled, NothingBefore
<1>4. /\ pc'[h] = "store" /\ req'[h].data = req[h].data
      /\ req'[h].written = req[h].written
      /\ req'[h].config = IF without THEN [config EXCEPT !.trackOS = row.config.trackOS]
                          ELSE config
  BY DEF UpdateReads, Goto, TypeOK, Request
<1>5. req'[h].config.trackOS = asked'
  BY <1>3, <1>4 DEF UpdateReads, Config
<1>6. row' = row /\ UNCHANGED <<files, rewritten>>
  BY DEF UpdateReads, disk
<1>7. Phase(h)'
  BY <1>1, <1>4, <1>5, <1>6 DEF Orderly, Phase, Generating
<1>8. NoMixture' /\ ReadsWell'
  BY <1>2, <1>4, <1>6, FilesKept DEF Changing
<1> QED
  BY <1>1, <1>2, <1>4, <1>7, <1>8, ChangingStep DEF Changing

(* The row becomes what the update holds.                                   *)
LEMMA UpdateStoresOrderly ==
  ASSUME TypeOK, Orderly, NEW h \in Handler, UpdateStores(h)
  PROVE  Orderly'
<1>1. pc[h] = "store" /\ row # NoRow /\ req[h].config.trackOS = asked /\ req[h].written = {}
  BY DEF UpdateStores, Goto, Orderly, Phase
<1>2. /\ pc' = [pc EXCEPT ![h] = "mkdir"]
      /\ row' = [row EXCEPT !.config = req[h].config]
      /\ UNCHANGED <<files, rewritten, req, asked>>
  BY <1>1 DEF UpdateStores, Goto, disk
<1>3. row' \in Row /\ row'.config = req[h].config
  BY <1>1, <1>2 DEF TypeOK, Row, Request
<1>4. row' # NoRow
  BY <1>3, NothingAssumption
<1>5. pc'[h] = "mkdir" /\ \A g \in Handler \ {h} : pc'[g] = pc[g]
  BY <1>2 DEF TypeOK
<1>6. Phase(h)'
  BY <1>1, <1>2, <1>3, <1>4, <1>5 DEF Phase, Generating
<1>7. NoMixture' /\ ReadsWell'
  BY <1>2, <1>5, FilesKept DEF Changing
<1> QED
  BY <1>1, <1>2, <1>5, <1>6, <1>7, ChangingStep DEF Changing

(* Generating begins with every architecture to be written.                 *)
LEMMA MakeDirOrderly ==
  ASSUME TypeOK, Orderly, NEW h \in Handler, MakeDir(h)
  PROVE  Orderly'
<1>1. /\ pc[h] = "mkdir" /\ row # NoRow /\ row.config = req[h].config
      /\ row.config.trackOS = asked /\ req[h].written = {}
  BY DEF MakeDir, Goto, Orderly, Phase, Generating
<1>2. UNCHANGED <<row, files, asked, rewritten>>
  BY DEF MakeDir, history
<1>3. /\ pc'[h] = "write" /\ req'[h].data = req[h].data /\ req'[h].config = req[h].config
      /\ req'[h].written = {} /\ req'[h].todo = Embedded
  BY <1>1 DEF MakeDir, Goto, TypeOK, Request
<1>4. \A g \in Handler \ {h} : pc'[g] = pc[g] /\ req'[g] = req[g]
  BY DEF MakeDir, Goto, TypeOK
<1>5. Phase(h)'
  BY <1>1, <1>2, <1>3 DEF Phase, Generating
<1>6. NoMixture' /\ ReadsWell'
  BY <1>2, <1>3, <1>4, FilesKept DEF Changing
<1> QED
  BY <1>1, <1>3, <1>4, <1>5, <1>6, ChangingStep DEF Changing

(* The next file, open, is the empty one under its name; the downloads that *)
(* have it open are those it is truncated under.                            *)
LEMMA OpenFileOrderly ==
  ASSUME TypeOK, Orderly, NEW h \in Handler, OpenFile(h)
  PROVE  Orderly'
<1> DEFINE a == NextArch(h)
           i == Inode(h, a)
           new == Truncated(h, a)
<1>1. /\ pc[h] = "write" /\ row # NoRow /\ row.config = req[h].config
      /\ row.config.trackOS = asked /\ req[h].todo # {}
      /\ req[h].todo \subseteq Embedded /\ req[h].written = Embedded \ req[h].todo
      /\ \A b \in req[h].written : Ready(b)
  BY DEF OpenFile, Goto, Orderly, Phase, Generating
<1>2. a \in req[h].todo /\ a \in Arch
  BY <1>1, NextArchTodo, NextArchInArch
<1>3. /\ i \in Handler /\ i # NoFile /\ new \in File /\ new.content = "empty"
      /\ names' = [names EXCEPT ![a] = i]
      /\ files' = [files EXCEPT ![a][i] = new]
      /\ req' = [req EXCEPT ![h].inode = i]
  BY OpenFileType
<1>4. /\ pc' = [pc EXCEPT ![h] = "fill"] /\ UNCHANGED <<row, asked>>
      /\ rewritten' = rewritten \cup ReadersOf(a, i)
  BY DEF OpenFile, Goto
<1>5. NextArch(h)' = a
  BY <1>3 DEF NextArch, TypeOK, Request
<1> HIDE DEF a, i, new
<1>6. \A b \in Arch, g \in Handler :
        files'[b][g] = IF b = a /\ g = i THEN new ELSE files[b][g]
  BY <1>2, <1>3 DEF TypeOK, Files
<1>7. names'[a] = i /\ \A b \in Arch \ {a} : names'[b] = names[b]
  BY <1>2, <1>3 DEF TypeOK
<1>8. /\ req'[h].data = req[h].data /\ req'[h].config = req[h].config
      /\ req'[h].written = req[h].written /\ req'[h].todo = req[h].todo
      /\ req'[h].inode = i
  BY <1>3 DEF TypeOK, Request
<1>9. pc'[h] = "fill" /\ \A g \in Handler \ {h} : pc'[g] = pc[g] /\ req'[g] = req[g]
  BY <1>3, <1>4 DEF TypeOK
<1>10. files'[a][i] = new
  BY <1>2, <1>3, <1>6
<1>11. \A b \in req[h].written : Ready(b)'
  <2>1. ASSUME NEW b \in req[h].written PROVE Ready(b)'
    <3>1. b \in Arch /\ b # a /\ Ready(b)
      BY <1>1, <1>2, <2>1
    <3>2. names'[b] = names[b] /\ names[b] \in Handler
      BY <1>7, <3>1 DEF Ready, Whole, TypeOK
    <3>3. FileOf(b)' = FileOf(b)
      BY <1>6, <3>1, <3>2 DEF FileOf
    <3> QED BY <1>4, <3>1, <3>2, <3>3 DEF Ready, Whole
  <2> QED BY <2>1
<1>12. Phase(h)'
  <2>1. names'[NextArch(h)'] = req'[h].inode /\ (Opened(h)').content = "empty"
    BY <1>3, <1>5, <1>7, <1>8, <1>10 DEF Opened
  <2> QED BY <1>1, <1>4, <1>8, <1>9, <1>11, <2>1 DEF Phase, Generating
<1>13. NoMixture'
  <2>1. \A b \in Arch, g \in Handler : files'[b][g].content # "mixed"
    BY <1>3, <1>6 DEF Orderly, NoMixture
  <2>2. \A g \in Handler : req'[g].data = "mixed" => g \in rewritten'
    BY <1>4, <1>8, <1>9 DEF Orderly, NoMixture
  <2> QED BY <2>1, <2>2 DEF NoMixture
<1>14. ReadsWell'
  <2>1. ASSUME NEW g \in Handler, g # h
        PROVE  /\ pc'[g] \in {"idle", "open"} => req'[g].data = "nothing"
               /\ pc'[g] = "read" /\ req'[g].data # "nothing" /\ g \notin rewritten' =>
                    Opened(g)'.content = "whole" /\ Opened(g)'.config = req'[g].config
    <3>1. pc'[g] = pc[g] /\ req'[g] = req[g] /\ NextArch(g)' = NextArch(g)
      BY <1>9, <2>1 DEF NextArch
    <3>2. pc[g] \in {"idle", "open"} => req[g].data = "nothing"
      BY DEF Orderly, ReadsWell
    <3>3. ASSUME pc[g] = "read", req[g].data # "nothing", g \notin rewritten'
          PROVE  Opened(g)'.content = "whole" /\ Opened(g)'.config = req[g].config
      <4>1. g \notin rewritten /\ ~(NextArch(g) = a /\ req[g].inode = i)
        BY <1>4, <3>3 DEF ReadersOf
      <4>2. NextArch(g) \in Arch /\ req[g].inode \in Handler
        BY FileTypes
      <4>3. Opened(g)' = Opened(g)
        BY <1>6, <3>1, <4>1, <4>2 DEF Opened
      <4> QED BY <3>3, <4>1, <4>3 DEF Orderly, ReadsWell
    <3> QED BY <3>1, <3>2, <3>3
  <2> QED BY <1>9, <2>1 DEF ReadsWell
<1> QED
  BY <1>1, <1>9, <1>12, <1>13, <1>14, ChangingStep DEF Changing

(* The empty file becomes a whole one with the configuration of the row;    *)
(* no download that has read something has an empty file open.              *)
LEMMA FillFileOrderly ==
  ASSUME TypeOK, Orderly, NEW h \in Handler, FillFile(h)
  PROVE  Orderly'
<1> DEFINE a == NextArch(h)
           i == req[h].inode
           new == [content |-> "whole", config |-> req[h].config]
           done == [req[h] EXCEPT !.todo = req[h].todo \ {a},
                                  !.written = req[h].written \cup {a},
                                  !.inode = h]
<1>1. /\ pc[h] = "fill" /\ row # NoRow /\ row.config = req[h].config
      /\ row.config.trackOS = asked /\ req[h].todo # {}
      /\ req[h].todo \subseteq Embedded /\ req[h].written = Embedded \ req[h].todo
      /\ \A b \in req[h].written : Ready(b)
      /\ names[a] = i /\ Opened(h).content = "empty"
  BY DEF FillFile, Goto, Orderly, Phase, Generating
<1>2. a \in req[h].todo /\ a \in Arch /\ i \in Handler /\ i # NoFile
  BY <1>1, NextArchTodo, FileTypes, NothingAssumption
<1>3. new \in File /\ new.content = "whole" /\ new.config = req[h].config
  BY DEF TypeOK, Request, File, Content
<1>4. files' = [files EXCEPT ![a][i] = new]
  <2>1. Overwritten(h) = {"whole"}
    BY <1>1 DEF Overwritten
  <2> QED
    BY <2>1, Zenon DEF FillFile
<1>5. UNCHANGED <<row, names, asked, rewritten>> /\ req' = [req EXCEPT ![h] = done]
  BY DEF FillFile, Written, history
<1>6. /\ done.data = req[h].data /\ done.config = req[h].config
      /\ done.todo = req[h].todo \ {a} /\ done.written = req[h].written \cup {a}
  BY DEF TypeOK, Request
<1>7. files[a][i].content = "empty"
  BY <1>1 DEF Opened
<1> HIDE DEF a, i, new, done
<1>8. \A b \in Arch, g \in Handler :
        files'[b][g] = IF b = a /\ g = i THEN new ELSE files[b][g]
  BY <1>2, <1>3, <1>4 DEF TypeOK, Files
<1>9. req'[h] = done /\ pc'[h] = "write"
      /\ \A g \in Handler \ {h} : pc'[g] = pc[g] /\ req'[g] = req[g]
  BY <1>5 DEF FillFile, Goto, TypeOK
<1>10. files'[a][i] = new
  BY <1>2, <1>3, <1>8
<1>11. \A b \in req'[h].written : Ready(b)'
  <2>1. ASSUME NEW b \in Arch, b = a PROVE Ready(b)'
    <3>1. names'[b] = i /\ FileOf(b)' = new
      BY <1>1, <1>5, <1>10, <2>1 DEF FileOf
    <3> QED BY <1>1, <1>2, <1>3, <1>5, <3>1 DEF Ready, Whole
  <2>2. ASSUME NEW b \in req[h].written PROVE b \in Arch /\ Ready(b)'
    <3>1. b \in Arch /\ b # a /\ Ready(b)
      BY <1>1, <1>2, <2>2
    <3>2. names'[b] = names[b] /\ names[b] \in Handler
      BY <1>5, <3>1 DEF Ready, Whole, TypeOK
    <3>3. FileOf(b)' = FileOf(b)
      BY <1>8, <3>1, <3>2 DEF FileOf
    <3> QED BY <1>5, <3>1, <3>2, <3>3 DEF Ready, Whole
  <2>3. ASSUME NEW b \in req'[h].written PROVE Ready(b)'
    <3>1. b \in req[h].written \/ (b \in Arch /\ b = a)
      BY <1>2, <1>6, <1>9, <2>3
    <3> QED
      BY <2>1, <2>2, <3>1
  <2> QED
    BY <2>3
<1>12. Phase(h)'
  BY <1>1, <1>2, <1>5, <1>6, <1>9, <1>11 DEF Phase, Generating
<1>13. NoMixture'
  <2>1. \A b \in Arch, g \in Handler : files'[b][g].content # "mixed"
    BY <1>3, <1>8 DEF Orderly, NoMixture
  <2>2. \A g \in Handler : req'[g].data = "mixed" => g \in rewritten'
    BY <1>5, <1>6, <1>9 DEF Orderly, NoMixture
  <2> QED BY <2>1, <2>2 DEF NoMixture
<1>14. ReadsWell'
  <2>1. ASSUME NEW g \in Handler, g # h
        PROVE  /\ pc'[g] \in {"idle", "open"} => req'[g].data = "nothing"
               /\ pc'[g] = "read" /\ req'[g].data # "nothing" /\ g \notin rewritten' =>
                    Opened(g)'.content = "whole" /\ Opened(g)'.config = req'[g].config
    <3>1. pc'[g] = pc[g] /\ req'[g] = req[g] /\ NextArch(g)' = NextArch(g)
      BY <1>9, <2>1 DEF NextArch
    <3>2. pc[g] \in {"idle", "open"} => req[g].data = "nothing"
      BY DEF Orderly, ReadsWell
    <3>3. ASSUME pc[g] = "read", req[g].data # "nothing", g \notin rewritten
          PROVE  Opened(g)'.content = "whole" /\ Opened(g)'.config = req[g].config
      <4>1. Opened(g).content = "whole" /\ Opened(g).config = req[g].config
        BY <3>3 DEF Orderly, ReadsWell
      <4>2. NextArch(g) \in Arch /\ req[g].inode \in Handler
        BY FileTypes
      <4>3. ~(NextArch(g) = a /\ req[g].inode = i)
        BY <1>7, <4>1 DEF Opened
      <4>4. Opened(g)' = Opened(g)
        BY <1>8, <3>1, <4>2, <4>3 DEF Opened
      <4> QED BY <4>1, <4>4
    <3> QED BY <1>5, <3>1, <3>2, <3>3
  <2> QED BY <1>9, <2>1 DEF ReadsWell
<1> QED
  BY <1>1, <1>9, <1>12, <1>13, <1>14, ChangingStep DEF Changing

(* The request that was changing something ends: what it leaves is settled. *)
LEMMA EndingStep ==
  ASSUME TypeOK, Orderly, NEW h \in Handler,
         pc[h] \in Changing, pc' = [pc EXCEPT ![h] = "done"],
         UNCHANGED <<created, names, files, req, asked, rewritten>>,
         created =>
           IF row' = NoRow THEN \A a \in Arch : names[a] = NoFile
           ELSE /\ row'.config.trackOS = asked
                /\ \A a \in Embedded : /\ a \in row'.paths
                                        /\ Whole(a) /\ FileOf(a).config = row'.config
  PROVE  Orderly'
<1>1. pc'[h] = "done" /\ \A g \in Handler \ {h} : pc'[g] = pc[g] /\ pc[g] \notin Changing
  BY DEF TypeOK, Orderly, OneAtATime
<1>2. OneAtATime' /\ NoMixture' /\ ReadsWell'
  BY <1>1, FilesKept DEF OneAtATime, Changing
<1>3. Settled'
  BY DEF Settled, Ready, Whole, FileOf
<1>4. ASSUME NEW g \in Handler PROVE Phase(g)'
  BY <1>1 DEF Orderly, Phase, Generating, Changing
<1> QED
  BY <1>2, <1>3, <1>4 DEF Orderly

(* All files ready, the paths are stored and the agent is settled.          *)
LEMMA SetBinariesOrderly ==
  ASSUME TypeOK, Orderly, NEW h \in Handler, SetBinaries(h)
  PROVE  Orderly'
<1>1. /\ pc[h] = "write" /\ row # NoRow /\ row.config = req[h].config
      /\ row.config.trackOS = asked /\ req[h].todo = {} /\ req[h].written = Embedded
      /\ \A a \in Embedded : Ready(a)
  BY DEF SetBinaries, Goto, Orderly, Phase, Generating
<1>2. row \in Row
  BY <1>1 DEF TypeOK
<1>3. /\ row' = IF Embedded = {} THEN row ELSE [row EXCEPT !.paths = Embedded]
      /\ pc' = [pc EXCEPT ![h] = "done"]
      /\ UNCHANGED <<created, names, files, req, asked, rewritten>>
  BY <1>1 DEF SetBinaries, Goto, history, disk
<1>4. /\ row' \in Row /\ row'.config = row.config
      /\ \A a \in Embedded : a \in row'.paths
  BY <1>2, <1>3 DEF Row
<1>5. row' # NoRow
  BY <1>4, NothingAssumption
<1> QED
  BY <1>1, <1>3, <1>4, <1>5, EndingStep DEF Changing, Ready

(* The row goes after its files: nothing is left.                           *)
LEMMA DeleteRowOrderly ==
  ASSUME TypeOK, Orderly, ~failed', NEW h \in Handler, DeleteRow(h)
  PROVE  Orderly'
<1>1. pc[h] = "drop" /\ \A a \in Arch : names[a] = NoFile
  BY DEF DeleteRow, Goto, Orderly, Phase
<1>2. /\ row' = NoRow /\ pc' = [pc EXCEPT ![h] = "done"]
      /\ UNCHANGED <<created, names, files, req, asked, rewritten>>
  BY DEF DeleteRow, Goto, disk
<1> QED
  BY <1>1, <1>2, EndingStep DEF Changing

(* A delete has every name on its list.                                     *)
LEMMA ListFilesOrderly ==
  ASSUME TypeOK, Orderly, ~crossed', NEW h \in Handler, ListFiles(h)
  PROVE  Orderly'
<1>1. Quiet /\ pc[h] = "idle"
  BY DEF ListFiles, Goto, Begin
<1>2. pc'[h] = "unlink" /\ \A g \in Handler \ {h} : pc'[g] = pc[g] /\ req'[g] = req[g]
  BY DEF ListFiles, Goto, TypeOK
<1>3. req'[h].data = req[h].data /\ req'[h].todo = {a \in Arch : names[a] # NoFile}
  BY DEF ListFiles, TypeOK, Request
<1>4. UNCHANGED <<names, files, rewritten>>
  BY DEF ListFiles, disk
<1>5. Phase(h)'
  BY <1>2, <1>3, <1>4 DEF Phase, Generating
<1>6. NoMixture' /\ ReadsWell'
  BY <1>2, <1>3, <1>4, FilesKept DEF Changing
<1> QED
  BY <1>1, <1>2, <1>5, <1>6, ChangingStep DEF Changing

(* Every name goes when none is kept back by an error.                      *)
LEMMA UnlinkOrderly ==
  ASSUME TypeOK, Orderly, ~failed', NEW h \in Handler, NEW a \in Arch, Unlink(h, a)
  PROVE  Orderly'
<1>1. pc[h] = "unlink" /\ \A b \in Arch : names[b] # NoFile => b \in req[h].todo
  BY DEF Unlink, Goto, Orderly, Phase
<1>2. pc'[h] = "unlink" /\ \A g \in Handler \ {h} : pc'[g] = pc[g] /\ req'[g] = req[g]
  BY DEF Unlink, Goto, TypeOK
<1>3. req'[h].data = req[h].data /\ req'[h].todo = req[h].todo \ {a}
  BY DEF Unlink, TypeOK, Request
<1>4. names' = [names EXCEPT ![a] = NoFile] /\ UNCHANGED <<files, rewritten>>
  BY DEF Unlink
<1>5. \A b \in Arch : names'[b] # NoFile => b \in req'[h].todo
  BY <1>1, <1>3, <1>4 DEF TypeOK
<1>6. Phase(h)'
  BY <1>2, <1>5 DEF Phase, Generating
<1>7. NoMixture' /\ ReadsWell'
  BY <1>2, <1>3, <1>4, FilesKept DEF Changing
<1> QED
  BY <1>1, <1>2, <1>6, <1>7, ChangingStep DEF Changing

(* So the directory is empty when it goes.                                  *)
LEMMA RemoveDirOrderly ==
  ASSUME TypeOK, Orderly, ~failed', NEW h \in Handler, RemoveDir(h)
  PROVE  Orderly'
<1>1. pc[h] = "unlink" /\ pc' = [pc EXCEPT ![h] = "drop"]
      /\ UNCHANGED <<names, files, req, rewritten>>
  BY DEF RemoveDir, Goto
<1>2. \A a \in Arch : names[a] = NoFile
  BY DEF RemoveDir
<1>3. pc'[h] = "drop" /\ \A g \in Handler \ {h} : pc'[g] = pc[g] /\ req'[g] = req[g]
  BY <1>1 DEF TypeOK
<1>4. Phase(h)'
  BY <1>1, <1>2, <1>3 DEF Phase, Generating
<1>5. NoMixture' /\ ReadsWell'
  BY <1>1, <1>3, FilesKept DEF Changing
<1> QED
  BY <1>1, <1>3, <1>4, <1>5, ChangingStep DEF Changing

(* A request turned away leaves everything in order.                        *)
LEMMA RejectOrderly ==
  ASSUME TypeOK, Orderly, NEW h \in Handler, Reject(h)
  PROVE  Orderly'
<1>1. UNCHANGED <<row, created, names, files, asked, rewritten, req>>
  BY DEF Reject, history, disk
<1>2. pc[h] = "idle" /\ pc'[h] = "done" /\ \A g \in Handler \ {h} : pc'[g] = pc[g]
  BY DEF Reject, Goto, TypeOK
<1>3. NoMixture' /\ ReadsWell'
  BY <1>1, <1>2, FilesKept
<1> QED
  BY <1>1, <1>2, <1>3, QuietStep DEF Changing

(* A download reads on in the file it has begun, unless that was truncated. *)
LEMMA ReadsOrderly ==
  ASSUME TypeOK, Orderly, NEW h \in Handler, DownloadReads(h)
  PROVE  /\ req'[h].data = "mixed" => h \in rewritten
         /\ h \notin rewritten =>
              Opened(h)'.content = "whole" /\ Opened(h)'.config = req'[h].config
<1>1. PICK new \in Request :
        /\ req' = [req EXCEPT ![h] = new]
        /\ new.data \in ReadOn(h) /\ new.config = Opened(h).config
        /\ new.todo = req[h].todo /\ new.inode = req[h].inode
  BY ReadsType
<1>2. req'[h] = new
  BY <1>1 DEF TypeOK
<1>3. Opened(h)' = Opened(h)
  BY <1>1, <1>2 DEF DownloadReads, disk, Opened, NextArch
<1>4. Opened(h).content = "whole"
  <2>1. Opened(h).content # "empty"
    BY DEF DownloadReads
  <2>2. Opened(h) \in File /\ Opened(h).content # "mixed"
    BY FileTypes DEF Orderly, NoMixture, Opened
  <2> QED BY <2>1, <2>2 DEF File, Content
<1>5. ASSUME h \notin rewritten PROVE new.data # "mixed"
  <2>1. pc[h] = "read"
    BY DEF DownloadReads, Goto
  <2>2. req[h].data # "nothing" => Opened(h).config = req[h].config
    BY <1>5, <2>1 DEF Orderly, ReadsWell
  <2> QED BY <1>1, <1>4, <2>2 DEF ReadOn
<1> QED BY <1>1, <1>2, <1>3, <1>4, <1>5

(* Downloads leave everything in order.                                     *)
LEMMA DownloadOrderly ==
  ASSUME TypeOK, Orderly, NEW h \in Handler, Downloading(h)
  PROVE  Orderly'
<1>1. /\ UNCHANGED <<row, created, names, files, asked, rewritten>>
      /\ pc[h] \in {"idle", "open", "read"} /\ pc'[h] \in {"open", "read", "done"}
      /\ \A g \in Handler \ {h} : pc'[g] = pc[g] /\ req'[g] = req[g]
  BY DownloadStep
<1> DEFINE Well == /\ req'[h].data = "mixed" => h \in rewritten
                   /\ pc'[h] = "open" => req'[h].data = "nothing"
                   /\ pc'[h] = "read" /\ req'[h].data # "nothing" /\ h \notin rewritten =>
                        Opened(h)'.content = "whole" /\ Opened(h)'.config = req'[h].config
<1>2. Well
  <2>1. ASSUME NEW a \in Arch, DownloadLooksUp(h, a) PROVE Well
    <3>1. pc[h] = "idle" /\ pc'[h] = "open" /\ req'[h].data = req[h].data
      BY <2>1 DEF DownloadLooksUp, Goto, TypeOK, Request
    <3> QED BY <3>1 DEF Orderly, ReadsWell
  <2>2. CASE DownloadOpens(h)
    <3>1. pc[h] = "open" /\ pc'[h] = "read" /\ req'[h].data = req[h].data
      BY <2>2 DEF DownloadOpens, Goto, TypeOK, Request
    <3> QED BY <3>1 DEF Orderly, ReadsWell
  <2>3. CASE DownloadFails(h)
    BY <2>3 DEF DownloadFails, Goto, TypeOK, Request
  <2>4. CASE DownloadReads(h)
    <3>1. pc'[h] = "read"
      BY <2>4 DEF DownloadReads, Goto, TypeOK
    <3> QED BY <2>4, <3>1, ReadsOrderly
  <2>5. CASE DownloadSends(h)
    <3>1. pc'[h] = "done" /\ (req'[h].data = "mixed" => req[h].data = "mixed")
      BY <2>5 DEF DownloadSends, Goto, TypeOK, Request
    <3> QED BY <3>1 DEF Orderly, NoMixture
  <2> QED BY <2>1, <2>2, <2>3, <2>4, <2>5 DEF Downloading
<1>3. NoMixture'
  BY <1>1, <1>2 DEF Orderly, NoMixture
<1>4. ReadsWell'
  <2>1. ASSUME NEW g \in Handler, g # h
        PROVE  /\ pc'[g] \in {"idle", "open"} => req'[g].data = "nothing"
               /\ pc'[g] = "read" /\ req'[g].data # "nothing" /\ g \notin rewritten' =>
                    Opened(g)'.content = "whole" /\ Opened(g)'.config = req'[g].config
    <3>1. pc'[g] = pc[g] /\ req'[g] = req[g] /\ Opened(g)' = Opened(g)
      BY <1>1, <2>1 DEF Opened, NextArch
    <3> QED BY <1>1, <3>1 DEF Orderly, ReadsWell
  <2> QED BY <1>1, <1>2, <2>1 DEF ReadsWell
<1> QED
  BY <1>1, <1>3, <1>4, QuietStep DEF Changing

(* A server that dies while nothing is being changed ends downloads only.  *)
LEMMA CrashOrderly ==
  ASSUME TypeOK, Orderly, ~failed', Crash
  PROVE  Orderly'
<1>1. Quiet
  <2>1. failed' = (failed \/ ~Quiet)
    BY Zenon DEF Crash
  <2> QED BY <2>1, Zenon
<1>2. UNCHANGED <<row, created, disk, asked, rewritten>>
  BY Zenon DEF Crash
<1>3. pc' = [h \in Handler |-> IF pc[h] = "idle" THEN "idle" ELSE "done"]
  BY Zenon DEF Crash
<1>4. \A h \in Handler : pc'[h] = "done" \/ (pc'[h] = "idle" /\ pc[h] = "idle")
  BY <1>3
<1>5. \A h \in Handler : req'[h].data = req[h].data /\ req'[h].written = {}
  <2>1. req' = [h \in Handler |-> [req[h] EXCEPT !.todo = {}, !.written = {}, !.inode = h]]
    BY Zenon DEF Crash
  <2>2. ASSUME NEW h \in Handler
        PROVE  req'[h].data = req[h].data /\ req'[h].written = {}
    <3> DEFINE ended == [req[h] EXCEPT !.todo = {}, !.written = {}, !.inode = h]
    <3>1. req'[h] = ended
      BY <2>1, Zenon
    <3>2. req[h] \in Request
      BY DEF TypeOK
    <3>3. ended.data = req[h].data /\ ended.written = {}
      BY <3>2 DEF Request
    <3> QED BY <3>1, <3>3, Zenon
  <2> QED BY <2>2
<1>6. OneAtATime' /\ NoMixture' /\ ReadsWell'
  BY <1>2, <1>4, <1>5 DEF Orderly, OneAtATime, NoMixture, ReadsWell, Changing, disk
<1>7. Settled'
  BY <1>1, <1>2 DEF Orderly, Settled, Ready, Whole, FileOf, disk
<1>8. ASSUME NEW h \in Handler PROVE Phase(h)'
  BY <1>4, <1>5 DEF Phase, Generating
<1> QED
  BY <1>6, <1>7, <1>8 DEF Orderly

(* Every step keeps order, or is one that ends it.                          *)
LEMMA NextSequential == IInv /\ SequentialInv /\ [Next]_vars => SequentialInv'
<1> SUFFICES ASSUME IInv, SequentialInv, [Next]_vars, ~failed', ~crossed' PROVE Orderly'
  BY DEF SequentialInv
<1> USE DEF IInv
<1>1. ~failed /\ ~crossed
  <2>1. ASSUME NEW h \in Handler, Serve(h) PROVE ~failed /\ ~crossed
    <3> DEFINE Kept == (failed' \/ failed' = failed) /\ (UNCHANGED crossed \/ Begin)
    <3>1. FileFails(h) \/ StepFails(h) \/ RemoveDir(h) \/ DeleteRow(h) => Kept
      BY Zenon DEF FileFails, StepFails, RemoveDir, DeleteRow
    <3>2. ASSUME NEW a \in Arch, Unlink(h, a) PROVE Kept
      BY <3>2, Zenon DEF Unlink
    <3>3. ASSUME NEW config \in Config, Create(h, config) PROVE Kept
      BY <3>3, Zenon DEF Create
    <3>4. ASSUME NEW config \in Config, NEW without \in BOOLEAN,
                 UpdateReads(h, config, without)
          PROVE  Kept
      BY <3>4, Zenon DEF UpdateReads
    <3>5. Reject(h) \/ MakeDir(h) \/ OpenFile(h) \/ FillFile(h) \/ SetBinaries(h) => Kept
      BY DEF Reject, MakeDir, OpenFile, FillFile, SetBinaries, history
    <3>6. UpdateStores(h) \/ ListFiles(h) => Kept
      BY Zenon DEF UpdateStores, ListFiles
    <3>7. Downloading(h) => Kept
      BY DownloadStep
    <3>8. Kept
      BY <2>1, <3>1, <3>2, <3>3, <3>4, <3>5, <3>6, <3>7, Zenon DEF Serve, Downloading
    <3>9. Begin => (crossed' <=> crossed \/ ~Quiet)
      BY Zenon DEF Begin
    <3>10. ~failed
      BY <3>8, Zenon
    <3>11. ~crossed
      BY <3>8, <3>9, Zenon
    <3> QED BY <3>10, <3>11
  <2>2. CASE Crash
    <3>1. failed' = (failed \/ ~Quiet) /\ UNCHANGED crossed
      BY <2>2, Zenon DEF Crash
    <3> QED BY <3>1, Zenon
  <2>3. CASE UNCHANGED vars
    BY <2>3 DEF vars, history
  <2> QED BY <2>1, <2>2, <2>3 DEF Next
<1>2. Orderly
  BY <1>1 DEF SequentialInv
<1>3. ASSUME NEW h \in Handler, Serve(h) PROVE Orderly'
  <2>1. ASSUME NEW config \in Config, Create(h, config) PROVE Orderly'
    BY <1>2, <2>1, CreateOrderly
  <2>2. ASSUME NEW config \in Config, NEW without \in BOOLEAN, UpdateReads(h, config, without)
        PROVE Orderly'
    BY <1>2, <2>2, UpdateReadsOrderly
  <2>3. CASE UpdateStores(h)
    BY <1>2, <2>3, UpdateStoresOrderly
  <2>4. CASE MakeDir(h)
    BY <1>2, <2>4, MakeDirOrderly
  <2>5. CASE OpenFile(h)
    BY <1>2, <2>5, OpenFileOrderly
  <2>6. CASE FillFile(h)
    BY <1>2, <2>6, FillFileOrderly
  <2>7. CASE SetBinaries(h)
    BY <1>2, <2>7, SetBinariesOrderly
  <2>8. CASE ListFiles(h)
    BY <1>2, <2>8, ListFilesOrderly
  <2>9. CASE DeleteRow(h)
    BY <1>2, <2>9, DeleteRowOrderly
  <2>10. CASE Reject(h)
    BY <1>2, <2>10, RejectOrderly
  <2>12. CASE Downloading(h)
    BY <1>2, <2>12, DownloadOrderly
  <2>13. ASSUME NEW a \in Arch, Unlink(h, a) PROVE Orderly'
    BY <1>2, <2>13, UnlinkOrderly
  <2>14. CASE RemoveDir(h)
    BY <1>2, <2>14, RemoveDirOrderly
  <2>11. CASE FileFails(h) \/ StepFails(h)
    BY <2>11 DEF FileFails, StepFails
  <2> QED
    BY <1>3, <2>1, <2>2, <2>3, <2>4, <2>5, <2>6, <2>7, <2>8, <2>9, <2>10, <2>11, <2>12,
       <2>13, <2>14 DEF Serve, Downloading
<1>4. CASE Crash
  BY <1>2, <1>4, CrashOrderly
<1>5. CASE UNCHANGED vars
  BY <1>2, <1>5 DEF vars, disk, history, Orderly, OneAtATime, NoMixture, ReadsWell, Settled,
     Phase, Quiet, Ready, Whole, FileOf, Opened, NextArch
<1> QED
  BY <1>3, <1>4, <1>5 DEF Next

(* Requests that came one after another kept the agent's row and binaries   *)
(* in order at every step.                                                  *)
THEOREM RegistrySequential == Spec => []SequentialInv
BY InitSequential, NextSequential, RegistryInvariant, PTL DEF Spec

(* The binaries of an agent whose requests did not overlap and did not fail *)
(* are those of its row, and gone with it: generateBinaries and delete.     *)
THEOREM RegistryFresh == Spec => []FreshWhenSequential
<1>1. SequentialInv => FreshWhenSequential
  BY DEF SequentialInv, Orderly, Settled, Ready, FreshWhenSequential
<1> QED BY <1>1, RegistrySequential, PTL

(* An update whose body leaves track_os out keeps what was last asked for.  *)
THEOREM RegistryTrackOS == Spec => []TrackOSAsAsked
<1>1. IInv /\ SequentialInv => TrackOSAsAsked
  BY DEF IInv, NothingBefore, SequentialInv, Orderly, Settled, TrackOSAsAsked
<1> QED BY <1>1, RegistryInvariant, RegistrySequential, PTL

(* A download that reads piece by piece ends up with a mixture of two       *)
(* binaries only if an update truncated the file under it, or requests      *)
(* crossed, or one failed: os.ReadFile against os.WriteFile.                *)
THEOREM RegistryMixedOnlyWhenRewritten == Spec => []MixedOnlyWhenRewritten
<1>1. SequentialInv => MixedOnlyWhenRewritten
  BY DEF SequentialInv, Orderly, NoMixture, MixedOnlyWhenRewritten
<1> QED BY <1>1, RegistrySequential, PTL
===============================================================================
