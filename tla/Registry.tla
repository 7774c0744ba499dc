------------------------------- MODULE Registry -------------------------------
(***************************************************************************)
(* One agent's registration (aggregator/handler/agents.go, download.go):   *)
(* its row in the agents table and the binaries generated for it under     *)
(* DataDir/agents/<id>/, which carry a copy of the row's configuration.    *)
(*                                                                         *)
(* Create, update, delete and download requests run at once, each in a     *)
(* goroutine of its own; nothing orders their statements and their file    *)
(* operations, and a crash may come between any two.  Agents share neither *)
(* rows nor directories, so one of them is enough.                         *)
(***************************************************************************)
EXTENDS Integers, FiniteSets

CONSTANTS
  Handler,   \* requests; each is served once
  Processes, \* what the processes column can hold
  Embedded,  \* the architectures with an embedded base binary, a subset of Arch
  NoFile, NoRow  \* no file of that name; no row of that id

Arch == {"amd64", "arm64"}

ASSUME EmbeddedAssumption == Embedded \subseteq Arch

VARIABLES
  row,      \* the agent's row, NoRow before it is created and once deleted
  created,  \* whether its random id was ever given out
  dir,      \* whether DataDir/agents/<id> exists
  names,    \* names[a]: the file that bears architecture a's name, or NoFile
  files,    \* files[a][h]: the file of architecture a that request h created
  pc, req,  \* pc[h], req[h]: what request h does next, and what it knows
  stored,   \* history: every configuration the row has had
  failed,   \* history: a step of some request failed, or the server died
  crossed,  \* history: two requests that change something overlapped
  asked,    \* history: the last value of track_os a request's body had
  rewritten \* history: downloads whose file was truncated while they read it

disk == <<dir, names, files>>
history == <<stored, failed, crossed, asked, rewritten>>
vars == <<row, created, disk, pc, req, history>>

Config == [processes : Processes, trackOS : BOOLEAN]

\* A row: its configuration and the architectures whose path is not empty.
Row == [config : Config, paths : SUBSET Arch]

\* A file: whether it holds a whole binary, nothing or not all of one yet, or
\* a mixture of two, and the configuration last written to it.  A file whose
\* name was removed lives on under the descriptors that are open.
Content == {"whole", "empty", "mixed"}
File == [content : Content, config : Config]
Files == [Arch -> [Handler -> File]]

ASSUME NothingAssumption == NoRow \notin Row /\ NoFile \notin Handler

\* What a request knows: the configuration it writes or has read, the
\* architectures it still has to deal with, those written, the file under its
\* descriptor (its own number when none is), and what a download has in data.
Request == [config : Config, todo : SUBSET Arch, written : SUBSET Arch,
            inode : Handler, data : Content \cup {"nothing"}]

Changing == {"store", "mkdir", "write", "fill", "unlink", "drop"}
Reading == {"open", "read"}
Quiet == \A h \in Handler : pc[h] \notin Changing

Init ==
  /\ row = NoRow
  /\ created = FALSE
  /\ dir = FALSE
  /\ names = [a \in Arch |-> NoFile]
  /\ pc = [h \in Handler |-> "idle"]
  /\ \E p \in Processes :
       LET none == [processes |-> p, trackOS |-> TRUE] IN
       /\ files = [a \in Arch |-> [h \in Handler |-> [content |-> "empty", config |-> none]]]
       /\ req = [h \in Handler |-> [config |-> none, todo |-> {}, written |-> {},
                                    inode |-> h, data |-> "nothing"]]
  /\ stored = {}
  /\ failed = FALSE
  /\ crossed = FALSE
  /\ asked = TRUE
  /\ rewritten = {}

Goto(h, from, to) == pc[h] = from /\ pc' = [pc EXCEPT ![h] = to]

\* A request that changes something begins.
Begin == crossed' = (crossed \/ ~Quiet)

\* The architecture that is next: generateBinaries writes amd64 first.
NextArch(h) == IF "amd64" \in req[h].todo THEN "amd64" ELSE "arm64"

\* The file under the descriptor of request h, and the one of a name.
Opened(h) == files[NextArch(h)][req[h].inode]
FileOf(a) == files[a][names[a]]

\* The file that opening architecture a's name makes or finds.
Inode(h, a) == IF names[a] = NoFile THEN h ELSE names[a]

\* The downloads that have file i of architecture a open.
ReadersOf(a, i) ==
  {g \in Handler : pc[g] = "read" /\ NextArch(g) = a /\ req[g].inode = i}

\* Request h has written its file, or failed to, and closes it.
Written(h, ok) ==
  LET now == {NextArch(h)}
      new == [req[h] EXCEPT !.todo = @ \ now,
                            !.written = IF ok THEN @ \cup now ELSE @,
                            !.inode = h]
  IN req' = [req EXCEPT ![h] = new]
------------------------------------------------------------------------------
(* Faulty variants, one plausible bug each.                                *)

\* Without track_os in the body the default of create is written.
UpdateDefaults(h, config, without) ==
  /\ Goto(h, "idle", "store")
  /\ row # NoRow
  /\ req' = [req EXCEPT ![h].config = IF without THEN [config EXCEPT !.trackOS = TRUE]
                                      ELSE config]
  /\ asked' = IF without THEN asked ELSE config.trackOS
  /\ Begin
  /\ UNCHANGED <<row, created, disk, stored, failed, rewritten>>

\* UPDATE agents SET processes only.
UpdateForgetsTrackOS(h) ==
  /\ Goto(h, "store", "mkdir")
  /\ row' = IF row = NoRow THEN row
            ELSE [row EXCEPT !.config.processes = req[h].config.processes]
  /\ stored' = IF row = NoRow THEN stored ELSE stored \cup {row'.config}
  /\ UNCHANGED <<created, disk, req, failed, crossed, asked, rewritten>>

\* The binaries are generated even when UpdateAgent has failed.
UpdateGoesOn(h) ==
  /\ Goto(h, "store", "mkdir")
  /\ \/ row' = row /\ UNCHANGED stored
     \/ /\ row # NoRow
        /\ row' = [row EXCEPT !.config = req[h].config]
        /\ stored' = stored \cup {req[h].config}
  /\ UNCHANGED <<created, disk, req, failed, crossed, asked, rewritten>>

\* The file is opened without O_TRUNC.
NotTruncated(h, a) ==
  IF names[a] = NoFile THEN [content |-> "empty", config |-> req[h].config]
  ELSE FileOf(a)

\* The paths are upserted: the row of an agent that was deleted meanwhile comes
\* back, with nothing but the paths in it.
SetBinariesUpserts(h) ==
  /\ req[h].todo = {}
  /\ Goto(h, "write", "done")
  /\ row' = IF req[h].written = {} THEN row
            ELSE IF row = NoRow THEN [paths |-> req[h].written]
            ELSE [row EXCEPT !.paths = req[h].written]
  /\ UNCHANGED <<created, disk, req, history>>
------------------------------------------------------------------------------
(* Create and update.                                                       *)

\* AgentByID finds the agent's row in the table.
AgentByID == row # NoRow

(* CreateAgent: a new row with a random id, the credentials in it.          *)
Create(h, config) ==
  /\ Goto(h, "idle", "mkdir")
  /\ ~created
  /\ created' = TRUE
  /\ row' = [config |-> config, paths |-> {}]
  /\ req' = [req EXCEPT ![h].config = config]
  /\ stored' = stored \cup {config}
  /\ asked' = config.trackOS
  /\ Begin
  /\ UNCHANGED <<disk, failed, rewritten>>

(* update reads the row, because a body without track_os keeps the value    *)
(* read here.                                                               *)
UpdateReads(h, config, without) ==
  /\ Goto(h, "idle", "store")
  /\ AgentByID
  /\ LET written == IF without THEN [config EXCEPT !.trackOS = row.config.trackOS] ELSE config
     IN req' = [req EXCEPT ![h].config = written]
  /\ asked' = IF without THEN asked ELSE config.trackOS
  /\ Begin
  /\ UNCHANGED <<row, created, disk, stored, failed, rewritten>>

(* A request is turned away before it changes anything: no such row, an     *)
(* unreadable body, or the first statement fails.                           *)
Reject(h) ==
  /\ Goto(h, "idle", "done")
  /\ UNCHANGED <<row, created, disk, req, history>>

(* UpdateAgent: both columns; an UPDATE of a row that is gone changes       *)
(* nothing and is no error.                                                 *)
UpdateStores(h) ==
  /\ Goto(h, "store", "mkdir")
  /\ IF row = NoRow THEN UNCHANGED <<row, stored>>
     ELSE /\ row' = [row EXCEPT !.config = req[h].config]
          /\ stored' = stored \cup {req[h].config}
  /\ UNCHANGED <<created, disk, req, failed, crossed, asked, rewritten>>

(* generateBinaries: the directory.                                         *)
MakeDir(h) ==
  /\ Goto(h, "mkdir", "write")
  /\ dir' = TRUE
  /\ req' = [req EXCEPT ![h].todo = Embedded]
  /\ UNCHANGED <<row, created, names, files, history>>

\* What opening architecture a's name for writing leaves in the file: nothing.
Truncated(h, a) ==
  IF names[a] = NoFile THEN [content |-> "empty", config |-> req[h].config]
  ELSE [FileOf(a) EXCEPT !.content = "empty"]

(* os.WriteFile opens the next file, truncating the one that is there.      *)
OpenFile(h) ==
  LET a == NextArch(h)
      i == Inode(h, a)
  IN /\ req[h].todo # {}
     /\ Goto(h, "write", "fill")
     /\ dir
     /\ names' = [names EXCEPT ![a] = i]
     /\ files' = [files EXCEPT ![a][i] = Truncated(h, a)]
     /\ req' = [req EXCEPT ![h].inode = i]
     /\ rewritten' = rewritten \cup ReadersOf(a, i)
     /\ UNCHANGED <<row, created, dir, stored, failed, crossed, asked>>

\* What a file holds after request h wrote over it: a longer configuration
\* that another request put there meanwhile keeps its tail.
Overwritten(h) ==
  LET file == Opened(h) IN
  IF file.content = "empty" THEN {"whole"}
  ELSE IF file.config = req[h].config THEN {file.content}
  ELSE {"whole", "mixed"}

(* It fills the file it opened with one write, whatever name that has now.  *)
FillFile(h) ==
  /\ Goto(h, "fill", "write")
  /\ \E content \in Overwritten(h) :
       files' = [files EXCEPT ![NextArch(h)][req[h].inode] =
                   [content |-> content, config |-> req[h].config]]
  /\ Written(h, TRUE)
  /\ UNCHANGED <<row, created, dir, names, history>>

(* The directory is gone, or the disk full: this architecture gets no path. *)
(* What was written of the file stays.                                      *)
FileFails(h) ==
  /\ \/ Goto(h, "write", "write") /\ req[h].todo # {} /\ UNCHANGED files
     \/ Goto(h, "fill", "write") /\ UNCHANGED files
     \/ /\ Goto(h, "fill", "write")
        /\ Opened(h).content # "empty"
        /\ files' = [files EXCEPT ![NextArch(h)][req[h].inode] =
                       [Opened(h) EXCEPT !.content = "mixed"]]
  /\ Written(h, FALSE)
  /\ failed' = TRUE
  /\ UNCHANGED <<row, created, dir, names, stored, crossed, asked, rewritten>>

(* SetAgentBinaries, unless nothing was written: both columns at once, the  *)
(* path of an architecture that failed becoming empty.                      *)
SetBinaries(h) ==
  /\ req[h].todo = {}
  /\ Goto(h, "write", "done")
  /\ row' = IF row = NoRow \/ req[h].written = {} THEN row
            ELSE [row EXCEPT !.paths = req[h].written]
  /\ UNCHANGED <<created, disk, req, history>>

(* UpdateAgent fails: 500.  MkdirAll or SetAgentBinaries fails: ignored.    *)
StepFails(h) ==
  /\ \/ Goto(h, "store", "done")
     \/ Goto(h, "mkdir", "done")
     \/ Goto(h, "write", "done") /\ req[h].todo = {}
  /\ failed' = TRUE
  /\ UNCHANGED <<row, created, disk, req, stored, crossed, asked, rewritten>>
------------------------------------------------------------------------------
(* Delete.  os.RemoveAll lists the directory once, unlinks what it found    *)
(* and then the directory; the error of any of it is ignored.               *)

ListFiles(h) ==
  /\ Goto(h, "idle", "unlink")
  /\ req' = [req EXCEPT ![h].todo = {a \in Arch : names[a] # NoFile}]
  /\ Begin
  /\ UNCHANGED <<row, created, disk, stored, failed, asked, rewritten>>

\* A name that cannot be removed stays.  One that is gone already is no error.
Unlink(h, a) ==
  /\ a \in req[h].todo
  /\ Goto(h, "unlink", "unlink")
  /\ \/ names' = [names EXCEPT ![a] = NoFile] /\ UNCHANGED failed
     \/ names[a] # NoFile /\ failed' = TRUE /\ UNCHANGED names
  /\ req' = [req EXCEPT ![h].todo = req[h].todo \ {a}]
  /\ UNCHANGED <<row, created, dir, files, stored, crossed, asked, rewritten>>

\* Only an empty directory can be removed: a file that was kept, or that
\* appeared since it was listed, keeps it.
RemoveDir(h) ==
  /\ req[h].todo = {}
  /\ Goto(h, "unlink", "drop")
  /\ \/ /\ \A a \in Arch : names[a] = NoFile
        /\ dir' = FALSE
        /\ UNCHANGED failed
     \/ dir /\ failed' = TRUE /\ UNCHANGED dir
  /\ UNCHANGED <<row, created, names, files, req, stored, crossed, asked, rewritten>>

DeleteRow(h) ==
  /\ Goto(h, "drop", "done")
  /\ \/ row' = NoRow /\ UNCHANGED failed
     \/ failed' = TRUE /\ UNCHANGED row
  /\ UNCHANGED <<created, disk, req, stored, crossed, asked, rewritten>>
------------------------------------------------------------------------------
(* Download.  os.ReadFile opens the file and reads until it meets its end,  *)
(* twice at least; whoever writes the file does not wait for it.            *)

(* The path is read from the row.                                           *)
DownloadLooksUp(h, a) ==
  /\ Goto(h, "idle", "open")
  /\ AgentByID /\ a \in row.paths
  /\ req' = [req EXCEPT ![h].todo = {a}]
  /\ UNCHANGED <<row, created, disk, history>>

DownloadOpens(h) ==
  LET a == NextArch(h) IN
  /\ names[a] # NoFile
  /\ Goto(h, "open", "read")
  /\ req' = [req EXCEPT ![h].inode = names[a]]
  /\ UNCHANGED <<row, created, disk, history>>

(* No file of that name, or an error: an error answer.                      *)
DownloadFails(h) ==
  /\ Goto(h, "open", "done") \/ Goto(h, "read", "done")
  /\ req' = [req EXCEPT ![h].data = "nothing"]
  /\ UNCHANGED <<row, created, disk, history>>

\* What download h may have in data after it has read on: the beginning of a
\* binary or all of it, and a mixture when what it reads now continues
\* something else.
ReadOn(h) ==
  LET file == Opened(h)
      data == req[h].data
      other == file.config # req[h].config
  IN {now \in Content :
        \/ data \in {"nothing", "empty"} /\ now \in {"empty", file.content}
        \/ data \in {"empty", "whole"} /\ now = "mixed"
             /\ (other \/ file.content = "mixed")}

\* Download h is at the end of its file, or may be: behind a whole binary
\* there is more only if the file holds something longer by now.
AtEnd(h) ==
  LET file == Opened(h) IN
  \/ file.content = "empty" \/ req[h].data = "mixed"
  \/ req[h].data = "whole" /\ (file.content = "whole" \/ file.config # req[h].config)

DownloadReads(h) ==
  /\ Goto(h, "read", "read")
  /\ Opened(h).content # "empty"
  /\ \E data \in ReadOn(h) :
       req' = [req EXCEPT ![h] = [req[h] EXCEPT !.data = data,
                                                !.config = Opened(h).config]]
  /\ UNCHANGED <<row, created, disk, history>>

DownloadSends(h) ==
  /\ Goto(h, "read", "done")
  /\ AtEnd(h)
  /\ req' = [req EXCEPT ![h].data = IF req[h].data = "nothing" THEN "empty" ELSE req[h].data]
  /\ UNCHANGED <<row, created, disk, history>>
------------------------------------------------------------------------------

(* The server dies: every request ends where it is, its files closed.       *)
Crash ==
  /\ pc' = [h \in Handler |-> IF pc[h] = "idle" THEN "idle" ELSE "done"]
  /\ failed' = (failed \/ ~Quiet)
  /\ req' = [h \in Handler |-> [req[h] EXCEPT !.todo = {}, !.written = {}, !.inode = h]]
  /\ UNCHANGED <<row, created, disk, stored, crossed, asked, rewritten>>

Serve(h) ==
  \/ \E config \in Config : Create(h, config)
  \/ \E config \in Config, without \in BOOLEAN : UpdateReads(h, config, without)
  \/ Reject(h)
  \/ UpdateStores(h)
  \/ MakeDir(h)
  \/ OpenFile(h)
  \/ FillFile(h)
  \/ FileFails(h)
  \/ SetBinaries(h)
  \/ StepFails(h)
  \/ ListFiles(h)
  \/ \E a \in Arch : Unlink(h, a)
  \/ RemoveDir(h)
  \/ DeleteRow(h)
  \/ \E a \in Arch : DownloadLooksUp(h, a)
  \/ DownloadOpens(h)
  \/ DownloadFails(h)
  \/ DownloadReads(h)
  \/ DownloadSends(h)

Next == (\E h \in Handler : Serve(h)) \/ Crash

Spec == Init /\ [][Next]_vars
------------------------------------------------------------------------------

TypeOK ==
  /\ row \in Row \cup {NoRow}
  /\ created \in BOOLEAN
  /\ dir \in BOOLEAN
  /\ names \in [Arch -> Handler \cup {NoFile}]
  /\ files \in Files
  /\ (\E a \in Arch : names[a] # NoFile) => dir
  /\ pc \in [Handler -> {"idle", "done"} \cup Changing \cup Reading]
  /\ req \in [Handler -> Request]
  /\ stored \subseteq Config
  /\ failed \in BOOLEAN /\ crossed \in BOOLEAN /\ asked \in BOOLEAN
  /\ rewritten \subseteq Handler

Whole(a) == names[a] # NoFile /\ FileOf(a).content = "whole"

(* When requests came one after another and none failed or died, the        *)
(* binaries of a registered agent are all there, are served, and hold the   *)
(* configuration of its row; and those of a deleted one are gone.           *)
FreshWhenSequential ==
  Quiet /\ created /\ ~failed /\ ~crossed =>
    IF row = NoRow THEN \A a \in Arch : names[a] = NoFile
    ELSE \A a \in Embedded : /\ a \in row.paths
                             /\ Whole(a) /\ FileOf(a).config = row.config

(* An update that does not mention track_os leaves it at the value that was *)
(* last asked for, although it writes the column: it writes what it read,   *)
(* which no request that came before it can have left behind half done.     *)
TrackOSAsAsked ==
  Quiet /\ row # NoRow /\ ~failed /\ ~crossed => row.config.trackOS = asked

(* A download reads its file piece by piece while updates truncate and fill *)
(* it.  It may be sent an empty binary or the beginning of one; but one     *)
(* that starts like one binary and ends like another only if the file was   *)
(* truncated under it, or two requests crossed, or one failed.              *)
MixedOnlyWhenRewritten ==
  \A h \in Handler : req[h].data = "mixed" => h \in rewritten \/ failed \/ crossed

(* However requests overlap, fail and die: a whole binary of a registered   *)
(* agent holds a configuration its row had, so the binaries may lag behind  *)
(* the row but are never ahead of it.                                       *)
BinaryNeverAhead ==
  row # NoRow =>
    \A a \in Arch : Whole(a) => FileOf(a).config \in stored

(* What the comment in update says: the binaries are regenerated with the   *)
(* updated configuration, so that a fresh one can be downloaded.  When all  *)
(* requests have been answered, a whole binary should hold what the row     *)
(* holds; but two updates whose steps cross, none failing, leave the older  *)
(* configuration on the disk.                                               *)
UpdatedBinaryIsFresh ==
  Quiet /\ row # NoRow /\ ~failed =>
    \A a \in row.paths : Whole(a) => FileOf(a).config = row.config
===============================================================================
