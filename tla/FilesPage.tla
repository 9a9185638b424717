----------------------------- MODULE FilesPage -----------------------------
(***************************************************************************)
(* The pages that browse and edit files: FileBrowser with the editor of a  *)
(* compose project (ComposeDetailPage) or of the host's configuration      *)
(* (ConfigFilesPage), or with the viewer of a container, volume or image   *)
(* (SourceFileBrowser, TarTextViewer), their dialogs, the file operations  *)
(* they queue, and the one download a page runs.                           *)
(*                                                                         *)
(* An action is one JavaScript event run to its end: a click, or the       *)
(* answer a handler was awaiting.  Solid keeps one component while the     *)
(* route goes from an instance (project, container) to another, so a       *)
(* handler may wake up on an instance, a directory or a file other than    *)
(* the one it was started on.  What a listing or a file holds is left      *)
(* out; where it was read from is what the properties are about.           *)
(***************************************************************************)
EXTENDS Naturals, FiniteSets, SequencesExt

CONSTANTS
  Kinds,       \* of pages: among "compose", "config" and "source"
  Insts,       \* instances: the projects or containers the route can name
  Dirs, Files, \* paths, as sequences of names
  ComposeFile, \* a project's own file
  MaxEvents    \* bound: what the user does

ASSUME FilesPageAssumption ==
  /\ Kinds \subseteq {"compose", "config", "source"} /\ Insts # {} /\ MaxEvents \in Nat
  /\ Dirs \cup Files \subseteq Seq(STRING)
  /\ <<>> \in Dirs /\ ComposeFile \in Files /\ \A f \in Files : f # <<>> /\ Front(f) \in Dirs

VARIABLES
  page,      \* the kind of page, and whether its user is an operator
  inst,      \* id(): the instance the route names
  path,      \* path() of the browser
  listing,   \* the entries resource: what its latest request is doing, and its rows
  late,      \* overtaken listing requests that can still do something
  confirm,   \* ConfirmModal: the pending question
  perms,     \* PermissionModal: the pending form
  queue,     \* file operations, in the order they were queued
  sel,       \* selectedFile(), kept per route; openPath(); viewPath()
  text,      \* the editor's content
  reads,     \* file contents being fetched, the current one and those overtaken
  saving,
  download,  \* downloadState; ghost: whether its file was written whole
  streams,   \* downloads under way, the current one and those aborted
  events

browser == <<inst, path, listing, late>>
editor == <<sel, text, reads>>
dialogs == <<confirm, perms>>
transfer == <<download, streams>>
filesVars == <<page, browser, dialogs, queue, editor, saving, transfer, events>>
-----------------------------------------------------------------------------
None == [id |-> "-", path |-> <<>>]
Target == [id : Insts, path : Files]
Spot == [id : Insts, path : Dirs \cup Files]
At(i, p) == [id |-> i, path |-> p]
\* A name of a row joined to any path the browser can be at.
Joined == [id : Insts, path : {Append(p, Last(f)) : p \in Dirs \cup Files, f \in Files}]

NoQuestion == [what |-> "-", about |-> None]
Questions == [what : {"delete", "open", "discard"}, about : Joined]

\* The text shown: where it was read from, and where the page believes it is from
\* (loadedFile, loadedPath; result of the viewer, whose draft is src).
NoText == [src |-> None, loaded |-> None, loading |-> FALSE, failed |-> FALSE, cut |-> FALSE,
           dirty |-> FALSE]

Idle == [active |-> FALSE, done |-> FALSE, failed |-> FALSE, whole |-> FALSE]

Operation == [do : {"delete", "rename", "chmod", "create", "save"},
              on : Joined, asked : Joined, to : Files, src : Target \cup {None}]

\* createTabState keeps the selection of the compose page by route.
Home == CHOOSE i \in Insts : TRUE
Slot(i) == IF page.kind = "compose" THEN i ELSE Home
\* The file the page says is open: selectedFile() of this route, openPath() or viewPath().
Unset == <<"-">> \* never chosen on this tab; <<>>: cleared
IsOpen(f) == f \notin {<<>>, Unset}
Shown == IF ~IsOpen(sel[Slot(inst)]) THEN None ELSE At(inst, sel[Slot(inst)])

\* Type invariant.
FilesTypeOK ==
  /\ page \in [kind : Kinds, operator : BOOLEAN]
  /\ inst \in Insts /\ path \in Dirs \cup Files
  /\ listing \in [state : {"listing", "parent", "ready", "failed"}, rows : Spot \cup {None}]
  /\ late \subseteq [path : Files, parent : BOOLEAN]
  /\ confirm \in Questions \cup {NoQuestion} /\ perms \in Joined \cup {None}
  /\ queue \in Seq(Operation)
  /\ sel \in [Insts -> Files \cup {<<>>, Unset}]
  /\ text \in [src : Target \cup {None}, loaded : Target \cup {None}, loading : BOOLEAN,
               failed : BOOLEAN, cut : BOOLEAN, dirty : BOOLEAN]
  /\ reads \subseteq [of : Target, current : BOOLEAN]
  /\ saving \in BOOLEAN
  /\ download \in [active : BOOLEAN, done : BOOLEAN, failed : BOOLEAN, whole : BOOLEAN]
  /\ streams \subseteq [step : {"pick", "fetch", "read", "close"}, aborted : BOOLEAN]
  /\ events \in 0..MaxEvents

FilesInit ==
  /\ page \in [kind : Kinds, operator : BOOLEAN]
  /\ inst = Home /\ path = <<>>
  /\ listing = [state |-> "listing", rows |-> None] /\ late = {}
  /\ confirm = NoQuestion /\ perms = None /\ queue = <<>>
  /\ sel = [i \in Insts |-> Unset]
  /\ text = NoText /\ reads = {} /\ saving = FALSE
  /\ download = Idle /\ streams = {} /\ events = 0

User == events < MaxEvents /\ events' = events + 1
\* A dialog covers the page; the browser's own back button does not care.
Free == confirm = NoQuestion /\ perms = None /\ (page.kind = "source" => Shown = None)
-----------------------------------------------------------------------------
(* The listing.  createResource fetches whenever its source changes, and   *)
(* keeps the answer of its latest request only.  An overtaken request is   *)
(* of no consequence any more, unless it was for the path of a file.       *)

Overtaken == IF path \in Files /\ listing.state \in {"listing", "parent"}
             THEN {[path |-> path, parent |-> listing.state = "parent"]} ELSE {}

Load == listing' = [listing EXCEPT !.state = "listing"] /\ late' = late \cup Overtaken

\* nav
Nav(p) ==
  /\ path' = p /\ UNCHANGED inst
  /\ IF p = path THEN UNCHANGED <<listing, late>> ELSE Load

\* enter, up, the path bar: a directory, or the path of a file typed in.
Navigate(p) ==
  /\ User /\ Free /\ p # path
  /\ Nav(p)
  /\ UNCHANGED <<page, dialogs, queue, editor, saving, transfer>>

\* The diff and mount toggles: another request for the same place.
Toggle ==
  /\ User /\ Free /\ page.kind = "source"
  /\ Load /\ UNCHANGED <<inst, path>>
  /\ UNCHANGED <<page, dialogs, queue, editor, saving, transfer>>

ListAnswers ==
  /\ listing.state = "listing"
  /\ listing' = [state |-> "ready", rows |-> At(inst, path)]
  /\ UNCHANGED <<page, inst, path, late, dialogs, queue, editor, saving, transfer, events>>

\* catch (err): it may be the path of a file, so the directory above is listed.
ListFails ==
  /\ listing.state = "listing"
  /\ listing' = [listing EXCEPT !.state = IF path = <<>> THEN "failed" ELSE "parent"]
  /\ UNCHANGED <<page, inst, path, late, dialogs, queue, editor, saving, transfer, events>>

\* The directory above holds such a file: nav(dir), a new request.
ParentAnswers ==
  /\ listing.state = "parent" /\ path \in Files
  /\ path' = Front(path) /\ listing' = [listing EXCEPT !.state = "listing"]
  /\ UNCHANGED <<page, inst, late, dialogs, queue, editor, saving, transfer, events>>

\* It does not, or cannot be listed either: the first error is thrown.
ParentFails ==
  /\ listing.state = "parent"
  /\ listing' = [listing EXCEPT !.state = "failed"]
  /\ UNCHANGED <<page, inst, path, late, dialogs, queue, editor, saving, transfer, events>>

\* The same for a request that was overtaken: it calls nav(dir) all the same.
LateAnswers(r) ==
  /\ r \in late
  /\ \/ /\ r.parent /\ path' = Front(r.path)
        /\ IF path' = path
           THEN late' = late \ {r} /\ UNCHANGED listing
           ELSE late' = (late \ {r}) \cup Overtaken /\ listing' = [listing EXCEPT !.state = "listing"]
     \/ /\ ~r.parent /\ late' = (late \ {r}) \cup {[r EXCEPT !.parent = TRUE]}
        /\ UNCHANGED <<path, listing>>
     \/ late' = late \ {r} /\ UNCHANGED <<path, listing>>
  /\ UNCHANGED <<page, inst, dialogs, queue, editor, saving, transfer, events>>

\* What can be clicked: rows that are not dimmed by a request under way.
Rows == IF listing.state = "ready" THEN {f \in Files : Front(f) = listing.rows.path} ELSE {}

\* join(e.name)
Join(f) == Append(path, Last(f))
-----------------------------------------------------------------------------
(* The editor and the viewer.                                              *)

\* fileRequest.begin; the viewer's effect: the text is dropped, the request before it aborted.
BeginText(f) ==
  /\ text' = [NoText EXCEPT !.loading = f # None,
                            !.src = IF page.kind = "source" THEN text.src ELSE None]
  /\ reads' = {[r EXCEPT !.current = FALSE] : r \in reads}
               \cup (IF f = None THEN {} ELSE {[of |-> f, current |-> TRUE]})

IsCurrent(r) == r.current

\* setSelectedFile, setViewPath: effects start over when it changes.  The configuration
\* page loads in openFile only (opening), and then again.
Choose(f, opening) ==
  /\ sel' = [sel EXCEPT ![Slot(inst)] = f]
  /\ IF IF page.kind = "config" THEN opening ELSE f # sel[Slot(inst)]
     THEN BeginText(IF f = <<>> THEN None ELSE At(inst, f))
     ELSE UNCHANGED <<text, reads>>

\* The compose page opens the project's own file once, when its store has the project and
\* nothing was ever chosen.
AutoSelect(f) ==
  /\ page.kind = "compose" /\ sel[inst] = Unset
  /\ Choose(f, FALSE)
  /\ UNCHANGED <<page, browser, dialogs, queue, saving, transfer, events>>

\* openFile: a name that does not look like text is asked about first.
OpenFile(f, plain) ==
  /\ User /\ Free /\ f \in Rows
  /\ IF plain
     THEN Choose(Join(f), TRUE) /\ UNCHANGED confirm
     ELSE confirm' = [what |-> "open", about |-> At(inst, Join(f))] /\ UNCHANGED editor
  /\ UNCHANGED <<page, browser, perms, queue, saving, transfer>>

\* A file's text arrives, whole or cut at two megabytes; the answer of a request that was
\* aborted or overtaken is dropped.
TextArrives(r, cut) ==
  /\ r \in reads /\ reads' = reads \ {r}
  /\ text' = IF IsCurrent(r)
             THEN [text EXCEPT !.src = r.of, !.loaded = r.of, !.cut = cut, !.loading = FALSE,
                               !.dirty = FALSE]
             ELSE text
  /\ UNCHANGED <<page, browser, dialogs, queue, sel, saving, transfer, events>>

TextFails(r) ==
  /\ r \in reads /\ reads' = reads \ {r}
  /\ text' = IF IsCurrent(r) THEN [text EXCEPT !.failed = TRUE, !.loading = FALSE] ELSE text
  /\ UNCHANGED <<page, browser, dialogs, queue, sel, saving, transfer, events>>

\* editable(): the viewer is read-only for who cannot save, and for a file that was cut.
Editable == page.kind = "source" /\ page.operator /\ text.loaded # None /\ ~text.cut

\* The user types.  Only the viewer looks at whether the text was changed.
Type ==
  /\ User /\ confirm = NoQuestion /\ Shown # None /\ Editable /\ ~text.dirty
  /\ text' = [text EXCEPT !.dirty = TRUE]
  /\ UNCHANGED <<page, browser, dialogs, queue, sel, reads, saving, transfer>>

\* Mutant: the loaded file is not compared with the selected one.
CanSaveAny(loaded, selected) ==
  loaded # None /\ ~text.loading /\ ~text.failed /\ ~text.cut

\* canSaveFile
CanSave(loaded, selected) ==
  loaded # None /\ ~text.loading /\ ~text.failed /\ ~text.cut /\ loaded = selected

Enqueue(do, f, asked, to, src) ==
  queue' = Append(queue, [do |-> do, on |-> f, asked |-> asked, to |-> to, src |-> src])

\* saveSelectedFile, save.  The editor pages hide their button from who may not save, but
\* Ctrl-S asks for no role: the backend refuses it then.
Save ==
  /\ User /\ ~saving /\ Shown # None
  /\ confirm = NoQuestion /\ perms = None
  /\ IF page.kind = "source" THEN Editable /\ text.dirty ELSE CanSave(text.loaded, Shown)
  /\ Enqueue("save", Shown, text.loaded, Shown.path, text.src)
  /\ saving' = TRUE
  /\ UNCHANGED <<page, browser, dialogs, editor, transfer>>

\* The viewer is closed; close() asks first when the text has been changed.
CloseViewer ==
  /\ User /\ page.kind = "source" /\ Shown # None /\ confirm = NoQuestion /\ perms = None
  /\ IF text.dirty
     THEN confirm' = [what |-> "discard", about |-> Shown] /\ UNCHANGED editor
     ELSE Choose(<<>>, FALSE) /\ UNCHANGED confirm
  /\ UNCHANGED <<page, browser, perms, queue, saving, transfer>>
-----------------------------------------------------------------------------
(* The operations of a row.                                                *)

\* doDelete up to its await: the question names the row.
AskDelete(f) ==
  /\ User /\ Free /\ page.operator /\ f \in Rows
  /\ confirm' = [what |-> "delete", about |-> At(listing.rows.id, f)]
  /\ UNCHANGED <<page, browser, perms, queue, editor, saving, transfer>>

\* resolve(true): the handler goes on.  doDelete joins the name to the path of now.
Confirmed ==
  /\ User /\ confirm # NoQuestion /\ confirm' = NoQuestion
  /\ CASE confirm.what = "delete" ->
            /\ Enqueue("delete", At(inst, Join(confirm.about.path)), confirm.about,
                       confirm.about.path, None)
            /\ UNCHANGED editor
       [] confirm.what = "open" ->
            Choose(confirm.about.path, TRUE) /\ UNCHANGED queue
       [] confirm.what = "discard" ->
            Choose(<<>>, FALSE) /\ UNCHANGED queue
  /\ UNCHANGED <<page, browser, perms, saving, transfer>>

\* resolve(false)
Dismissed ==
  /\ User /\ confirm # NoQuestion /\ confirm' = NoQuestion
  /\ UNCHANGED <<page, browser, perms, queue, editor, saving, transfer>>

\* doChmod: the path is joined before the form opens, the handler taken after it.
AskPermissions(f) ==
  /\ User /\ Free /\ page.operator /\ f \in Rows
  /\ perms' = At(listing.rows.id, Join(f))
  /\ UNCHANGED <<page, browser, confirm, queue, editor, saving, transfer>>

Permitted(apply) ==
  /\ User /\ perms # None /\ perms' = None
  /\ IF apply THEN Enqueue("chmod", At(inst, perms.path), perms, perms.path, None)
              ELSE UNCHANGED queue
  /\ UNCHANGED <<page, browser, confirm, editor, saving, transfer>>

\* commitRename: refused when the new name is in the listing.
Rename(f, g) ==
  /\ User /\ Free /\ page.operator /\ f \in Rows
  /\ g # f /\ Front(g) = Front(f) /\ g \in Files
  /\ Enqueue("rename", At(inst, Join(f)), At(listing.rows.id, f), g, None)
  /\ UNCHANGED <<page, browser, dialogs, editor, saving, transfer>>

\* commitCreate, upload
CreateFile(f) ==
  /\ User /\ Free /\ page.operator /\ Front(f) = path
  /\ Enqueue("create", At(inst, f), At(inst, f), f, None)
  /\ UNCHANGED <<page, browser, dialogs, editor, saving, transfer>>

-----------------------------------------------------------------------------
(* What happens to a page from outside.                                    *)

\* Mutant: the listing's source does not name the instance (instanceKey).
SwitchInstUnkeyed(i) ==
  /\ User /\ page.kind # "config" /\ i # inst
  /\ inst' = i /\ path' = <<>>
  /\ IF path = <<>> THEN UNCHANGED <<listing, late>> ELSE Load
  /\ BeginText(IF IsOpen(sel[Slot(i)]) THEN At(i, sel[Slot(i)]) ELSE None)
  /\ UNCHANGED <<page, dialogs, queue, sel, saving, transfer>>

\* The route goes to another instance: FileBrowser starts at its initial path, after a
\* first request for the old path; the effects of the editor and the viewer start over.
\* Dialogs are global and stay.
SwitchInst(i) ==
  /\ User /\ page.kind # "config" /\ i # inst
  /\ inst' = i /\ path' = <<>>
  /\ listing' = [listing EXCEPT !.state = "listing"]
  /\ late' = late \cup Overtaken
                  \cup (IF path \in Files THEN {[path |-> path, parent |-> FALSE]} ELSE {})
  /\ BeginText(IF IsOpen(sel[Slot(i)]) THEN At(i, sel[Slot(i)]) ELSE None)
  /\ UNCHANGED <<page, dialogs, queue, sel, saving, transfer>>

\* A task on the container has ended and its page reads the container again: viewUrl()
\* depends on its state, so the viewer's effect starts over.
Reinspect ==
  /\ User /\ page.kind = "source" /\ BeginText(Shown)
  /\ UNCHANGED <<page, browser, dialogs, queue, sel, saving, transfer>>

\* Operations of an instance run in the order they were queued.
FirstOfKey(k) == \A j \in 1..(k - 1) : queue[j].on.id # queue[k].on.id

Moved(o) == CASE o.do = "delete" -> <<>> [] o.do = "rename" -> o.to

\* deleteFile, renameFile: what is selected by now follows the file.
Follow(o) ==
  IF o.do \in {"delete", "rename"} /\ page.kind # "source" /\ sel[Slot(inst)] = o.on.path
  THEN Choose(Moved(o), FALSE)
  ELSE UNCHANGED editor

\* setResult({...t, text: saved}): whatever the viewer shows by now.
SaveShown(o, dirty) ==
  IF page.kind = "source"
  THEN text' = [text EXCEPT !.loaded = o.asked, !.cut = FALSE,
                            !.dirty = IF text.src = o.src THEN dirty ELSE TRUE]
  ELSE UNCHANGED text

\* A task of the queue is done, which needs an operator, and the handler that awaited it goes on.
TaskDone(k) ==
  /\ page.operator /\ k \in DOMAIN queue /\ FirstOfKey(k) /\ queue' = RemoveAt(queue, k)
  /\ IF queue[k].do = "save"
     THEN /\ saving' = FALSE
          /\ \E dirty \in {FALSE, text.dirty} : SaveShown(queue[k], dirty)
          /\ UNCHANGED <<browser, sel, reads>>
     ELSE /\ Load /\ Follow(queue[k])
          /\ UNCHANGED <<inst, path, saving>>
  /\ UNCHANGED <<page, dialogs, transfer, events>>

\* It failed: rename and chmod read the directory again all the same (finally).
Failed(k) ==
  /\ k \in DOMAIN queue /\ FirstOfKey(k) /\ queue' = RemoveAt(queue, k)
  /\ saving' = (saving /\ queue[k].do # "save")
  /\ IF queue[k].do \in {"rename", "chmod"}
     THEN Load ELSE UNCHANGED <<listing, late>>
  /\ UNCHANGED <<page, inst, path, dialogs, editor, transfer, events>>
-----------------------------------------------------------------------------
(* The download: createDownloadTask and its twins in the pages.            *)

\* Every new generation aborts the download before it.
Abort == {[s EXCEPT !.aborted = TRUE] : s \in streams}

StartDownload ==
  /\ User /\ Free /\ Rows # {}
  /\ download' = [Idle EXCEPT !.active = TRUE]
  /\ streams' = Abort \cup {[step |-> "pick", aborted |-> FALSE]}
  /\ UNCHANGED <<page, browser, dialogs, queue, editor, saving>>

\* The widget is closed, or the page is left.
CloseDownload ==
  /\ User /\ download.active
  /\ download' = [download EXCEPT !.active = FALSE] /\ streams' = Abort
  /\ UNCHANGED <<page, browser, dialogs, queue, editor, saving>>

Following(step) == CASE step = "pick" -> "fetch" [] step = "fetch" -> "read" [] step = "read" -> "close"

\* The picker is answered, the response comes, the body has been read: an aborted download
\* gets no further than its fetch or its next read.
Advance(s) ==
  /\ s \in streams /\ s.step # "close" /\ (s.step = "pick" \/ ~s.aborted)
  /\ streams' = (streams \ {s}) \cup {[s EXCEPT !.step = Following(@)]}
  /\ UNCHANGED <<page, browser, dialogs, queue, editor, saving, download, events>>

\* Mutant: no comparison.
EndedAny(s, ok) ==
  /\ streams' = streams \ {s}
  /\ download' = [download EXCEPT !.done = TRUE, !.failed = ~ok, !.whole = ok /\ ~s.aborted]
  /\ UNCHANGED <<page, browser, dialogs, queue, editor, saving, events>>

\* The generation is compared before the widget is told.
Ended(s, ok) ==
  /\ streams' = streams \ {s}
  /\ download' = IF s.aborted THEN download
                 ELSE [download EXCEPT !.done = TRUE, !.failed = ~ok, !.whole = ok]
  /\ UNCHANGED <<page, browser, dialogs, queue, editor, saving, events>>

\* writable.close() goes through even when the download was aborted meanwhile.
Closes(s) == s \in streams /\ s.step = "close" /\ Ended(s, TRUE)
\* Picker dismissed, request refused, body cut off or too large, disk full, abort.
Breaks(s) == s \in streams /\ Ended(s, FALSE)
-----------------------------------------------------------------------------
Answers == ListAnswers \/ ListFails \/ ParentAnswers \/ ParentFails
LateAnswer == \E r \in late : LateAnswers(r)
TextAnswers == \E r \in reads : TextFails(r) \/ \E cut \in BOOLEAN : TextArrives(r, cut)
TaskEnds == \E k \in DOMAIN queue : TaskDone(k) \/ Failed(k)
Streams == \E s \in streams : s.step # "pick" /\ (Advance(s) \/ Closes(s) \/ Breaks(s))
Picks == \E s \in streams : s.step = "pick" /\ (Advance(s) \/ Breaks(s))

OnFiles ==
  \/ \E p \in Dirs \cup Files : Navigate(p)
  \/ \E f \in Files : AskDelete(f) \/ AskPermissions(f) \/ CreateFile(f)
                     \/ (\E plain \in BOOLEAN : OpenFile(f, plain)) \/ \E g \in Files : Rename(f, g)
  \/ Toggle \/ Confirmed \/ Dismissed \/ \E apply \in BOOLEAN : Permitted(apply)

FilesNext ==
  \/ OnFiles \/ AutoSelect(ComposeFile) \/ Type \/ Save \/ CloseViewer
  \/ (\E i \in Insts : SwitchInst(i)) \/ Reinspect
  \/ StartDownload \/ CloseDownload \/ Picks
  \/ Answers \/ LateAnswer \/ TextAnswers \/ TaskEnds \/ Streams

FilesSpec == FilesInit /\ [][FilesNext]_filesVars
-----------------------------------------------------------------------------
(* Properties.                                                             *)

\* Rows that can be clicked are those of the instance and the directory the browser is at:
\* the handlers join names to its path.  FileBrowser.tsx:78 tells of the route changing
\* under a browser whose path stays the same.
RowsMatch == Rows # {} => listing.rows = At(inst, path)

\* What an editor page queues for saving was read, whole, from the file it overwrites.
SavesWhatItLoaded ==
  \A k \in DOMAIN queue : queue[k].do = "save" /\ page.kind # "source" => queue[k].src = queue[k].on

\* A download shown as done without an error has written its whole file, and is the one
\* the widget names.
DownloadIsReal == download.done /\ ~download.failed => download.whole

\* "Closing (or switching file) ... drops the decoded text": the viewer shows the text of
\* the file in its title.  Not kept: FilesPage_viewer.cfg.
ViewerShowsItsFile ==
  page.kind = "source" /\ Shown # None /\ text.loaded # None => text.src = Shown /\ text.loaded = Shown

\* FileBrowser.tsx:78-84: no action "silently targets the new container" while an old
\* listing is on screen: an operation a row asked for is carried out on that row's file.
\* Not kept: FilesPage_target.cfg.
ActsOnWhatIsShown == \A k \in DOMAIN queue : queue[k].do # "save" => queue[k].on = queue[k].asked

\* The state is sound: types, and a download widget that tells the truth.
FilesSound == FilesTypeOK /\ DownloadIsReal
=============================================================================
