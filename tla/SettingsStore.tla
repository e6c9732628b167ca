--------------------------- MODULE SettingsStore ---------------------------
(***************************************************************************)
(* The settings document, its file and the two ways between them: load()    *)
(* of BasicSettingsReader, save() of BasicSettingsStore, which writes       *)
(* through WriteFileAtomic() (src/app/settings, src/app/win32/file.cc).     *)
(* Each call of WriteFileAtomic() into the system is a step, so that the    *)
(* process or the machine may stop in between.                              *)
(***************************************************************************)
CONSTANTS
  Texts,       \* texts of settings files that parse
  StoreFaults  \* "read", "write", "memory", "rewrite", "kill", "power"

\* The other contents a file may have; "torn" is what an interrupted write leaves.
ASSUME TextsAssumption ==
  Texts \cap {"missing", "empty", "malformed", "torn"} = {}

VARIABLES
  file,    \* what a reader of the settings file finds
  temp,    \* what a reader of its ".tmp" file finds
  dirty,   \* the names among "file" and "temp" whose data is only in the system's cache
  stable,  \* what the name of the settings file stands for after a power loss
  saving,  \* where save() stands
  content, \* the text save() writes
  saved,   \* the text last saved with S_OK or found in the file; several when
           \* the process was killed before save() could report
  tree,    \* UserSettingsDocument::tree_
  root     \* whether root_ is set

diskVars == <<file, temp, dirty, stable>>
saveVars == <<saving, content, saved>>
storeVars == <<diskVars, saveVars, tree, root>>

Versions == Texts \cup {"missing", "empty", "malformed"}

TransientErrors == {"ERROR_ACCESS_DENIED", "ERROR_SHARING_VIOLATION"}
ReadErrors == TransientErrors \cup {"E_FAIL", "E_OUTOFMEMORY", "ERROR_NOT_ENOUGH_MEMORY"}

StoreInit ==
  /\ file \in Versions
  /\ stable = file /\ saved = {file}
  /\ temp = "missing" /\ dirty = {}
  /\ saving = "idle" /\ content = "empty"
  /\ tree = "empty" /\ root = FALSE

-----------------------------------------------------------------------------
(* load()                                                                  *)

\* ReadFile() fails for another reason than a missing file: nothing changes.
ReadFails(hr) ==
  /\ "read" \in StoreFaults
  /\ hr \in ReadErrors
  /\ UNCHANGED <<tree, root>>

\* document_.reset(), for a missing and for an empty file
Reset(hr) ==
  /\ file \in {"missing", "empty"}
  /\ hr = "S_OK"
  /\ tree' = "empty" /\ root' = FALSE

\* document_.parse(): the tree is filled before the rules are read from it,
\* and an exception leaves root_ as it was.
Parse(hr) ==
  \/ /\ file \in Texts
     /\ tree' = file
     /\ \/ hr = "S_OK" /\ root' = TRUE
        \/ "memory" \in StoreFaults /\ hr = "E_OUTOFMEMORY" /\ root' = root
  \/ /\ file \in {"malformed", "torn"}
     /\ hr = "E_FAIL"
     /\ tree' = "torn" /\ root' = root

Load(hr) ==
  /\ saving = "idle"
  /\ ReadFails(hr) \/ Reset(hr) \/ Parse(hr)
  /\ UNCHANGED <<diskVars, saveVars>>

-----------------------------------------------------------------------------
(* save()                                                                  *)

\* The rule editor changes the document; it needs the root to do so.
Edit ==
  /\ saving = "idle" /\ root
  /\ tree' \in Texts
  /\ UNCHANGED <<diskVars, saveVars, root>>

Return(texts) == saving' = "idle" /\ content' = "empty" /\ saved' = texts

\* DeleteFileW, whose result is ignored
DeleteTemp ==
  /\ temp' \in {temp, "missing"}
  /\ dirty' = IF temp' = "missing" THEN dirty \ {"temp"} ELSE dirty

\* str() and the path of the temporary file: both may run out of memory.
BeginSave ==
  /\ saving = "idle"
  /\ \/ saving' = "create" /\ content' = tree /\ saved' = saved
     \/ "memory" \in StoreFaults /\ Return(saved)
  /\ UNCHANGED <<diskVars, tree, root>>

CreateTemp ==
  /\ saving = "create"
  /\ \/ /\ saving' = "write"
        /\ temp' = "empty" /\ dirty' = dirty \cup {"temp"}
        /\ UNCHANGED <<content, saved>>
     \/ "write" \in StoreFaults /\ Return(saved) /\ UNCHANGED <<temp, dirty>>
  /\ UNCHANGED <<file, stable, tree, root>>

\* A failed write, like a failed flush, deletes the temporary file.
Fail == "write" \in StoreFaults /\ DeleteTemp /\ Return(saved)

WriteTemp ==
  /\ saving = "write"
  /\ \/ /\ saving' = "flush"
        /\ temp' = content
        /\ UNCHANGED <<dirty, content, saved>>
     \/ Fail
  /\ UNCHANGED <<file, stable, tree, root>>

FlushTemp_Skipped ==
  /\ saving = "flush"
  /\ saving' = "close"
  /\ UNCHANGED <<diskVars, content, saved, tree, root>>

FlushTemp ==
  /\ saving = "flush"
  /\ \/ /\ saving' = "close"
        /\ dirty' = dirty \ {"temp"}
        /\ UNCHANGED <<temp, content, saved>>
     \/ Fail
  /\ UNCHANGED <<file, stable, tree, root>>

\* When CloseHandle fails the temporary file stays.
CloseTemp ==
  /\ saving = "close"
  /\ \/ saving' = "move" /\ UNCHANGED <<content, saved>>
     \/ "write" \in StoreFaults /\ Return(saved)
  /\ UNCHANGED <<diskVars, tree, root>>

\* MoveFileExW puts the new name in place ...
MoveTemp ==
  /\ saving = "move"
  /\ \/ /\ saving' = "through"
        /\ file' = temp /\ temp' = "missing"
        /\ dirty' = IF "temp" \in dirty THEN {"file"} ELSE {}
        /\ UNCHANGED <<content, saved>>
     \/ Fail /\ UNCHANGED file
  /\ UNCHANGED <<stable, tree, root>>

EndMove_NotThrough ==
  /\ saving = "through"
  /\ Return({content})
  /\ UNCHANGED <<diskVars, tree, root>>

\* ... and returns when the change has reached the disk (WRITE_THROUGH).
EndMove ==
  /\ saving = "through"
  /\ stable' = file
  /\ Return({content})
  /\ UNCHANGED <<file, temp, dirty, tree, root>>

SaveContinues == CreateTemp \/ WriteTemp \/ FlushTemp \/ CloseTemp \/ MoveTemp \/ EndMove

-----------------------------------------------------------------------------
(* The world around the program                                            *)

\* The user edits the file in another program, which closes it afterwards.
RewriteFile ==
  /\ "rewrite" \in StoreFaults /\ saving # "through"
  /\ file' \in Versions
  /\ stable' = file' /\ saved' = {file'}
  /\ dirty' = dirty \ {"file"}
  /\ UNCHANGED <<temp, saving, content, tree, root>>

\* A new process starts with an empty document and finds what is there.
ForgetDocument ==
  /\ Return({file', stable'})
  /\ tree' = "empty" /\ root' = FALSE

\* The process ends, in the middle of anything; the system keeps its files.
ProcessEnds == UNCHANGED diskVars /\ ForgetDocument

\* The machine stops: of a name that was being replaced either version may
\* be found, and data the cache had not written is torn.
PowerLoss ==
  /\ "power" \in StoreFaults
  /\ \E f \in {file, stable} :
       file' = IF "file" \in dirty /\ f = file THEN "torn" ELSE f
  /\ stable' = file'
  /\ temp' \in IF "temp" \in dirty THEN {"missing", "torn"} ELSE {"missing", temp}
  /\ dirty' = {}
  /\ ForgetDocument

StoreNext ==
  \/ \E hr \in ReadErrors \cup {"S_OK"} : ~root /\ Load(hr)
  \/ Edit
  \/ root /\ BeginSave
  \/ SaveContinues
  \/ RewriteFile
  \/ ProcessEnds
  \/ PowerLoss

StoreSpec == StoreInit /\ [][StoreNext]_storeVars

-----------------------------------------------------------------------------
(* Properties                                                              *)

\* The variables of the store hold values the code's types allow, and a root
\* exists only for a tree that was parsed to its end.
StoreTypeOK ==
  /\ file \in Versions \cup {"torn"} /\ stable \in Versions \cup {"torn"}
  /\ temp \in Versions \cup {"torn"}
  /\ dirty \subseteq {"file", "temp"}
  /\ saving \in {"idle", "create", "write", "flush", "close", "move", "through"}
  /\ content \in Versions \cup {"torn"} /\ saved \subseteq Versions \cup {"torn"}
  /\ tree \in Texts \cup {"empty", "torn"} /\ root \in BOOLEAN
  /\ root => tree \in Texts

\* WriteFileAtomic() replaces the file in one piece: whatever fails or stops
\* in between, a reader finds the old or the new text, never a part of one and
\* never the remains of a document that did not parse.
File == INSTANCE AtomicFile WITH value <- file
ImplementsAtomicFile == File!Spec

\* When no save() is under way, the text that was last reported to be saved is
\* what a reader finds, and what a power loss would leave.
SavedSurvives == saving = "idle" => {file, stable} \subseteq saved /\ "file" \notin dirty

=============================================================================
