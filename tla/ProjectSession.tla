--------------------------- MODULE ProjectSession ---------------------------
(***************************************************************************)
(* The project of one installation of the application, through sessions    *)
(* that end by closing or by a crash: ProjectController                    *)
(* (app/controllers/project_controller.py), the files of project_io.py,    *)
(* and the questions MainWindow asks before it drops a project.            *)
(*                                                                         *)
(* A project is its version: 0 is the blank project, and every edit makes  *)
(* a version that is nowhere else.  A real save and an autosave run on the *)
(* main thread, so nothing but a crash comes between their steps; while a  *)
(* question or a message is on the screen the event loop runs, so the      *)
(* autosave timer may fire, and the system may hand over a file to open (a *)
(* QFileOpenEvent of macOS, or at startup the file of the command line).   *)
(*                                                                         *)
(* Two messages come in the middle of what they belong to: a save to a     *)
(* file a coworker has open warns before it sets path, dirty and the rest, *)
(* and opening a file whose chips esptool does not know warns before it    *)
(* takes the lock.  They are on a stack of open boxes, the last one first. *)
(*                                                                         *)
(* A sidecar is "mine" (this process holds it), "dead" (left by a crash of *)
(* this installation) or "other" (a coworker's, who follows the same code  *)
(* and takes over ours when it has become too old).                        *)
(*                                                                         *)
(* Left out: flashes under way at closing, the Full Lock, the project's    *)
(* name, and spellings of one path; a legacy file is never a save target,  *)
(* as the Save As dialog offers .emfm only.                                *)
(***************************************************************************)
EXTENDS Integers, Sequences

CONSTANTS
    Files,      \* paths of .emfm files
    Legacy,     \* paths of .efmproj files
    NoPath,     \* None
    MaxEdits,   \* bound: versions made by edits
    MaxBoxes    \* bound: boxes on the screen over one another

ASSUME SessionAssumption ==
    /\ Files \cap Legacy = {} /\ NoPath \notin Files \cup Legacy
    /\ "slot" \notin Files \cup Legacy
    /\ MaxEdits \in Nat /\ MaxBoxes \in Nat \ {0}

VARIABLES
    phase,      \* "off", "crashed", "recovery" (its question is on), "up"
    startup,    \* the file to open once the window is up, or NoPath
    project,    \* the version in memory
    path,       \* current_file_path
    dirty,
    legacy,     \* legacy_pending_migration
    question,   \* what is asked before which command, [on, what]
    boxes,      \* messages on the screen, the last one first, each with the
                \* half of a save or an opening that waits for it, [on, file]
    saving,     \* the write under way, [to, step]
    disk,       \* the version in each file
    slot,       \* the version in the crash-recovery slot
    sidecar,    \* the lock sidecar of each file
    made,       \* versions made so far
    protected,  \* history: the version autosaved in the slot that has not been
                \* saved, given up or replaced by the system since, or Absent
    heir,       \* history: does the project in memory descend from it?
    consent,    \* history: was discarding agreed to for the last command?
    misled,     \* history: did the system open a file under the question that
                \* is on, which was asked about another project?
    crossed     \* history: did it open one under a box, in this session?

vars == <<phase, startup, project, path, dirty, legacy, question, boxes, saving, disk,
          slot, sidecar, made, protected, heir, consent, misled, crossed>>

memory == <<project, path, dirty, legacy>>
screen == <<question, boxes>>
history == <<protected, heir, consent, misled, crossed>>

Absent == -1        \* no such file
Torn == -2          \* a file written in part
Versions == 0..made
NoQuestion == [on |-> "nothing", what |-> "nothing"]
NotSaving == [to |-> NoPath, step |-> "none"]
Box(on, f) == [on |-> on, file |-> f]

TypeOK ==
    /\ phase \in {"off", "crashed", "recovery", "up"}
    /\ startup \in Files \cup Legacy \cup {NoPath}
    /\ project \in Versions
    /\ path \in Files \cup {NoPath}
    /\ dirty \in BOOLEAN /\ legacy \in BOOLEAN
    /\ question \in {NoQuestion} \cup
          [on : {"new", "open", "close"},
           what : {"migrate", "failed", "discard", "file", "go"}]
    /\ boxes \in Seq([on : {"save", "open"}, file : Files])
    /\ saving \in [to : Files \cup {"slot", NoPath}, step : {"none", "temp", "replaced"}]
    /\ disk \in [Files \cup Legacy -> Versions \cup {Absent, Torn}]
    /\ slot \in Versions \cup {Absent, Torn}
    /\ sidecar \in [Files -> {"none", "mine", "dead", "other"}]
    /\ made \in Nat
    /\ protected \in Versions \cup {Absent}
    /\ heir \in BOOLEAN /\ consent \in BOOLEAN
    /\ misled \in BOOLEAN /\ crossed \in BOOLEAN

\* Version 1 is what the legacy files hold.
Init ==
    /\ phase = "off" /\ startup = NoPath
    /\ project = 0 /\ path = NoPath /\ dirty = FALSE /\ legacy = FALSE
    /\ question = NoQuestion /\ boxes = <<>> /\ saving = NotSaving
    /\ \E stored \in [Files -> {0, Absent}] :
          disk = [f \in Files \cup Legacy |-> IF f \in Legacy THEN 1 ELSE stored[f]]
    /\ slot = Absent
    /\ sidecar = [f \in Files |-> "none"]
    /\ made = 1
    /\ protected = Absent /\ heir = FALSE /\ consent = FALSE
    /\ misled = FALSE /\ crossed = FALSE

-----------------------------------------------------------------------------
(* The lock sidecars: the coworker's is respected, any other is taken. *)

\* release_project_lock removes the sidecar of this process only.
Released(locks) == [f \in Files |-> IF f = path /\ locks[f] = "mine" THEN "none" ELSE locks[f]]

\* acquire_project_lock, which may also fail to write the sidecar.
Acquired(locks, f) ==
    {locks} \cup (IF locks[f] = "other" THEN {} ELSE {[locks EXCEPT ![f] = "mine"]})

\* What is left of them when the process has ended.
Dead(locks) == [f \in Files |-> IF locks[f] = "mine" THEN "dead" ELSE locks[f]]

CoworkerLocks(f) ==     \* opens the file, perhaps over a sidecar of ours grown old
    /\ sidecar[f] # "other"
    /\ sidecar' = [sidecar EXCEPT ![f] = "other"]
    /\ UNCHANGED <<phase, startup, memory, screen, saving, disk, slot, made, history>>

CoworkerUnlocks(f) ==
    /\ sidecar[f] = "other"
    /\ sidecar' = [sidecar EXCEPT ![f] = "none"]
    /\ UNCHANGED <<phase, startup, memory, screen, saving, disk, slot, made, history>>

-----------------------------------------------------------------------------
(* Starting, crashing. *)

\* main: a new process with a blank project; if there is something in the
\* recovery slot the window asks about it before it opens any file.
Launch ==
    /\ phase \in {"off", "crashed"}
    /\ phase' = IF slot # Absent THEN "recovery" ELSE "up"
    /\ startup' \in Files \cup Legacy \cup {NoPath}
    /\ project' = 0 /\ path' = NoPath /\ dirty' = FALSE /\ legacy' = FALSE
    /\ heir' = FALSE
    /\ UNCHANGED <<screen, saving, disk, slot, sidecar, made, protected, consent,
                   misled, crossed>>

\* recover_autosaved_project: the slot keeps its copy.
RecoverAndDiscard ==                                \* mutant: the slot is emptied
    /\ project' = slot /\ path' = NoPath /\ dirty' = TRUE /\ legacy' = FALSE
    /\ slot' = Absent
    /\ heir' = (protected # Absent)
    /\ UNCHANGED protected

Recover ==
    /\ project' = slot /\ path' = NoPath /\ dirty' = TRUE /\ legacy' = FALSE
    /\ heir' = (protected # Absent)
    /\ UNCHANGED <<slot, protected>>

AnswerRecovery ==
    /\ phase = "recovery"
    /\ phase' = "up"
    /\ \/ Recover
       \/ slot' = Absent /\ protected' = Absent /\ UNCHANGED <<memory, heir>>
    /\ UNCHANGED <<startup, screen, saving, disk, sidecar, made, consent, misled, crossed>>

\* After a file was opened under a box the slot may be anyone's.
SessionOver ==
    /\ project' = 0 /\ path' = NoPath /\ dirty' = FALSE /\ legacy' = FALSE
    /\ heir' = FALSE
    /\ misled' = FALSE /\ crossed' = FALSE

\* The process dies: its memory and its open files are gone.
Crash ==
    /\ phase \in {"recovery", "up"}
    /\ phase' = "crashed"
    /\ startup' = NoPath
    /\ question' = NoQuestion /\ boxes' = <<>> /\ saving' = NotSaving
    /\ sidecar' = Dead(sidecar)
    /\ protected' = IF crossed THEN Absent ELSE protected
    /\ SessionOver
    /\ UNCHANGED <<disk, slot, made, consent>>

-----------------------------------------------------------------------------
(* New, open, close, and what is asked before them. *)

\* The event loop runs: nothing holds it up.
Loop == phase = "up" /\ startup = NoPath /\ saving = NotSaving /\ question.what # "go"

\* And the user can reach the window, or the question over it.
Idle == Loop /\ boxes = <<>>

\* The save under way is the one a legacy project is forced into: nothing else
\* is saved to a file while that question is on and no box over it.
Forced == question.what = "migrate" /\ saving.to # "slot" /\ boxes = <<>>

Ask(q) == question' = q /\ misled' = (misled /\ q # NoQuestion)

\* The project in memory is saved, dropped with consent, or replaced: its copy
\* in the slot is not counted as protected any more.
GiveUp == /\ protected' = IF heir THEN Absent ELSE protected
          /\ heir' = FALSE

NewProject ==
    /\ sidecar' = Released(sidecar)
    /\ project' = 0 /\ path' = NoPath /\ dirty' = FALSE /\ legacy' = FALSE
    /\ GiveUp

\* open_project: a file that cannot be read changes nothing.  A legacy file
\* leaves no path to save to.  The window shows the project as soon as it is
\* in memory; a warning about its chips holds up the lock of its file.
OpenProject(f) ==
    /\ disk[f] \in Versions
    /\ project' = disk[f]
    /\ path' = IF f \in Legacy THEN NoPath ELSE f
    /\ dirty' = (f \in Legacy) /\ legacy' = (f \in Legacy)
    /\ \/ /\ f \in Legacy
          /\ sidecar' = Released(sidecar)
          /\ UNCHANGED boxes
       \/ /\ f \notin Legacy
          /\ sidecar' \in Acquired(Released(sidecar), f)
          /\ UNCHANGED boxes
       \/ /\ f \notin Legacy
          /\ Len(boxes) < MaxBoxes
          /\ sidecar' = Released(sidecar)
          /\ boxes' = <<Box("open", f)>> \o boxes

\* The warning is read: the file that was being opened is locked, whatever is
\* in memory by now.
OpenGoesOn ==
    /\ Loop /\ boxes # <<>>
    /\ Head(boxes).on = "open"
    /\ boxes' = Tail(boxes)
    /\ sidecar' \in Acquired(sidecar, Head(boxes).file)
    /\ UNCHANGED <<phase, startup, memory, question, saving, disk, slot, made, history>>

\* closeEvent: the slot is left as it is.
CloseProject ==
    /\ phase' = "off"
    /\ sidecar' = Dead(Released(sidecar))
    /\ protected' = IF heir \/ crossed THEN Absent ELSE protected
    /\ SessionOver

\* What is asked next before a command: for a legacy project to be migrated,
\* then for unsaved changes to be discarded, then for the file to open.
AskedSkippingLegacy(command, pending, unsaved) ==   \* mutant: no forced save
    [on |-> command,
     what |-> IF unsaved THEN "discard" ELSE IF command = "open" THEN "file" ELSE "go"]

Asked(command, pending, unsaved) ==
    [on |-> command,
     what |-> IF pending THEN "migrate"
              ELSE IF unsaved THEN "discard"
              ELSE IF command = "open" THEN "file" ELSE "go"]

Command(command) ==
    /\ Idle /\ question = NoQuestion
    /\ question' = Asked(command, legacy, dirty)
    /\ consent' = FALSE
    /\ UNCHANGED <<phase, startup, memory, boxes, saving, disk, slot, sidecar, made,
                   protected, heir, misled, crossed>>

\* No, or Cancel in the question or in the dialog it leads to.  Whether the
\* command goes on after a save that was forced, and did not come about, is
\* decided by what is in memory by then.
CancelQuestion ==
    /\ Idle /\ question # NoQuestion
    /\ \/ /\ question.what # "failed" \/ legacy
          /\ Ask(NoQuestion)
       \/ /\ question.what \in {"migrate", "failed"} /\ ~legacy
          /\ Ask(Asked(question.on, FALSE, dirty))
    /\ UNCHANGED <<phase, startup, memory, boxes, saving, disk, slot, sidecar, made,
                   protected, heir, consent, crossed>>

\* "Discard them?"  Yes.
AgreeToDiscard ==
    /\ Idle /\ question.what = "discard"
    /\ question' = Asked(question.on, FALSE, FALSE)
    /\ consent' = TRUE
    /\ UNCHANGED <<phase, startup, memory, boxes, saving, disk, slot, sidecar, made,
                   protected, heir, misled, crossed>>

\* Nothing is left to ask.
CarryOut ==
    /\ phase = "up" /\ question.what = "go" /\ boxes = <<>>
    /\ question' = NoQuestion
    /\ \/ /\ question.on = "new" /\ NewProject
          /\ misled' = FALSE
          /\ UNCHANGED <<phase, crossed>>
       \/ question.on = "close" /\ CloseProject
    /\ UNCHANGED <<startup, boxes, saving, disk, slot, made, consent>>

OpenChosen(f) ==
    /\ Idle /\ question.what = "file"
    /\ Ask(NoQuestion)
    /\ OpenProject(f) /\ GiveUp
    /\ UNCHANGED <<phase, startup, saving, disk, slot, made, consent, crossed>>

\* open_project_at_startup: no question asked, whatever is unsaved.
OpenUnasked(f) ==
    /\ OpenProject(f) /\ GiveUp
    /\ misled' = (misled \/ question # NoQuestion)
    /\ crossed' = (crossed \/ boxes # <<>>)

OpenAtStartup ==
    /\ phase = "up" /\ startup # NoPath
    /\ startup' = NoPath
    /\ OpenUnasked(startup) \/ UNCHANGED <<memory, boxes, sidecar, protected, heir, misled, crossed>>
    /\ UNCHANGED <<phase, question, saving, disk, slot, made, consent>>

SystemOpen(f) ==
    /\ Loop
    /\ OpenUnasked(f)
    /\ UNCHANGED <<phase, startup, question, saving, disk, slot, made, consent>>

-----------------------------------------------------------------------------
(* Edits and saves. *)

\* Any change of the project through the window, which marks it dirty.
Edit ==
    /\ Idle /\ question = NoQuestion
    /\ made < MaxEdits + 1
    /\ made' = made + 1
    /\ project' = made + 1
    /\ dirty' = TRUE
    /\ UNCHANGED <<phase, startup, path, legacy, screen, saving, disk, slot, sidecar, history>>

\* _atomic_write_json writes and syncs a temporary file first.
StartWriteInPlace(to) ==                            \* mutant: opens the target for writing
    /\ saving' = [to |-> to, step |-> "temp"]
    /\ disk' = [f \in Files \cup Legacy |-> IF f = to THEN Torn ELSE disk[f]]

StartWrite(to) ==
    /\ saving' = [to |-> to, step |-> "temp"]
    /\ UNCHANGED disk

\* Save: without a path it is Save As, which chooses a file.  Save As is also
\* the forced save of a legacy project.
Save(to) ==
    /\ Idle
    /\ \/ question = NoQuestion
       \/ question.what = "migrate"
    /\ StartWrite(to)
    /\ UNCHANGED <<phase, startup, memory, screen, slot, sidecar, made, history>>

\* _on_autosave_timeout
Autosave ==
    /\ Loop /\ dirty
    /\ StartWrite(IF path = NoPath THEN "slot" ELSE path)
    /\ UNCHANGED <<phase, startup, memory, screen, slot, sidecar, made, history>>

\* os.replace puts the temporary file in the place of the real one.
Replace ==
    /\ saving.step = "temp"
    /\ IF saving.to = "slot"
       THEN /\ slot' = project /\ protected' = project /\ heir' = TRUE
            /\ saving' = NotSaving
            /\ UNCHANGED disk
       ELSE /\ disk' = [disk EXCEPT ![saving.to] = project]
            /\ saving' = [saving EXCEPT !.step = "replaced"]
            /\ UNCHANGED <<slot, protected, heir>>
    /\ UNCHANGED <<phase, startup, memory, screen, sidecar, made, consent, misled, crossed>>

\* An OSError: the project stays dirty, and a temporary file may be left.  The
\* message about a forced save that failed is still part of its command.
WriteFailsClean ==                                  \* mutant: clean all the same
    /\ saving.step = "temp"
    /\ saving' = NotSaving
    /\ dirty' = FALSE
    /\ UNCHANGED <<phase, startup, project, path, legacy, screen, disk, slot, sidecar,
                   made, history>>

WriteFails ==
    /\ saving.step = "temp"
    /\ saving' = NotSaving
    /\ question' = IF Forced THEN [question EXCEPT !.what = "failed"] ELSE question
    /\ UNCHANGED <<phase, startup, memory, boxes, disk, slot, sidecar, made, history>>

\* The rest of save_project: the lock moves with the path, a warning shows if
\* a coworker holds the new one, and then the project counts as saved, the
\* slot is emptied, and the command that forced the save goes on.
MovedLocksKeepOld(to) == Acquired(sidecar, to)      \* mutant: the old path stays locked

MovedLocks(to) == IF to = path THEN {sidecar} ELSE Acquired(Released(sidecar), to)

Warned(to) == to # path /\ sidecar[to] = "other"

CountAsSaved(f) ==
    /\ path' = f /\ dirty' = FALSE /\ legacy' = FALSE
    /\ slot' = Absent
    /\ IF disk[f] = project THEN GiveUp ELSE UNCHANGED <<protected, heir>>

Conclude ==
    /\ saving.step = "replaced"
    /\ saving' = NotSaving
    /\ sidecar' \in MovedLocks(saving.to)
    /\ \/ /\ ~Warned(saving.to)
          /\ CountAsSaved(saving.to)
          /\ question' = IF Forced THEN Asked(question.on, FALSE, FALSE) ELSE question
          /\ UNCHANGED boxes
       \/ /\ Warned(saving.to)
          /\ boxes' = <<Box("save", saving.to)>> \o boxes
          /\ UNCHANGED <<path, dirty, legacy, slot, protected, heir, question>>
    /\ UNCHANGED <<phase, startup, project, disk, made, consent, misled, crossed>>

\* The warning is read: whatever is in memory by now counts as saved.
SaveGoesOn ==
    /\ Loop /\ boxes # <<>>
    /\ Head(boxes).on = "save"
    /\ boxes' = Tail(boxes)
    /\ CountAsSaved(Head(boxes).file)
    /\ question' = IF question.what = "migrate" THEN Asked(question.on, FALSE, FALSE) ELSE question
    /\ UNCHANGED <<phase, startup, project, saving, disk, sidecar, made, consent, misled, crossed>>

-----------------------------------------------------------------------------

Next ==
    \/ Launch \/ AnswerRecovery \/ Crash
    \/ \E command \in {"new", "open", "close"} : Command(command)
    \/ CancelQuestion \/ AgreeToDiscard \/ CarryOut
    \/ \E f \in Files \cup Legacy : OpenChosen(f) \/ SystemOpen(f)
    \/ OpenAtStartup
    \/ Edit \/ Autosave \/ Replace \/ WriteFails \/ Conclude \/ SaveGoesOn \/ OpenGoesOn
    \/ \E f \in Files : Save(f) \/ CoworkerLocks(f) \/ CoworkerUnlocks(f)

Spec == Init /\ [][Next]_vars

-----------------------------------------------------------------------------
(* Properties. *)

\* A project that is not marked dirty, and so is dropped without a question,
\* is on disk in the file it was saved to, or is the blank one; unless the
\* system opened a file under a box of this session.
CleanMeansSaved ==
    phase = "up" /\ ~dirty /\ ~crossed =>
        IF path = NoPath THEN project = 0 ELSE disk[path] = project

\* Whenever the process dies, each file and the slot hold a whole version.
FilesAreWhole == TypeOK /\ slot # Torn /\ \A f \in Files \cup Legacy : disk[f] # Torn

\* The sidecar of this process lies beside the file it has open and nowhere
\* else, however projects are opened, saved elsewhere, replaced and closed;
\* with the same exception.
LockFollowsPath ==
    \A f \in Files : sidecar[f] = "mine" => phase = "up" /\ (path = f \/ crossed)

\* What the autosave protected stays in the slot until it is saved, given up
\* or replaced, through crashes, recoveries and further crashes; again but
\* for a file opened under a box.
SafetyNetHolds == protected # Absent /\ ~crossed => slot = protected

\* What has been written survives a crash at any step.
WrittenSurvives == FilesAreWhole /\ SafetyNetHolds

\* The project in memory is no longer unsaved, or no longer there.
Drops == dirty /\ (~dirty' \/ (project' # project /\ made' = made))

\* It is the one in the file that is now its own.
InItsFile == project' = project /\ path' \in Files /\ disk'[path'] = project

OpenedBySystem == OpenAtStartup \/ \E f \in Files \cup Legacy : SystemOpen(f)

\* Unsaved work goes only by a save of this very work, by a crash, by a file
\* the system opens or with the user's consent; a legacy project not even
\* with that, but only by a save.  An answer to a question that was asked
\* about another project counts for nothing, nor does what goes on after a
\* box under which the system opened a file.
NothingDroppedUnasked ==
    [][Drops => \/ InItsFile
                \/ phase' = "crashed"
                \/ OpenedBySystem
                \/ misled \/ crossed
                \/ consent /\ ~legacy]_vars

-----------------------------------------------------------------------------
(* What the comments say, and the code does not do. *)

\* open_project_at_startup bypasses the prompt about unsaved changes, for
\* "there is nothing to discard yet", at the start as on a QFileOpenEvent.
NothingToDiscardYet == [][OpenedBySystem /\ project' # project => ~dirty]_vars

\* save_project empties the slot, for "a real save always supersedes whatever
\* was sitting in the crash-recovery slot": no autosaved work is lost by it.
SaveSupersedesSlot ==
    [][phase = "up" /\ slot # Absent /\ slot' = Absent => protected' = Absent]_vars
=============================================================================
