----------------------- MODULE ProjectSession_proofs -----------------------
(***************************************************************************)
(* Proofs about ProjectSession: what is clean is saved, what is written    *)
(* survives, the lock follows the file, and nothing unsaved is dropped     *)
(* unasked, for any files and any number of edits, saves and crashes.      *)
(***************************************************************************)
EXTENDS ProjectSession, SequenceTheorems, TLAPS

\* Without a window there is nothing in memory and nothing on the screen, and
\* the question about the slot is only asked when there is something in it.
RestInv ==
    /\ phase # "up" =>
          /\ project = 0 /\ path = NoPath /\ ~dirty /\ ~legacy /\ ~heir
          /\ question = NoQuestion /\ boxes = <<>> /\ saving = NotSaving
          /\ ~misled /\ ~crossed
    /\ phase = "recovery" => slot # Absent

\* The file of the command line is opened before anything is asked, shown or
\* saved, and a command is carried out before anything else is.
OrderInv ==
    /\ startup # NoPath => question = NoQuestion /\ boxes = <<>> /\ saving = NotSaving
    /\ question.what = "go" => saving = NotSaving

\* A write is of the project in memory, the slot's is of unsaved work, and the
\* one that moves the project to another file is not made under a box.
SaveInv ==
    /\ \/ saving = NotSaving
       \/ saving.step = "temp" /\ saving.to = "slot" /\ dirty
       \/ saving.step = "temp" /\ saving.to \in Files
       \/ saving.step = "replaced" /\ saving.to \in Files /\ disk[saving.to] = project
    /\ saving = NotSaving \/ saving.to \in {path, "slot"} \/ boxes = <<>>

\* What has been asked before a command is enough for what is in memory,
\* unless the system has opened a file since.
AskedInv ==
    ~misled /\ ~crossed =>
       /\ question.what = "discard" => ~legacy
       /\ question.what \in {"file", "go"} /\ dirty => consent /\ ~legacy

\* The project in memory is the one the slot protects.
NetInv == phase = "up" /\ protected # Absent /\ ~crossed => heir /\ dirty

Unlocked == \A g \in Files : sidecar[g] # "mine"

\* Unless a file was opened under it, a box is the only one; what is in memory
\* is what its save has written, or what its opening has read, and no sidecar
\* is held until it goes on.
BoxInv ==
    ~crossed =>
       \/ boxes = <<>>
       \/ Unlocked /\ \E f \in Files :
             \/ boxes = <<Box("save", f)>> /\ disk[f] = project
             \/ boxes = <<Box("open", f)>> /\ path = f /\ ~dirty

SessionInv ==
    /\ FilesAreWhole
    /\ CleanMeansSaved /\ LockFollowsPath /\ SafetyNetHolds
    /\ RestInv /\ OrderInv /\ SaveInv /\ AskedInv /\ NetInv /\ BoxInv

-----------------------------------------------------------------------------
(* Lemmas about the files and their sidecars. *)

Locks == {"none", "mine", "dead", "other"}

LEMMA FileTypes ==
    ASSUME FilesAreWhole
    PROVE  /\ disk \in [Files \cup Legacy -> Versions \cup {Absent, Torn}]
           /\ slot \in Versions \cup {Absent} /\ protected \in Versions \cup {Absent}
           /\ sidecar \in [Files -> Locks]
           /\ project \in Versions /\ 0 \in Versions /\ made \in Nat
           /\ path \in Files \cup {NoPath} /\ startup \in Files \cup Legacy \cup {NoPath}
           /\ saving \in [to : Files \cup {"slot", NoPath}, step : {"none", "temp", "replaced"}]
           /\ boxes \in Seq([on : {"save", "open"}, file : Files])
           /\ misled \in BOOLEAN /\ crossed \in BOOLEAN /\ dirty \in BOOLEAN /\ consent \in BOOLEAN
<1>1. made \in Nat
  BY DEF FilesAreWhole, TypeOK
<1>2. 0 \in Versions
  BY <1>1 DEF Versions
<1> QED BY <1>1, <1>2 DEF FilesAreWhole, TypeOK, Locks

\* A step that makes no version knows the same ones after it.
LEMMA SameVersions == made' = made => Versions' = Versions
BY DEF Versions

\* Released, Acquired and Dead: this process gives up the sidecar it holds,
\* takes at most one, and holds none when it is gone.
LEMMA ReleasedLocks ==
    ASSUME FilesAreWhole
    PROVE  /\ Released(sidecar) \in [Files -> Locks]
           /\ LockFollowsPath /\ ~crossed => \A g \in Files : Released(sidecar)[g] # "mine"
<1>1. sidecar \in [Files -> Locks]
  BY FileTypes
<1> QED BY <1>1 DEF Released, Locks, LockFollowsPath

LEMMA AcquiredLocks ==
    ASSUME NEW locks \in [Files -> Locks], NEW f \in Files, NEW after \in Acquired(locks, f)
    PROVE  /\ after \in [Files -> Locks]
           /\ (\A g \in Files : locks[g] # "mine") => \A g \in Files : after[g] = "mine" => g = f
           /\ locks[f] = "other" => after = locks
<1>1. after = locks \/ after = [locks EXCEPT ![f] = "mine"]
  BY DEF Acquired
<1>2. locks[f] = "other" => after = locks
  BY DEF Acquired
<1> QED BY <1>1, <1>2 DEF Locks

LEMMA DeadLocks ==
    ASSUME NEW locks \in [Files -> Locks]
    PROVE  /\ Dead(locks) \in [Files -> Locks]
           /\ \A g \in Files : Dead(locks)[g] # "mine"
BY DEF Dead, Locks

\* A box on the stack and off it.
LEMMA BoxTypes ==
    ASSUME FilesAreWhole
    PROVE  /\ \A f \in Files, on \in {"save", "open"} :
                 <<Box(on, f)>> \o boxes \in Seq([on : {"save", "open"}, file : Files])
           /\ boxes = <<>> => \A b : <<b>> \o boxes = <<b>>
           /\ boxes # <<>> => /\ Tail(boxes) \in Seq([on : {"save", "open"}, file : Files])
                              /\ Head(boxes) \in [on : {"save", "open"}, file : Files]
           /\ \A b : boxes = <<b>> => Head(boxes) = b /\ Tail(boxes) = <<>>
           /\ \A b : <<b>> # <<>>
<1>1. boxes \in Seq([on : {"save", "open"}, file : Files])
  BY FileTypes
<1>2. ASSUME NEW f \in Files, NEW on \in {"save", "open"}
      PROVE  <<Box(on, f)>> \o boxes \in Seq([on : {"save", "open"}, file : Files])
  <2>1. <<Box(on, f)>> \in Seq([on : {"save", "open"}, file : Files])
    BY DEF Box
  <2> QED BY <1>1, <2>1, ConcatProperties
<1>3. boxes = <<>> => \A b : <<b>> \o boxes = <<b>>
  OBVIOUS
<1>4. boxes # <<>> => /\ Tail(boxes) \in Seq([on : {"save", "open"}, file : Files])
                      /\ Head(boxes) \in [on : {"save", "open"}, file : Files]
  BY <1>1, HeadTailProperties
<1>5. \A b : boxes = <<b>> => Head(boxes) = b /\ Tail(boxes) = <<>>
  OBVIOUS
<1>6. \A b : <<b>> # <<>>
  OBVIOUS
<1> QED BY <1>2, <1>3, <1>4, <1>5, <1>6

\* open_project: the project in memory is the one of the file, and unsaved
\* only if that file cannot be saved to; a sidecar is held unless a box holds
\* that up.
LEMMA Opened ==
    ASSUME SessionInv, NEW f \in Files \cup Legacy, OpenProject(f)
    PROVE  /\ project' \in Versions /\ path' \in Files \cup {NoPath}
           /\ dirty' \in BOOLEAN /\ legacy' \in BOOLEAN
           /\ sidecar' \in [Files -> Locks]
           /\ boxes' \in Seq([on : {"save", "open"}, file : Files])
           /\ ~crossed => \A g \in Files : sidecar'[g] = "mine" => path' = g
           /\ ~dirty' => path' # NoPath /\ disk[path'] = project'
           /\ ~crossed /\ boxes = <<>> =>
                 \/ boxes' = <<>>
                 \/ /\ \A g \in Files : sidecar'[g] # "mine"
                    /\ f \in Files /\ boxes' = <<Box("open", f)>> /\ path' = f /\ ~dirty'
<1>1. /\ Released(sidecar) \in [Files -> Locks]
      /\ ~crossed => \A g \in Files : Released(sidecar)[g] # "mine"
  BY ReleasedLocks DEF SessionInv
<1>2. boxes \in Seq([on : {"save", "open"}, file : Files])
  BY FileTypes DEF SessionInv
<1>3. project' \in Versions /\ dirty' \in BOOLEAN /\ legacy' \in BOOLEAN
  BY DEF OpenProject
<1>4. CASE f \in Legacy
  BY <1>1, <1>2, <1>3, <1>4 DEF OpenProject
<1>5. CASE f \notin Legacy
  <2>1. f \in Files /\ f # NoPath
    BY <1>5, SessionAssumption
  <2>2. path' = f /\ project' = disk[f] /\ ~dirty'
    BY <1>5 DEF OpenProject
  <2>3. CASE sidecar' \in Acquired(Released(sidecar), f) /\ UNCHANGED boxes
    BY <1>1, <1>2, <1>3, <2>1, <2>2, <2>3, AcquiredLocks
  <2>4. CASE sidecar' = Released(sidecar) /\ boxes' = <<Box("open", f)>> \o boxes
    BY <1>1, <1>3, <2>1, <2>2, <2>4, BoxTypes DEF SessionInv
  <2> QED BY <1>5, <2>3, <2>4 DEF OpenProject
<1> QED BY <1>4, <1>5

-----------------------------------------------------------------------------
(* One lemma per action. *)

LEMMA LaunchStep ==
    ASSUME SessionInv, Launch
    PROVE  SessionInv'
<1>1. Versions' = Versions /\ project' \in Versions'
  BY FileTypes, SameVersions DEF SessionInv, Launch
<1>2. /\ UNCHANGED <<question, boxes, saving, disk, slot, sidecar, made, protected, consent,
                     misled, crossed>>
      /\ boxes = <<>> /\ saving = NotSaving /\ question = NoQuestion /\ ~crossed /\ ~misled
      /\ phase # "up"
  BY DEF SessionInv, RestInv, Launch, screen
<1>3. FilesAreWhole'
  BY <1>1, <1>2, FileTypes DEF SessionInv, FilesAreWhole, TypeOK, Locks, Launch
<1>4. (CleanMeansSaved /\ LockFollowsPath /\ SafetyNetHolds)'
  BY <1>2 DEF SessionInv, CleanMeansSaved, LockFollowsPath, SafetyNetHolds, Launch
<1>5. (RestInv /\ OrderInv /\ SaveInv /\ AskedInv /\ BoxInv)'
  BY <1>2 DEF RestInv, OrderInv, SaveInv, AskedInv, BoxInv, Launch, NoQuestion
<1>6. NetInv'
  BY <1>2 DEF SessionInv, SafetyNetHolds, NetInv, Launch
<1> QED BY <1>3, <1>4, <1>5, <1>6 DEF SessionInv

LEMMA RecoverStep ==
    ASSUME SessionInv, AnswerRecovery
    PROVE  SessionInv'
<1>1. Versions' = Versions
  BY SameVersions DEF AnswerRecovery
<1>2. /\ phase = "recovery" /\ phase' = "up"
      /\ UNCHANGED <<startup, question, boxes, saving, disk, sidecar, made, consent, misled,
                     crossed>>
      /\ project = 0 /\ path = NoPath /\ ~dirty /\ ~legacy /\ ~heir
      /\ question = NoQuestion /\ boxes = <<>> /\ saving = NotSaving /\ slot \in Versions
  BY FileTypes DEF AnswerRecovery, SessionInv, RestInv, screen
<1>3. CASE Recover
  <2>1. /\ project' = slot /\ path' = NoPath /\ dirty' = TRUE /\ legacy' = FALSE
        /\ slot' = slot /\ protected' = protected /\ heir' = (protected # Absent)
    BY <1>3 DEF Recover
  <2>2. FilesAreWhole'
    BY <1>1, <1>2, <2>1 DEF SessionInv, FilesAreWhole, TypeOK
  <2>3. (CleanMeansSaved /\ LockFollowsPath /\ SafetyNetHolds)'
    BY <1>2, <2>1 DEF SessionInv, CleanMeansSaved, LockFollowsPath, SafetyNetHolds
  <2>4. (RestInv /\ OrderInv /\ SaveInv /\ AskedInv /\ NetInv /\ BoxInv)'
    BY <1>2, <2>1 DEF SessionInv, RestInv, OrderInv, SaveInv, AskedInv, NetInv, BoxInv,
                      NoQuestion, NotSaving
  <2> QED BY <2>2, <2>3, <2>4 DEF SessionInv
<1>4. CASE slot' = Absent /\ protected' = Absent /\ UNCHANGED <<memory, heir>>
  <2>1. UNCHANGED <<project, path, dirty, legacy, heir>>
    BY <1>4 DEF memory
  <2>2. FilesAreWhole'
    BY <1>1, <1>2, <1>4, <2>1 DEF SessionInv, FilesAreWhole, TypeOK, Absent, Torn
  <2>3. (CleanMeansSaved /\ LockFollowsPath /\ SafetyNetHolds)'
    BY <1>2, <1>4, <2>1 DEF SessionInv, CleanMeansSaved, LockFollowsPath, SafetyNetHolds
  <2>4. (RestInv /\ OrderInv /\ SaveInv /\ AskedInv /\ NetInv /\ BoxInv)'
    BY <1>2, <1>4, <2>1 DEF SessionInv, RestInv, OrderInv, SaveInv, AskedInv, NetInv, BoxInv,
                            NoQuestion, NotSaving
  <2> QED BY <2>2, <2>3, <2>4 DEF SessionInv
<1> QED BY <1>3, <1>4 DEF AnswerRecovery

\* The end of a session, by closing or by a crash, wherever it had come to.
LEMMA OverStep ==
    ASSUME SessionInv, SessionOver, phase' \in {"off", "crashed"}, startup' = NoPath,
           question' = NoQuestion, boxes' = <<>>, saving' = NotSaving,
           NEW locks \in [Files -> Locks], sidecar' = Dead(locks),
           protected' = Absent \/ (protected' = protected /\ ~crossed),
           UNCHANGED <<disk, slot, made, consent>>
    PROVE  SessionInv'
<1>1. Versions' = Versions /\ project' \in Versions'
  BY FileTypes, SameVersions DEF SessionInv, SessionOver
<1>2. sidecar' \in [Files -> Locks] /\ \A g \in Files : sidecar'[g] # "mine"
  BY DeadLocks
<1>3. <<>> \in Seq([on : {"save", "open"}, file : Files])
  OBVIOUS
<1>4. FilesAreWhole'
  BY <1>1, <1>2, <1>3 DEF SessionInv, FilesAreWhole, TypeOK, SessionOver, NotSaving, Locks
<1>5. (CleanMeansSaved /\ LockFollowsPath /\ SafetyNetHolds)'
  BY <1>2 DEF SessionInv, CleanMeansSaved, LockFollowsPath, SafetyNetHolds
<1>6. (RestInv /\ OrderInv /\ SaveInv /\ AskedInv /\ NetInv /\ BoxInv)'
  BY DEF RestInv, OrderInv, SaveInv, AskedInv, NetInv, BoxInv, SessionOver, NoQuestion
<1> QED BY <1>4, <1>5, <1>6 DEF SessionInv

LEMMA CrashStep ==
    ASSUME SessionInv, Crash
    PROVE  SessionInv'
<1>1. sidecar \in [Files -> Locks]
  BY FileTypes DEF SessionInv
<1> QED BY <1>1, OverStep DEF Crash

LEMMA CommandStep ==
    ASSUME SessionInv, NEW command \in {"new", "open", "close"}, Command(command)
    PROVE  SessionInv'
<1>1. Versions' = Versions /\ project' \in Versions'
  BY FileTypes, SameVersions DEF SessionInv, Command, memory
<1>2. question' \in {NoQuestion} \cup [on : {"new", "open", "close"},
                                       what : {"migrate", "failed", "discard", "file", "go"}]
  BY DEF Command, Asked
<1>3. FilesAreWhole'
  <2>1. UNCHANGED <<phase, startup, project, path, dirty, legacy, boxes, saving, disk, slot, sidecar,
                    made, protected, heir, misled, crossed>> /\ consent' = FALSE
    BY DEF Command, memory
  <2>2. FilesAreWhole
    BY DEF SessionInv
  <2>3. disk' \in [Files \cup Legacy -> Versions' \cup {Absent, Torn}]
        /\ \A f \in Files \cup Legacy : disk'[f] # Torn
    BY <1>1, <2>1, <2>2 DEF FilesAreWhole, TypeOK
  <2>4. boxes' \in Seq([on : {"save", "open"}, file : Files])
    BY <2>1, <2>2 DEF FilesAreWhole, TypeOK
  <2>5. sidecar' \in [Files -> {"none", "mine", "dead", "other"}]
    BY <2>1, <2>2 DEF FilesAreWhole, TypeOK
  <2>6. saving' \in [to : Files \cup {"slot", NoPath}, step : {"none", "temp", "replaced"}]
    BY <2>1, <2>2 DEF FilesAreWhole, TypeOK
  <2>7. question' \in {NoQuestion} \cup [on : {"new", "open", "close"},
                                       what : {"migrate", "failed", "discard", "file", "go"}]
    BY <1>2
  <2>8. slot' # Torn /\ slot' \in Versions' \cup {Absent, Torn} /\ protected' \in Versions' \cup {Absent}
    BY <1>1, <2>1, <2>2 DEF FilesAreWhole, TypeOK
  <2> QED BY <1>1, <2>1, <2>2, <2>3, <2>4, <2>5, <2>6, <2>7, <2>8 DEF FilesAreWhole, TypeOK
<1>4. (CleanMeansSaved /\ LockFollowsPath /\ SafetyNetHolds)'
  BY DEF SessionInv, CleanMeansSaved, LockFollowsPath, SafetyNetHolds, Command, memory
<1>5. (RestInv /\ OrderInv /\ SaveInv /\ AskedInv /\ NetInv)'
  BY DEF SessionInv, RestInv, OrderInv, SaveInv, AskedInv, NetInv, Command, Asked, Idle, Loop,
         memory
<1>6. BoxInv'
  BY DEF Command, Idle, BoxInv
<1> QED BY <1>3, <1>4, <1>5, <1>6 DEF SessionInv

LEMMA CancelStep ==
    ASSUME SessionInv, CancelQuestion
    PROVE  SessionInv'
<1>1. Versions' = Versions /\ project' \in Versions'
  BY FileTypes, SameVersions DEF SessionInv, CancelQuestion, memory
<1>2. /\ UNCHANGED <<phase, startup, project, path, dirty, legacy, boxes, saving, disk, slot,
                     sidecar, made, protected, heir, consent, crossed>>
      /\ phase = "up" /\ startup = NoPath /\ saving = NotSaving /\ boxes = <<>>
      /\ misled' = (misled /\ question' # NoQuestion)
  BY DEF CancelQuestion, Idle, Loop, memory, Ask
<1>3. \/ question' = NoQuestion
      \/ /\ question # NoQuestion /\ question.what \in {"migrate", "failed"} /\ ~legacy
         /\ question' = Asked(question.on, FALSE, dirty)
  BY DEF CancelQuestion, Ask
<1>4. question' \in {NoQuestion} \cup [on : {"new", "open", "close"},
                                       what : {"migrate", "failed", "discard", "file", "go"}]
  BY <1>3 DEF SessionInv, FilesAreWhole, TypeOK, Asked
<1>5. FilesAreWhole'
  BY <1>1, <1>2, <1>4, FileTypes DEF SessionInv, FilesAreWhole, TypeOK
<1>6. (CleanMeansSaved /\ LockFollowsPath /\ SafetyNetHolds /\ NetInv /\ BoxInv)'
  BY <1>2 DEF SessionInv, CleanMeansSaved, LockFollowsPath, SafetyNetHolds, NetInv, BoxInv
<1>7. (RestInv /\ OrderInv /\ SaveInv)'
  BY <1>2 DEF RestInv, OrderInv, SaveInv
<1>8. AskedInv'
  BY <1>2, <1>3 DEF AskedInv, Asked, NoQuestion
<1> QED BY <1>5, <1>6, <1>7, <1>8 DEF SessionInv

LEMMA AgreeStep ==
    ASSUME SessionInv, AgreeToDiscard
    PROVE  SessionInv'
<1>1. Versions' = Versions /\ project' \in Versions'
  BY FileTypes, SameVersions DEF SessionInv, AgreeToDiscard, memory
<1>2. FilesAreWhole'
  BY <1>1 DEF SessionInv, FilesAreWhole, TypeOK, AgreeToDiscard, Asked, memory, NoQuestion
<1>3. (CleanMeansSaved /\ LockFollowsPath /\ SafetyNetHolds)'
  BY DEF SessionInv, CleanMeansSaved, LockFollowsPath, SafetyNetHolds, AgreeToDiscard, memory
<1>4. (RestInv /\ OrderInv /\ SaveInv /\ AskedInv /\ NetInv)'
  BY DEF SessionInv, RestInv, OrderInv, SaveInv, AskedInv, NetInv, AgreeToDiscard, Asked, Idle,
         Loop, memory
<1>5. BoxInv'
  BY DEF AgreeToDiscard, Idle, BoxInv
<1> QED BY <1>2, <1>3, <1>4, <1>5 DEF SessionInv

LEMMA CarryOutStep ==
    ASSUME SessionInv, CarryOut
    PROVE  SessionInv'
<1>1. /\ question' = NoQuestion /\ phase = "up" /\ boxes' = <<>> /\ boxes = <<>>
      /\ saving' = NotSaving /\ saving = NotSaving /\ startup' = NoPath /\ startup = NoPath
      /\ UNCHANGED <<disk, slot, made, consent>>
  BY DEF CarryOut, SessionInv, OrderInv, NoQuestion
<1>2. /\ Released(sidecar) \in [Files -> Locks]
      /\ ~crossed => \A g \in Files : Released(sidecar)[g] # "mine"
  BY ReleasedLocks DEF SessionInv
<1>3. CASE CloseProject
  <2>1. protected' = Absent \/ (protected' = protected /\ ~crossed)
    BY <1>3 DEF CloseProject
  <2> QED BY <1>1, <1>2, <1>3, <2>1, OverStep DEF CloseProject
<1>4. CASE NewProject /\ misled' = FALSE /\ UNCHANGED <<phase, crossed>>
  <2>1. Versions' = Versions /\ 0 \in Versions
    BY <1>1, FileTypes, SameVersions DEF SessionInv
  <2>2. /\ sidecar' = Released(sidecar) /\ heir' = FALSE
        /\ project' = 0 /\ path' = NoPath /\ dirty' = FALSE /\ legacy' = FALSE
        /\ protected' = IF heir THEN Absent ELSE protected
    BY <1>4 DEF NewProject, GiveUp
  <2>3. FilesAreWhole'
    BY <1>1, <1>2, <1>4, <2>1, <2>2, FileTypes DEF SessionInv, FilesAreWhole, TypeOK, Locks
  <2>4. (CleanMeansSaved /\ LockFollowsPath /\ BoxInv)'
    BY <1>1, <1>2, <1>4, <2>2 DEF CleanMeansSaved, LockFollowsPath, BoxInv
  <2>5. (SafetyNetHolds /\ NetInv)'
    BY <1>1, <1>4, <2>2 DEF SessionInv, SafetyNetHolds, NetInv
  <2>6. (RestInv /\ OrderInv /\ SaveInv /\ AskedInv)'
    BY <1>1, <1>4, <2>2 DEF RestInv, OrderInv, SaveInv, AskedInv, NoQuestion
  <2> QED BY <2>3, <2>4, <2>5, <2>6 DEF SessionInv
<1> QED BY <1>3, <1>4 DEF CarryOut

\* open_project after a question and without one.
LEMMA OpenStep ==
    ASSUME SessionInv, NEW f \in Files \cup Legacy, OpenProject(f), GiveUp, phase = "up",
           UNCHANGED <<phase, saving, disk, slot, made, consent>>, saving = NotSaving,
           startup' = NoPath, misled' \in BOOLEAN, crossed' \in BOOLEAN, crossed => crossed',
           \/ question' = NoQuestion /\ boxes = <<>>
           \/ /\ question' = question /\ (~misled' => ~misled /\ question = NoQuestion)
              /\ ~crossed' => boxes = <<>>
    PROVE  SessionInv'
<1>1. Versions' = Versions
  BY SameVersions
<1>2. /\ project' \in Versions /\ path' \in Files \cup {NoPath}
      /\ dirty' \in BOOLEAN /\ legacy' \in BOOLEAN
      /\ sidecar' \in [Files -> Locks]
      /\ boxes' \in Seq([on : {"save", "open"}, file : Files])
      /\ ~crossed => \A g \in Files : sidecar'[g] = "mine" => path' = g
      /\ ~dirty' => path' # NoPath /\ disk[path'] = project'
      /\ ~crossed /\ boxes = <<>> =>
            \/ boxes' = <<>>
            \/ /\ \A g \in Files : sidecar'[g] # "mine"
               /\ f \in Files /\ boxes' = <<Box("open", f)>> /\ path' = f /\ ~dirty'
  BY Opened
<1>3. heir' = FALSE /\ protected' = IF heir THEN Absent ELSE protected
  BY DEF GiveUp
<1>4. FilesAreWhole'
  BY <1>1, <1>2, <1>3 DEF SessionInv, FilesAreWhole, TypeOK, Locks
<1>5. (CleanMeansSaved /\ LockFollowsPath)'
  BY <1>2 DEF CleanMeansSaved, LockFollowsPath
<1>6. (SafetyNetHolds /\ NetInv)'
  BY <1>3 DEF SessionInv, SafetyNetHolds, NetInv
<1>7. (RestInv /\ OrderInv /\ SaveInv)'
  BY DEF SessionInv, RestInv, OrderInv, SaveInv, NoQuestion
<1>8. AskedInv'
  BY DEF AskedInv, NoQuestion
<1>9. BoxInv'
  BY <1>2 DEF BoxInv, Unlocked
<1> QED BY <1>4, <1>5, <1>6, <1>7, <1>8, <1>9 DEF SessionInv

LEMMA OpeningStep ==
    ASSUME SessionInv,
           OpenAtStartup \/ \E f \in Files \cup Legacy : OpenChosen(f) \/ SystemOpen(f)
    PROVE  SessionInv'
<1>1. misled \in BOOLEAN /\ crossed \in BOOLEAN
  BY FileTypes DEF SessionInv
<1>2. ASSUME NEW f \in Files \cup Legacy, OpenChosen(f)
      PROVE  SessionInv'
  BY <1>1, <1>2, OpenStep DEF OpenChosen, Idle, Loop, Ask
<1>3. ASSUME NEW f \in Files \cup Legacy, OpenUnasked(f)
      PROVE  /\ OpenProject(f) /\ GiveUp
             /\ misled' \in BOOLEAN /\ crossed' \in BOOLEAN /\ (crossed => crossed')
             /\ ~misled' => ~misled /\ question = NoQuestion
             /\ ~crossed' => boxes = <<>>
  BY <1>1, <1>3 DEF OpenUnasked
<1>4. ASSUME NEW f \in Files \cup Legacy, SystemOpen(f)
      PROVE  SessionInv'
  BY <1>3, <1>4, OpenStep DEF SystemOpen, Loop
<1>5. CASE OpenAtStartup
  <2>1. /\ phase = "up" /\ startup # NoPath /\ startup' = NoPath
        /\ UNCHANGED <<phase, question, saving, disk, slot, made, consent>>
    BY <1>5 DEF OpenAtStartup
  <2>2. /\ startup \in Files \cup Legacy
        /\ question = NoQuestion /\ saving = NotSaving /\ boxes = <<>>
    BY <2>1, FileTypes DEF SessionInv, OrderInv
  <2>3. CASE OpenUnasked(startup)
    <3>1. PICK f \in Files \cup Legacy : f = startup
      BY <2>2
    <3>2. OpenUnasked(f)
      BY <2>3, <3>1
    <3> QED BY <1>3, <2>1, <2>2, <3>2, OpenStep
  <2>4. CASE UNCHANGED <<memory, boxes, sidecar, protected, heir, misled, crossed>>
    <3>1. UNCHANGED <<project, path, dirty, legacy, boxes, sidecar, protected, heir, misled,
                      crossed>>
      BY <2>4 DEF memory
    <3>2. Versions' = Versions
      BY <2>1, SameVersions
    <3>3. FilesAreWhole'
      BY <2>1, <3>1, <3>2 DEF SessionInv, FilesAreWhole, TypeOK
    <3>4. (CleanMeansSaved /\ LockFollowsPath /\ SafetyNetHolds)'
      BY <2>1, <3>1 DEF SessionInv, CleanMeansSaved, LockFollowsPath, SafetyNetHolds
    <3>5. (RestInv /\ OrderInv /\ SaveInv /\ AskedInv /\ NetInv /\ BoxInv)'
      BY <2>1, <2>2, <3>1 DEF SessionInv, RestInv, OrderInv, SaveInv, AskedInv, NetInv, BoxInv
    <3> QED BY <3>3, <3>4, <3>5 DEF SessionInv
  <2> QED BY <1>5, <2>3, <2>4 DEF OpenAtStartup
<1> QED BY <1>2, <1>4, <1>5

LEMMA OpenGoesOnStep ==
    ASSUME SessionInv, OpenGoesOn
    PROVE  SessionInv'
<1>1. Versions' = Versions
  BY SameVersions DEF OpenGoesOn
<1>2. /\ UNCHANGED <<phase, startup, project, path, dirty, legacy, question, saving, disk, slot,
                     made, protected, heir, consent, misled, crossed>>
      /\ phase = "up" /\ startup = NoPath /\ saving = NotSaving /\ boxes # <<>>
      /\ Head(boxes).on = "open" /\ boxes' = Tail(boxes)
      /\ sidecar' \in Acquired(sidecar, Head(boxes).file)
  BY DEF OpenGoesOn, Loop, memory, history
<1>3. /\ boxes' \in Seq([on : {"save", "open"}, file : Files]) /\ Head(boxes).file \in Files
      /\ \A b : boxes = <<b>> => Head(boxes) = b /\ Tail(boxes) = <<>>
  BY <1>2, BoxTypes DEF SessionInv
<1>4. sidecar \in [Files -> Locks]
  BY FileTypes DEF SessionInv
<1>5. /\ sidecar' \in [Files -> Locks]
      /\ Unlocked => \A g \in Files : sidecar'[g] = "mine" => g = Head(boxes).file
  BY <1>2, <1>3, <1>4, AcquiredLocks DEF Unlocked
<1>6. ~crossed => /\ Unlocked /\ boxes' = <<>>
                  /\ path = Head(boxes).file
  <2> SUFFICES ASSUME ~crossed PROVE Unlocked /\ boxes' = <<>> /\ path = Head(boxes).file
    OBVIOUS
  <2>1. Unlocked
    BY <1>2 DEF SessionInv, BoxInv
  <2>2. PICK f \in Files : \/ boxes = <<Box("save", f)>>
                           \/ boxes = <<Box("open", f)>> /\ path = f
    BY <1>2 DEF SessionInv, BoxInv
  <2>3. boxes # <<Box("save", f)>>
    BY <1>2, <1>3 DEF Box
  <2>4. Head(boxes) = Box("open", f) /\ Tail(boxes) = <<>>
    BY <1>3, <2>2, <2>3
  <2> QED BY <1>2, <2>1, <2>2, <2>3, <2>4 DEF Box
<1>7. FilesAreWhole'
  BY <1>1, <1>2, <1>3, <1>5 DEF SessionInv, FilesAreWhole, TypeOK, Locks
<1>8. (CleanMeansSaved /\ LockFollowsPath /\ SafetyNetHolds)'
  BY <1>2, <1>5, <1>6 DEF SessionInv, CleanMeansSaved, LockFollowsPath, SafetyNetHolds
<1>9. (RestInv /\ OrderInv /\ SaveInv /\ AskedInv /\ NetInv /\ BoxInv)'
  BY <1>2, <1>6 DEF SessionInv, RestInv, OrderInv, SaveInv, AskedInv, NetInv, BoxInv
<1> QED BY <1>7, <1>8, <1>9 DEF SessionInv

LEMMA EditStep ==
    ASSUME SessionInv, Edit
    PROVE  SessionInv'
<1>1. /\ made' \in Nat /\ Versions \subseteq Versions' /\ project' \in Versions'
  <2>1. made \in Nat
    BY FileTypes DEF SessionInv
  <2>2. 0..made \subseteq 0..(made + 1) /\ made + 1 \in 0..(made + 1) /\ made + 1 \in Nat
    BY ONLY <2>1
  <2>3. made' = made + 1 /\ project' = made + 1
    BY DEF Edit
  <2> QED BY <2>2, <2>3 DEF Versions
<1>2. UNCHANGED <<phase, startup, path, legacy, question, boxes, saving, disk, slot, sidecar,
                  protected, heir, consent, misled, crossed>> /\ dirty' = TRUE
  BY DEF Edit, history, screen
<1>3. FilesAreWhole'
  <2>1. disk' \in [Files \cup Legacy -> Versions' \cup {Absent, Torn}]
    BY <1>1, <1>2, FileTypes DEF SessionInv
  <2>2. slot' \in Versions' \cup {Absent, Torn} /\ protected' \in Versions' \cup {Absent}
    BY <1>1, <1>2, FileTypes DEF SessionInv
  <2> QED BY <1>1, <1>2, <2>1, <2>2 DEF SessionInv, FilesAreWhole, TypeOK
<1>4. (CleanMeansSaved /\ LockFollowsPath /\ SafetyNetHolds)'
  BY <1>2 DEF SessionInv, CleanMeansSaved, LockFollowsPath, SafetyNetHolds
<1>5. saving = NotSaving /\ question = NoQuestion /\ phase = "up" /\ boxes = <<>>
  BY DEF Edit, Idle, Loop
<1>6. (RestInv /\ OrderInv /\ SaveInv /\ AskedInv /\ NetInv /\ BoxInv)'
  BY <1>2, <1>5 DEF SessionInv, RestInv, OrderInv, SaveInv, AskedInv, NetInv, BoxInv, NoQuestion
<1> QED BY <1>3, <1>4, <1>6 DEF SessionInv

LEMMA SaveStep ==
    ASSUME SessionInv, NEW to \in Files, Save(to)
    PROVE  SessionInv'
<1>1. Versions' = Versions /\ project' \in Versions'
  BY FileTypes, SameVersions DEF SessionInv, Save, memory
<1>2. FilesAreWhole'
  BY <1>1 DEF SessionInv, FilesAreWhole, TypeOK, Save, StartWrite, memory, screen, history
<1>3. (CleanMeansSaved /\ LockFollowsPath /\ SafetyNetHolds)'
  BY DEF SessionInv, CleanMeansSaved, LockFollowsPath, SafetyNetHolds, Save, StartWrite, memory,
         history
<1>4. (RestInv /\ OrderInv /\ SaveInv /\ AskedInv /\ NetInv)'
  BY DEF SessionInv, RestInv, OrderInv, SaveInv, AskedInv, NetInv, Save, StartWrite, Idle, Loop,
         memory, screen, history
<1>5. BoxInv'
  BY DEF BoxInv, Save, Idle, screen
<1> QED BY <1>2, <1>3, <1>4, <1>5 DEF SessionInv

LEMMA AutosaveStep ==
    ASSUME SessionInv, Autosave
    PROVE  SessionInv'
<1>1. Versions' = Versions /\ project' \in Versions'
  BY FileTypes, SameVersions DEF SessionInv, Autosave, memory
<1>2. FilesAreWhole'
  BY <1>1 DEF SessionInv, FilesAreWhole, TypeOK, Autosave, StartWrite, memory, screen, history
<1>3. (CleanMeansSaved /\ LockFollowsPath /\ SafetyNetHolds)'
  BY DEF SessionInv, CleanMeansSaved, LockFollowsPath, SafetyNetHolds, Autosave, StartWrite, memory,
         history
<1>4. path \in Files \cup {NoPath}
  BY FileTypes DEF SessionInv
<1>5. (RestInv /\ OrderInv /\ AskedInv /\ NetInv)'
  BY DEF SessionInv, RestInv, OrderInv, AskedInv, NetInv, Autosave, StartWrite, Loop, memory,
         screen, history
<1>6. SaveInv'
  BY <1>4 DEF SaveInv, Autosave, StartWrite, memory, screen, history
<1>7. BoxInv'
  BY DEF SessionInv, BoxInv, Unlocked, Autosave, StartWrite, memory, screen, history
<1> QED BY <1>2, <1>3, <1>5, <1>6, <1>7 DEF SessionInv

LEMMA ReplaceStep ==
    ASSUME SessionInv, Replace
    PROVE  SessionInv'
<1>1. Versions' = Versions /\ project \in Versions /\ project' = project
  BY FileTypes, SameVersions DEF SessionInv, Replace, memory
<1>2. saving \in [to : Files \cup {"slot", NoPath}, step : {"none", "temp", "replaced"}]
  BY FileTypes DEF SessionInv
<1>3. /\ saving.step = "temp" /\ phase = "up"
      /\ (saving.to = "slot" /\ dirty) \/ saving.to \in Files
      /\ saving.to \in {path, "slot"} \/ boxes = <<>>
  BY DEF SessionInv, SaveInv, RestInv, Replace, NotSaving
<1>4. UNCHANGED <<phase, startup, path, dirty, legacy, question, boxes, sidecar, made, consent,
                  misled, crossed>>
  BY DEF Replace, memory, screen
<1>5. CASE saving.to = "slot"
  <2>1. /\ slot' = project /\ protected' = project /\ heir' = TRUE /\ saving' = NotSaving
        /\ disk' = disk
    BY <1>5 DEF Replace
  <2>2. project # Absent /\ project # Torn
    <3>1. made \in Nat
      BY FileTypes DEF SessionInv
    <3> QED BY <1>1, <3>1 DEF Versions, Absent, Torn
  <2>3. FilesAreWhole'
    BY <1>1, <1>4, <2>1, <2>2 DEF SessionInv, FilesAreWhole, TypeOK, NotSaving
  <2>4. dirty
    BY <1>3, <1>5, SessionAssumption
  <2>5. (CleanMeansSaved /\ LockFollowsPath /\ SafetyNetHolds)'
    BY <1>1, <1>4, <2>1 DEF SessionInv, CleanMeansSaved, LockFollowsPath, SafetyNetHolds
  <2>6. (RestInv /\ OrderInv /\ SaveInv /\ AskedInv /\ NetInv)'
    BY <1>3, <1>4, <2>1, <2>4 DEF SessionInv, RestInv, OrderInv, SaveInv, AskedInv, NetInv
  <2>7. BoxInv'
    BY <1>1, <1>4, <2>1 DEF SessionInv, BoxInv, Unlocked
  <2> QED BY <2>3, <2>5, <2>6, <2>7 DEF SessionInv
<1>6. CASE saving.to # "slot"
  <2>1. saving.to \in Files
    BY <1>3, <1>6
  <2>2. /\ disk' = [disk EXCEPT ![saving.to] = project]
        /\ saving' = [saving EXCEPT !.step = "replaced"]
        /\ UNCHANGED <<slot, protected, heir>>
    BY <1>6 DEF Replace
  <2>3. saving'.to = saving.to /\ saving'.step = "replaced"
        /\ saving' \in [to : Files \cup {"slot", NoPath}, step : {"none", "temp", "replaced"}]
    BY <1>2, <2>2
  <2>4. disk \in [Files \cup Legacy -> Versions \cup {Absent, Torn}]
    BY FileTypes DEF SessionInv
  <2>5. /\ disk' \in [Files \cup Legacy -> Versions \cup {Absent, Torn}]
        /\ disk'[saving.to] = project
        /\ \A f \in Files \cup Legacy : f # saving.to => disk'[f] = disk[f]
    BY <1>1, <2>1, <2>2, <2>4
  <2>6. project # Torn
    <3>1. made \in Nat
      BY FileTypes DEF SessionInv
    <3> QED BY <1>1, <3>1 DEF Versions, Torn
  <2>7. FilesAreWhole'
    BY <1>1, <1>4, <2>2, <2>3, <2>5, <2>6 DEF SessionInv, FilesAreWhole, TypeOK
  <2>8. CleanMeansSaved'
    <3>1. path \in Files \cup {NoPath}
      BY FileTypes DEF SessionInv
    <3> QED BY <1>1, <1>4, <2>2, <2>5, <3>1 DEF SessionInv, CleanMeansSaved
  <2>9. (LockFollowsPath /\ SafetyNetHolds)'
    BY <1>4, <2>2 DEF SessionInv, LockFollowsPath, SafetyNetHolds
  <2>10. (RestInv /\ OrderInv /\ AskedInv /\ NetInv)'
    BY <1>1, <1>3, <1>4, <2>2, <2>3 DEF SessionInv, RestInv, OrderInv, AskedInv, NetInv, NotSaving
  <2>11. SaveInv'
    BY <1>1, <1>3, <1>4, <2>1, <2>3, <2>5 DEF SaveInv
  <2>12. BoxInv'
    BY <1>1, <1>4, <2>5 DEF SessionInv, BoxInv, Unlocked
  <2> QED BY <2>7, <2>8, <2>9, <2>10, <2>11, <2>12 DEF SessionInv
<1> QED BY <1>5, <1>6

LEMMA WriteFailsStep ==
    ASSUME SessionInv, WriteFails
    PROVE  SessionInv'
<1>1. Versions' = Versions /\ project' \in Versions'
  BY FileTypes, SameVersions DEF SessionInv, WriteFails, memory
<1>2. /\ UNCHANGED <<phase, startup, project, path, dirty, legacy, boxes, disk, slot, sidecar, made,
                     protected, heir, consent, misled, crossed>>
      /\ saving' = NotSaving /\ phase = "up" /\ saving # NotSaving
  BY DEF WriteFails, memory, history, SessionInv, RestInv, NotSaving
<1>3. \/ question' = question
      \/ /\ question' = [question EXCEPT !.what = "failed"]
         /\ question.what = "migrate" /\ question # NoQuestion
  BY DEF WriteFails, Forced, NoQuestion
<1>4. /\ question' \in {NoQuestion} \cup [on : {"new", "open", "close"},
                                          what : {"migrate", "failed", "discard", "file", "go"}]
      /\ question'.what = question.what \/ question'.what = "failed"
  BY <1>3 DEF SessionInv, FilesAreWhole, TypeOK, NoQuestion
<1>5. startup = NoPath
  BY <1>2 DEF SessionInv, OrderInv
<1>6. FilesAreWhole'
  BY <1>1, <1>2, <1>4 DEF SessionInv, FilesAreWhole, TypeOK, NotSaving
<1>7. (CleanMeansSaved /\ LockFollowsPath /\ SafetyNetHolds /\ NetInv)'
  BY <1>2 DEF SessionInv, CleanMeansSaved, LockFollowsPath, SafetyNetHolds, NetInv
<1>8. (RestInv /\ OrderInv /\ SaveInv)'
  BY <1>2, <1>5 DEF RestInv, OrderInv, SaveInv
<1>9. AskedInv'
  BY <1>2, <1>4 DEF SessionInv, AskedInv
<1>10. BoxInv'
  BY <1>2 DEF SessionInv, BoxInv, Unlocked
<1> QED BY <1>6, <1>7, <1>8, <1>9, <1>10 DEF SessionInv

\* What counts as saved by now is, unless a file was opened under a box.
LEMMA CountedStep ==
    ASSUME SessionInv, NEW f \in Files, CountAsSaved(f), ~crossed => disk[f] = project,
           phase = "up", startup = NoPath, question.what # "go" \/ question' = question,
           saving' = NotSaving,
           UNCHANGED <<phase, startup, project, disk, made, consent, misled, crossed>>,
           \/ question' = question
           \/ question # NoQuestion /\ question' = Asked(question.on, FALSE, FALSE),
           boxes' \in Seq([on : {"save", "open"}, file : Files]),
           ~crossed => boxes' = <<>> \/ (UNCHANGED <<boxes, path>> /\ Unlocked'),
           sidecar' \in [Files -> Locks],
           ~crossed => \A g \in Files : sidecar'[g] = "mine" => g = f
    PROVE  SessionInv'
<1>1. Versions' = Versions
  BY SameVersions
<1>2. /\ path' = f /\ dirty' = FALSE /\ legacy' = FALSE /\ slot' = Absent
      /\ IF disk[f] = project THEN heir' = FALSE /\ protected' = IF heir THEN Absent ELSE protected
                              ELSE UNCHANGED <<protected, heir>>
  BY DEF CountAsSaved, GiveUp
<1>3. f # NoPath
  BY SessionAssumption
<1>4. question' \in {NoQuestion} \cup [on : {"new", "open", "close"},
                                       what : {"migrate", "failed", "discard", "file", "go"}]
  BY DEF SessionInv, FilesAreWhole, TypeOK, Asked, NoQuestion
<1>5. slot' # Torn /\ slot' \in Versions \cup {Absent, Torn}
      /\ protected' \in Versions \cup {Absent} /\ heir' \in BOOLEAN
  <2>1. slot' # Torn /\ slot' \in Versions \cup {Absent, Torn}
    BY <1>2 DEF Absent, Torn
  <2>2. protected \in Versions \cup {Absent} /\ heir \in BOOLEAN
    BY DEF SessionInv, FilesAreWhole, TypeOK
  <2>3. protected' \in {protected, Absent} /\ (heir' = FALSE \/ heir' = heir)
    BY <1>2
  <2> QED BY <2>1, <2>2, <2>3
<1>6. FilesAreWhole'
  BY <1>1, <1>2, <1>4, <1>5 DEF SessionInv, FilesAreWhole, TypeOK, Locks, NotSaving
<1>7. (CleanMeansSaved /\ LockFollowsPath)'
  BY <1>2, <1>3 DEF CleanMeansSaved, LockFollowsPath
<1>8. (SafetyNetHolds /\ NetInv)'
  BY <1>2 DEF SessionInv, SafetyNetHolds, NetInv
<1>9. (RestInv /\ OrderInv /\ SaveInv)'
  BY <1>2 DEF RestInv, OrderInv, SaveInv
<1>10. AskedInv'
  BY <1>2 DEF AskedInv, Asked, SessionInv
<1>11. BoxInv'
  BY <1>2 DEF SessionInv, BoxInv
<1> QED BY <1>6, <1>7, <1>8, <1>9, <1>10, <1>11 DEF SessionInv

LEMMA ConcludeStep ==
    ASSUME SessionInv, Conclude
    PROVE  SessionInv'
<1>1. /\ saving.to \in Files /\ disk[saving.to] = project /\ saving # NotSaving
      /\ startup = NoPath /\ phase = "up" /\ question.what # "go"
      /\ saving.to = path \/ boxes = <<>>
  BY SessionAssumption DEF Conclude, SessionInv, SaveInv, OrderInv, RestInv, NotSaving
<1>2. /\ saving' = NotSaving /\ UNCHANGED <<phase, startup, project, disk, made, consent, misled,
                                            crossed>>
      /\ sidecar' \in MovedLocks(saving.to)
  BY DEF Conclude
<1>3. /\ sidecar \in [Files -> Locks] /\ boxes \in Seq([on : {"save", "open"}, file : Files])
      /\ Released(sidecar) \in [Files -> Locks]
      /\ ~crossed => \A g \in Files : Released(sidecar)[g] # "mine"
  BY FileTypes, ReleasedLocks DEF SessionInv
<1>4. /\ sidecar' \in [Files -> Locks]
      /\ ~crossed => \A g \in Files : sidecar'[g] = "mine" => g = saving.to
  <2>1. CASE saving.to = path
    BY <1>2, <1>3, <2>1 DEF MovedLocks, SessionInv, LockFollowsPath
  <2>2. CASE saving.to # path
    <3>1. sidecar' \in Acquired(Released(sidecar), saving.to)
      BY <1>2, <2>2 DEF MovedLocks
    <3> QED BY <1>1, <1>3, <3>1, AcquiredLocks
  <2> QED BY <2>1, <2>2
<1>5. CASE ~Warned(saving.to)
  <2>1. /\ CountAsSaved(saving.to) /\ boxes' = boxes
        /\ question' = IF Forced THEN Asked(question.on, FALSE, FALSE) ELSE question
    BY <1>5 DEF Conclude
  <2>2. \/ question' = question
        \/ question # NoQuestion /\ question' = Asked(question.on, FALSE, FALSE)
    <3>1. NoQuestion.what # "migrate"
      BY DEF NoQuestion
    <3> QED BY <2>1, <3>1 DEF Forced
  <2>3. ~crossed => boxes' = <<>> \/ (UNCHANGED <<boxes, path>> /\ Unlocked')
    <3>1. path' = saving.to
      BY <2>1 DEF CountAsSaved
    <3>2. ~crossed /\ boxes # <<>> => Unlocked /\ sidecar' = sidecar
      BY <1>1, <1>2 DEF SessionInv, BoxInv, MovedLocks
    <3> QED BY <1>1, <2>1, <3>1, <3>2 DEF Unlocked
  <2> QED BY <1>1, <1>2, <1>3, <1>4, <2>1, <2>2, <2>3, CountedStep
<1>6. CASE Warned(saving.to)
  <2>1. /\ boxes' = <<Box("save", saving.to)>> \o boxes
        /\ UNCHANGED <<path, dirty, legacy, slot, protected, heir, question>>
        /\ saving.to # path /\ sidecar[saving.to] = "other"
    BY <1>6 DEF Conclude, Warned
  <2>2. boxes' = <<Box("save", saving.to)>>
        /\ boxes' \in Seq([on : {"save", "open"}, file : Files])
    BY <1>1, <2>1, BoxTypes DEF SessionInv
  <2>3. Released(sidecar)[saving.to] = "other"
    BY <1>1, <1>3, <2>1 DEF Released
  <2>4. sidecar' = Released(sidecar)
    BY <1>1, <1>2, <1>3, <2>1, <2>3, AcquiredLocks DEF MovedLocks
  <2>5. ~crossed => Unlocked'
    BY <1>3, <2>4 DEF Unlocked
  <2>6. Versions' = Versions
    BY <1>2, SameVersions
  <2>7. FilesAreWhole'
    BY <1>2, <1>4, <2>1, <2>2, <2>6 DEF SessionInv, FilesAreWhole, TypeOK, Locks, NotSaving
  <2>8. (CleanMeansSaved /\ LockFollowsPath /\ SafetyNetHolds /\ NetInv)'
    BY <1>1, <1>2, <2>1, <2>5
    DEF SessionInv, CleanMeansSaved, LockFollowsPath, SafetyNetHolds, NetInv, Unlocked
  <2>9. (RestInv /\ OrderInv /\ SaveInv /\ AskedInv)'
    BY <1>1, <1>2, <2>1 DEF SessionInv, RestInv, OrderInv, SaveInv, AskedInv
  <2>10. BoxInv'
    BY <1>1, <1>2, <2>2, <2>5 DEF BoxInv
  <2> QED BY <2>7, <2>8, <2>9, <2>10 DEF SessionInv
<1> QED BY <1>5, <1>6

LEMMA SaveGoesOnStep ==
    ASSUME SessionInv, SaveGoesOn
    PROVE  SessionInv'
<1>1. /\ phase = "up" /\ startup = NoPath /\ saving = NotSaving /\ question.what # "go"
      /\ boxes # <<>> /\ Head(boxes).on = "save" /\ boxes' = Tail(boxes)
      /\ CountAsSaved(Head(boxes).file)
      /\ UNCHANGED <<phase, startup, project, saving, disk, sidecar, made, consent, misled, crossed>>
      /\ \/ question' = question
         \/ question # NoQuestion /\ question' = Asked(question.on, FALSE, FALSE)
  <2>1. NoQuestion.what # "migrate"
    BY DEF NoQuestion
  <2> QED BY <2>1 DEF SaveGoesOn, Loop
<1>2. /\ boxes' \in Seq([on : {"save", "open"}, file : Files]) /\ Head(boxes).file \in Files
      /\ \A b : boxes = <<b>> => Head(boxes) = b /\ Tail(boxes) = <<>>
  BY <1>1, BoxTypes DEF SessionInv
<1>3. ~crossed => Unlocked /\ boxes' = <<>> /\ disk[Head(boxes).file] = project
  <2> SUFFICES ASSUME ~crossed
               PROVE  Unlocked /\ boxes' = <<>> /\ disk[Head(boxes).file] = project
    OBVIOUS
  <2>1. Unlocked
    BY <1>1 DEF SessionInv, BoxInv
  <2>2. PICK f \in Files : \/ boxes = <<Box("save", f)>> /\ disk[f] = project
                           \/ boxes = <<Box("open", f)>>
    BY <1>1 DEF SessionInv, BoxInv
  <2>3. boxes # <<Box("open", f)>>
    BY <1>1, <1>2 DEF Box
  <2>4. Head(boxes) = Box("save", f) /\ Tail(boxes) = <<>>
    BY <1>2, <2>2, <2>3
  <2> QED BY <1>1, <2>1, <2>2, <2>3, <2>4 DEF Box
<1>4. sidecar' \in [Files -> Locks]
  BY <1>1, FileTypes DEF SessionInv
<1>5. PICK f \in Files : f = Head(boxes).file
  BY <1>2
<1> QED BY <1>1, <1>2, <1>3, <1>4, <1>5, CountedStep DEF Unlocked

LEMMA CoworkerStep ==
    ASSUME SessionInv, NEW f \in Files, CoworkerLocks(f) \/ CoworkerUnlocks(f)
    PROVE  SessionInv'
<1>1. Versions' = Versions /\ project' \in Versions'
  BY FileTypes, SameVersions DEF SessionInv, CoworkerLocks, CoworkerUnlocks, memory
<1>2. UNCHANGED <<phase, startup, project, path, dirty, legacy, question, boxes, saving, disk, slot,
                  made, protected, heir, consent, misled, crossed>>
  BY DEF CoworkerLocks, CoworkerUnlocks, memory, screen, history
<1>3. /\ sidecar' \in [Files -> Locks]
      /\ \A g \in Files : sidecar'[g] = "mine" => sidecar[g] = "mine"
  BY FileTypes DEF SessionInv, CoworkerLocks, CoworkerUnlocks, Locks
<1>4. FilesAreWhole'
  BY <1>1, <1>2, <1>3 DEF SessionInv, FilesAreWhole, TypeOK, Locks
<1>5. (CleanMeansSaved /\ LockFollowsPath /\ SafetyNetHolds)'
  BY <1>2, <1>3 DEF SessionInv, CleanMeansSaved, LockFollowsPath, SafetyNetHolds
<1>6. (RestInv /\ OrderInv /\ SaveInv /\ AskedInv /\ NetInv)'
  BY <1>2 DEF SessionInv, RestInv, OrderInv, SaveInv, AskedInv, NetInv
<1>7. BoxInv'
  BY <1>2, <1>3 DEF SessionInv, BoxInv, Unlocked
<1> QED BY <1>4, <1>5, <1>6, <1>7 DEF SessionInv

-----------------------------------------------------------------------------
(* The theorems. *)

LEMMA InitSession == Init => SessionInv
<1> SUFFICES ASSUME Init PROVE SessionInv
  OBVIOUS
<1>1. 0 \in Versions /\ 1 \in Versions /\ made \in Nat
  BY DEF Init, Versions
<1>2. PICK stored \in [Files -> {0, Absent}] :
         disk = [f \in Files \cup Legacy |-> IF f \in Legacy THEN 1 ELSE stored[f]]
  BY DEF Init
<1>3. /\ disk \in [Files \cup Legacy -> Versions \cup {Absent, Torn}]
      /\ \A f \in Files \cup Legacy : disk[f] # Torn
  <2>1. \A f \in Files : stored[f] \in Versions \cup {Absent} /\ stored[f] # Torn
    BY <1>1 DEF Absent, Torn
  <2>2. 1 # Torn
    BY DEF Torn
  <2> QED BY <1>1, <1>2, <2>1, <2>2
<1>4. project = 0 /\ slot = Absent /\ Absent # Torn
  BY DEF Init, Absent, Torn
<1>5. boxes \in Seq([on : {"save", "open"}, file : Files])
  BY DEF Init
<1>6. TypeOK
  BY <1>1, <1>3, <1>4, <1>5 DEF Init, TypeOK, NotSaving
<1>7. FilesAreWhole
  BY <1>3, <1>4, <1>6 DEF FilesAreWhole
<1> QED BY <1>7 DEF Init, SessionInv, CleanMeansSaved, LockFollowsPath, SafetyNetHolds,
                   RestInv, OrderInv, SaveInv, AskedInv, NetInv, BoxInv, NoQuestion

LEMMA NextSession == SessionInv /\ [Next]_vars => SessionInv'
<1> SUFFICES ASSUME SessionInv, [Next]_vars PROVE SessionInv'
  OBVIOUS
<1>1. CASE UNCHANGED vars
  <2>1. Versions' = Versions
    BY <1>1, SameVersions DEF vars
  <2>2. FilesAreWhole'
    BY <1>1, <2>1 DEF vars, SessionInv, FilesAreWhole, TypeOK
  <2>3. (CleanMeansSaved /\ LockFollowsPath /\ SafetyNetHolds)'
    BY <1>1 DEF vars, SessionInv, CleanMeansSaved, LockFollowsPath, SafetyNetHolds
  <2>4. (RestInv /\ OrderInv /\ SaveInv /\ AskedInv /\ NetInv /\ BoxInv)'
    BY <1>1 DEF vars, SessionInv, RestInv, OrderInv, SaveInv, AskedInv, NetInv, BoxInv, Unlocked
  <2> QED BY <2>2, <2>3, <2>4 DEF SessionInv
<1>2. CASE Launch \/ AnswerRecovery \/ Crash
  BY <1>2, LaunchStep, RecoverStep, CrashStep
<1>3. CASE \E command \in {"new", "open", "close"} : Command(command)
  BY <1>3, CommandStep
<1>4. CASE CancelQuestion \/ AgreeToDiscard \/ CarryOut
  BY <1>4, CancelStep, AgreeStep, CarryOutStep
<1>5. CASE OpenAtStartup \/ \E f \in Files \cup Legacy : OpenChosen(f) \/ SystemOpen(f)
  BY <1>5, OpeningStep
<1>6. CASE Edit \/ Autosave \/ Replace \/ WriteFails \/ Conclude \/ SaveGoesOn \/ OpenGoesOn
  BY <1>6, EditStep, AutosaveStep, ReplaceStep, WriteFailsStep, ConcludeStep, SaveGoesOnStep,
     OpenGoesOnStep
<1>7. CASE \E f \in Files : Save(f) \/ CoworkerLocks(f) \/ CoworkerUnlocks(f)
  BY <1>7, SaveStep, CoworkerStep
<1> QED BY <1>1, <1>2, <1>3, <1>4, <1>5, <1>6, <1>7 DEF Next

LEMMA SessionAlways == Spec => []SessionInv
BY InitSession, NextSession, PTL DEF Spec

\* Through any number of edits, saves, crashes and files opened by the system:
\* a project that is not marked dirty, and so goes without a question, is in
\* the file its path names, or is the blank one; save in a session in which
\* the system opened a file under one of the two warnings.
THEOREM CleanIsSaved == Spec => []CleanMeansSaved
<1>1. SessionInv => CleanMeansSaved
  BY DEF SessionInv
<1> QED BY <1>1, SessionAlways, PTL

\* The sidecar of this process is beside the file it has open and nowhere
\* else, whatever coworkers lock, with the same exception; and none outlives
\* a session, whatever happened in it.
THEOREM LockStaysWithPath == Spec => []LockFollowsPath
<1>1. SessionInv => LockFollowsPath
  BY DEF SessionInv
<1> QED BY <1>1, SessionAlways, PTL

\* A crash at any step of any write leaves whole files, always; and what the
\* autosave put in the slot stays there until it is saved, given up or
\* replaced by a file of the system, with the exception of CleanIsSaved.
THEOREM WrittenIsKept == Spec => []WrittenSurvives
<1>1. SessionInv => WrittenSurvives
  BY DEF SessionInv, WrittenSurvives
<1> QED BY <1>1, SessionAlways, PTL

\* Unsaved work goes only into its own file, by a crash, by a file the system
\* opens, or with the user's consent to a question about this work; that of a
\* legacy project not even with that.  Excepted are the answer to a question
\* and the rest of a save under which the system opened another file.
THEOREM NothingGoesUnasked == Spec => NothingDroppedUnasked
<1>1. SessionInv /\ [Next]_vars =>
        [Drops => \/ InItsFile
                  \/ phase' = "crashed"
                  \/ OpenedBySystem
                  \/ misled \/ crossed
                  \/ consent /\ ~legacy]_vars
  <2> SUFFICES ASSUME SessionInv, Next, Drops, phase' # "crashed", ~OpenedBySystem,
                      ~misled, ~crossed, ~InItsFile
               PROVE  consent /\ ~legacy
    OBVIOUS
  <2>1. dirty /\ (~dirty' \/ (project' # project /\ made' = made))
    BY DEF Drops
  <2>2. phase = "up"
    BY <2>1 DEF SessionInv, RestInv
  <2>3. CASE Launch \/ AnswerRecovery \/ Crash
    BY <2>2, <2>3 DEF Launch, AnswerRecovery, Crash
  <2>4. CASE \E command \in {"new", "open", "close"} : Command(command)
    BY <2>1, <2>4 DEF Command, memory
  <2>5. CASE CancelQuestion \/ AgreeToDiscard
    BY <2>1, <2>5 DEF CancelQuestion, AgreeToDiscard, memory
  <2>6. CASE CarryOut
    BY <2>1, <2>6 DEF CarryOut, SessionInv, AskedInv
  <2>7. ASSUME NEW f \in Files \cup Legacy, OpenChosen(f) PROVE consent /\ ~legacy
    BY <2>1, <2>7 DEF OpenChosen, SessionInv, AskedInv
  <2>8. ASSUME NEW f \in Files \cup Legacy, SystemOpen(f) PROVE FALSE
    BY <2>8 DEF OpenedBySystem
  <2>9. CASE OpenAtStartup
    BY <2>9 DEF OpenedBySystem
  <2>10. CASE Edit
    <3>1. made' # made
      <4>1. made \in Nat /\ made' = made + 1
        BY <2>10, FileTypes DEF Edit, SessionInv
      <4> QED BY ONLY <4>1
    <3> QED BY <2>1, <2>10, <3>1 DEF Edit
  <2>11. CASE Autosave \/ Replace \/ WriteFails \/ OpenGoesOn
    BY <2>1, <2>11 DEF Autosave, Replace, WriteFails, OpenGoesOn, memory
  <2>12. CASE Conclude
    <3>1. /\ saving.to \in Files /\ disk[saving.to] = project
          /\ UNCHANGED <<project, disk>>
      BY <2>12 DEF Conclude, SessionInv, SaveInv, NotSaving
    <3>2. CASE CountAsSaved(saving.to)
      BY <3>1, <3>2 DEF CountAsSaved, InItsFile
    <3>3. CASE UNCHANGED dirty
      BY <2>1, <3>1, <3>3
    <3> QED BY <2>12, <3>2, <3>3 DEF Conclude
  <2>13. CASE SaveGoesOn
    <3>1. /\ boxes # <<>> /\ Head(boxes).on = "save" /\ UNCHANGED <<project, disk>>
          /\ path' = Head(boxes).file
      BY <2>13 DEF SaveGoesOn, CountAsSaved
    <3>2. PICK f \in Files : \/ boxes = <<Box("save", f)>> /\ disk[f] = project
                             \/ boxes = <<Box("open", f)>>
      BY <3>1 DEF SessionInv, BoxInv
    <3>3. \A b : boxes = <<b>> => Head(boxes) = b
      BY BoxTypes DEF SessionInv
    <3>4. Head(boxes) = Box("save", f) /\ disk[f] = project
      BY <3>1, <3>2, <3>3 DEF Box
    <3> QED BY <3>1, <3>4 DEF InItsFile, Box
  <2>14. CASE \E f \in Files : Save(f) \/ CoworkerLocks(f) \/ CoworkerUnlocks(f)
    BY <2>1, <2>14 DEF Save, CoworkerLocks, CoworkerUnlocks, memory
  <2> QED BY <2>3, <2>4, <2>5, <2>6, <2>7, <2>8, <2>9, <2>10, <2>11, <2>12, <2>13, <2>14 DEF Next
<1> QED BY <1>1, SessionAlways, PTL DEF Spec, NothingDroppedUnasked
=============================================================================
