----------------------------- MODULE SelfUpdate -----------------------------
(***************************************************************************)
(* Signed updates of a standalone installation (update.go, internal/       *)
(* sigupdate): packages are verified and staged in memory, an install      *)
(* writes their files one by one, each replaced file copied to the backup  *)
(* directory first, and a rollback copies everything that is there back.   *)
(* Handlers run concurrently; any write may fail and the process may die   *)
(* between two of them, or in the middle of a copy, which unlike the       *)
(* writes of an install is not atomic.                                     *)
(***************************************************************************)
EXTENDS Integers, FiniteSets, Functions

CONSTANTS UpdateFiles,  \* files of the install directory
          Program,      \* the one of them that runs
          Packages,     \* packages: files (path -> content), signed, intact, permitted
          UpdateCalls,  \* handlers that may run at a time
          FirstContent, \* what the installation came with
          Torn,         \* the content of a copy that was cut
          Missing,      \* no file, no package
          MaxUpdateFaults, MaxUpdates  \* bounds: failing writes and deaths; installs and rollbacks

(* A package installs files of the directory, and each has a content.      *)
ASSUME UpdateAssumption ==
  /\ Torn # Missing /\ FirstContent = [f \in UpdateFiles |-> FirstContent[f]]
  /\ \A p \in Packages : DOMAIN p.files \subseteq UpdateFiles /\ \A f \in DOMAIN p.files : p.files[f] # Missing

VARIABLES
  disk,       \* install directory: file -> content
  saved,      \* backup directory
  staged,     \* a.staged
  calls,      \* handlers in flight
  executing,  \* the process runs the file that is at its path now
  alive,
  undo,       \* history: the last install that was not overlapped and succeeded
  updates, updateFaults

updateVars == <<disk, saved, staged, calls, executing, alive, undo, updates, updateFaults>>

Quiet == [kind |-> "none"]
NoUndo == [files |-> {}, before |-> <<>>, back |-> {}]
Busy == {o \in UpdateCalls : calls[o] # Quiet}

UpdateInit ==
  /\ disk = FirstContent /\ saved = [f \in UpdateFiles |-> Missing]
  /\ staged = Missing /\ calls = [o \in UpdateCalls |-> Quiet]
  /\ executing = TRUE /\ alive = TRUE /\ undo = NoUndo
  /\ updates = 0 /\ updateFaults = 0

-----------------------------------------------------------------------------
(* Inspect: signature first, then path and checksum of every file; what it *)
(* refuses, uploaded or downloaded, leaves what was staged.                *)
PathAllowed(p) == p.permitted
Inspect(p) == p.signed /\ p.intact /\ PathAllowed(p) /\ DOMAIN p.files # {}

HandleUpdateStage(p) ==
  /\ alive /\ Inspect(p)
  /\ staged' = p
  /\ UNCHANGED <<disk, saved, calls, executing, alive, undo, updates, updateFaults>>

HandleUpdateDiscard ==
  /\ alive /\ staged' = Missing
  /\ UNCHANGED <<disk, saved, calls, executing, alive, undo, updates, updateFaults>>

-----------------------------------------------------------------------------
(* An install takes what is staged under the lock and applies it outside.  *)
Begin(o, call) ==
  /\ alive /\ calls[o] = Quiet /\ updates < MaxUpdates
  /\ updates' = updates + 1
  /\ calls' = [n \in UpdateCalls |-> IF n = o THEN call
                ELSE IF calls[n] = Quiet THEN Quiet ELSE [calls[n] EXCEPT !.alone = FALSE]]

HandleUpdateInstall(o) ==
  /\ staged # Missing
  /\ Begin(o, [kind |-> "install", pack |-> staged, todo |-> DOMAIN staged.files, file |-> Missing,
               step |-> "next", alone |-> Busy = {}, before |-> disk])
  /\ undo' = NoUndo
  /\ UNCHANGED <<disk, saved, staged, executing, alive, updateFaults>>

(* Apply takes the files in the order of a Go map.                         *)
NextFile(o) ==
  /\ alive /\ calls[o].kind = "install" /\ calls[o].step = "next"
  /\ \E f \in calls[o].todo :
       calls' = [calls EXCEPT ![o] = [kind |-> "install", pack |-> @.pack, todo |-> @.todo \ {f}, file |-> f,
                                      step |-> IF disk[f] = Missing THEN "write" ELSE "backup",
                                      alone |-> @.alone, before |-> @.before]]
  /\ UNCHANGED <<disk, saved, staged, executing, alive, undo, updates, updateFaults>>

(* Mutated form: the backup of an earlier package is kept.                 *)
KeepFirst(f) == IF saved[f] = Missing THEN disk[f] ELSE saved[f]

Replaced(f) == disk[f]

BackUp(o) ==
  /\ alive /\ calls[o].kind = "install" /\ calls[o].step = "backup"
  /\ saved' = [saved EXCEPT ![calls[o].file] = Replaced(calls[o].file)]
  /\ calls' = [calls EXCEPT ![o].step = "write"]
  /\ UNCHANGED <<disk, staged, executing, alive, undo, updates, updateFaults>>

(* atomicWrite: the new file is renamed over the old one, which a running  *)
(* process keeps.                                                          *)
AtomicWrite(o) ==
  LET call == calls[o]
  IN  /\ alive /\ call.kind = "install" /\ call.step = "write"
      /\ disk' = [disk EXCEPT ![call.file] = call.pack.files[call.file]]
      /\ executing' = (executing /\ call.file # Program)
      /\ calls' = [calls EXCEPT ![o].step = "next"]
      /\ UNCHANGED <<saved, staged, alive, undo, updates, updateFaults>>

(* clearStaged drops whatever is staged by now.                            *)
Installed(o) ==
  /\ alive /\ calls[o].kind = "install" /\ calls[o].step = "next" /\ calls[o].todo = {}
  /\ staged' = Missing
  /\ undo' = IF calls[o].alone
               THEN [files |-> {f \in DOMAIN calls[o].pack.files : calls[o].before[f] # Missing},
                     before |-> calls[o].before, back |-> {}]
               ELSE undo
  /\ calls' = [calls EXCEPT ![o] = Quiet]
  /\ UNCHANGED <<disk, saved, executing, alive, updates, updateFaults>>

-----------------------------------------------------------------------------
HandleUpdateRollback(o) ==
  /\ \E f \in UpdateFiles : saved[f] # Missing
  /\ Begin(o, [kind |-> "rollback", todo |-> {f \in UpdateFiles : saved[f] # Missing}, alone |-> Busy = {}])
  /\ undo' = IF Busy = {} THEN undo ELSE NoUndo
  /\ UNCHANGED <<disk, saved, staged, executing, alive, updateFaults>>

(* The system refuses to open the file of a running process for writing.   *)
TextBusy(f) == f = Program /\ executing

(* The next file of the walk is copied over the installed one.             *)
RestoreFile(o) ==
  /\ alive /\ calls[o].kind = "rollback"
  /\ \E f \in calls[o].todo :
       /\ ~TextBusy(f)
       /\ disk' = [disk EXCEPT ![f] = saved[f]]
       /\ undo' = IF calls[o].alone /\ f \in undo.files THEN [undo EXCEPT !.back = @ \cup {f}] ELSE undo
       /\ calls' = [calls EXCEPT ![o].todo = @ \ {f}]
  /\ UNCHANGED <<saved, staged, executing, alive, updates, updateFaults>>

RollbackEnds(o) ==
  /\ alive /\ calls[o].kind = "rollback"
  /\ calls[o].todo = {} \/ \E f \in calls[o].todo : TextBusy(f)
  /\ calls' = [calls EXCEPT ![o] = Quiet]
  /\ UNCHANGED <<disk, saved, staged, executing, alive, undo, updates, updateFaults>>

-----------------------------------------------------------------------------
(* What a write leaves that is cut short: a copy is torn, a temporary file *)
(* does not count.                                                         *)
Cut(o) ==
  \/ UNCHANGED <<disk, saved>>
  \/ /\ calls[o].kind = "install" /\ calls[o].step = "backup"
     /\ saved' = [saved EXCEPT ![calls[o].file] = Torn] /\ UNCHANGED disk
  \/ /\ calls[o].kind = "rollback" /\ UNCHANGED saved
     /\ \E f \in calls[o].todo : ~TextBusy(f) /\ disk' = [disk EXCEPT ![f] = Torn]

(* A write fails: the handler returns the error, and a package that was    *)
(* being installed stays staged.                                           *)
WriteFails(o) ==
  /\ alive /\ calls[o] # Quiet /\ updateFaults < MaxUpdateFaults
  /\ updateFaults' = updateFaults + 1
  /\ Cut(o)
  /\ undo' = IF disk' = disk THEN undo ELSE NoUndo
  /\ calls' = [calls EXCEPT ![o] = Quiet]
  /\ UNCHANGED <<staged, executing, alive, updates>>

ProcessDies ==
  /\ alive /\ updateFaults < MaxUpdateFaults /\ updateFaults' = updateFaults + 1
  /\ IF Busy = {} THEN UNCHANGED <<disk, saved>> ELSE \E o \in Busy : Cut(o)
  /\ undo' = IF disk' = disk THEN undo ELSE NoUndo
  /\ calls' = [o \in UpdateCalls |-> Quiet] /\ staged' = Missing /\ alive' = FALSE
  /\ UNCHANGED <<executing, updates>>

(* ReExec at once, handlers or not; the staged package is memory.          *)
HandleUpdateRestart ==
  /\ alive
  /\ calls' = [o \in UpdateCalls |-> Quiet] /\ staged' = Missing
  /\ IF Busy = {} THEN UNCHANGED <<disk, saved>> ELSE \E o \in Busy : Cut(o)
  /\ undo' = IF disk' = disk THEN undo ELSE NoUndo
  /\ alive' = (disk'[Program] # Torn) /\ executing' = TRUE
  /\ UNCHANGED <<updates, updateFaults>>

(* The service is started again; a torn program is not.                    *)
StartsAgain ==
  /\ ~alive /\ disk[Program] # Torn
  /\ alive' = TRUE /\ executing' = TRUE
  /\ UNCHANGED <<disk, saved, staged, calls, undo, updates, updateFaults>>

UpdateNext ==
  \/ \E p \in Packages : HandleUpdateStage(p)
  \/ HandleUpdateDiscard \/ HandleUpdateRestart \/ ProcessDies \/ StartsAgain
  \/ \E o \in UpdateCalls : \/ HandleUpdateInstall(o) \/ NextFile(o) \/ BackUp(o) \/ AtomicWrite(o) \/ Installed(o)
                            \/ HandleUpdateRollback(o) \/ RestoreFile(o) \/ RollbackEnds(o) \/ WriteFails(o)

UpdateSpec == UpdateInit /\ [][UpdateNext]_updateVars

-----------------------------------------------------------------------------
(* After an install that succeeded and that no other install or rollback   *)
(* overlapped, the backup directory holds every file it replaced as it was *)
(* when the install began, through restarts and failing rollbacks, and a   *)
(* file a rollback has restored has that content; only files of packages   *)
(* that passed verification are ever installed.                            *)
UndoAvailable ==
  /\ \A f \in undo.files : saved[f] = undo.before[f] /\ (f \in undo.back => disk[f] = undo.before[f])
  /\ \A f \in UpdateFiles : disk[f] \in {FirstContent[f], Torn} \/ \E p \in Packages : Inspect(p) /\ f \in DOMAIN p.files /\ disk[f] = p.files[f]

(* The inductive invariant: where contents come from, how far an install   *)
(* is, and that nothing but one rollback runs while there is an undo.      *)
VerifiedPackages == {p \in Packages : Inspect(p)}
Installable(f) == {p.files[f] : p \in {p \in VerifiedPackages : f \in DOMAIN p.files}}
Content == {Missing, Torn} \cup UNION {{FirstContent[f]} \cup Installable(f) : f \in UpdateFiles}
InstallCall == [kind : {"install"}, pack : VerifiedPackages, todo : SUBSET UpdateFiles, file : UpdateFiles \cup {Missing},
                step : {"next", "backup", "write"}, alone : BOOLEAN, before : [UpdateFiles -> Content]]
RollbackCall == [kind : {"rollback"}, todo : SUBSET UpdateFiles, alone : BOOLEAN]
UpdateTypeOK ==
  /\ disk \in [UpdateFiles -> Content] /\ saved \in [UpdateFiles -> Content]
  /\ staged \in {Missing} \cup VerifiedPackages
  /\ calls \in [UpdateCalls -> {Quiet} \cup InstallCall \cup RollbackCall]
  /\ undo \in {NoUndo} \cup [files : SUBSET UpdateFiles, before : [UpdateFiles -> Content], back : SUBSET UpdateFiles]
  /\ executing \in BOOLEAN /\ alive \in BOOLEAN

OriginInv ==
  \A f \in UpdateFiles : /\ disk[f] \in {FirstContent[f], Torn} \cup Installable(f)
                         /\ disk[f] = Missing => FirstContent[f] = Missing
                         /\ saved[f] \in {FirstContent[f], Torn, Missing} \cup Installable(f)

(* The files an install has not come to are as they were; those it has     *)
(* replaced are in the backup directory.                                   *)
KeepsBefore(c) ==
  \A f \in DOMAIN c.pack.files :
    IF f \in c.todo THEN disk[f] = c.before[f]
    ELSE /\ f = c.file /\ c.step # "next" => disk[f] = c.before[f]
         /\ (f = c.file /\ c.step = "backup") \/ c.before[f] = Missing \/ saved[f] = c.before[f]
InstallInv(c) ==
  /\ c.todo \subseteq DOMAIN c.pack.files /\ undo.files = {}
  /\ c.step # "next" => c.file \in DOMAIN c.pack.files \ c.todo
  /\ c.step = "backup" => disk[c.file] # Missing
  /\ c.alone => KeepsBefore(c)

CallsInv ==
  /\ \A o \in UpdateCalls : calls[o].kind = "install" => InstallInv(calls[o])
  /\ \A o \in UpdateCalls : calls[o].kind = "rollback" =>
        /\ \A f \in calls[o].todo : saved[f] # Missing
        /\ undo.files # {} => calls[o].alone
  /\ \A n, o \in UpdateCalls : calls[n] # Quiet /\ calls[o] # Quiet /\ calls[o].alone => n = o

UndoInv == \A f \in undo.files : saved[f] = undo.before[f] /\ (f \in undo.back => disk[f] = undo.before[f])

UpdateIInv == UpdateTypeOK /\ OriginInv /\ CallsInv /\ UndoInv
=============================================================================
