-------------------------- MODULE FrontendManager --------------------------
(***************************************************************************)
(* The TLS frontend: waf-proxy publishes a control file and waits for the  *)
(* status file (tls_frontend_control.go); the manager process              *)
(* (cmd/waf-tlsfront) polls the control file, checks and installs what it  *)
(* renders, starts, reloads or stops nginx, and writes the status.         *)
(*                                                                         *)
(* The proxy publishes under its lock, so one publish waits at a time.     *)
(* Every control file differs by its time, and is named by the number of   *)
(* its publish; what is rendered depends on its body alone.  That a status *)
(* is at least as new as a publish means that it was written after that    *)
(* publish began.  nginx, once told to, reloads what nginx -t accepted.    *)
(***************************************************************************)
EXTENDS Naturals

CONSTANTS Bodies, QatBodies,        \* what is rendered, and which of it needs the engine
          NoBody, MaxPublish, MaxDeaths

VARIABLES
  begun, control,        \* publishes begun; the control file: [n, mode, body]
  waiting,               \* the publish that waits: [n, mode, renamed, beside]
  acked,                 \* the last that was acknowledged: [n, mode, body, beside]
  statusFile,               \* the status file: [mode, active, error, at]
  turn,                  \* the reconciliation: [at, file]
  nginx,                 \* the body it runs, or NoBody; exited: not yet noticed
  exited, installed, lastControl, currentHash, lastMode,
  deaths

publisherVars == <<begun, control, waiting, acked>>
managerVars == <<turn, nginx, exited, installed, lastControl, currentHash, lastMode>>
frontendVars == <<publisherVars, statusFile, managerVars, deaths>>

NoFile == [n |-> 0, mode |-> "go", body |-> NoBody]
Resting == [at |-> "rest", file |-> NoFile]

FrontendInit ==
  /\ begun = 0 /\ control = NoFile /\ waiting = NoFile /\ acked = NoFile
  /\ statusFile = [mode |-> "none", active |-> FALSE, error |-> FALSE, at |-> 0]
  /\ turn = Resting /\ nginx = NoBody /\ exited = FALSE /\ installed = NoBody
  /\ lastControl = 0 /\ currentHash = NoBody /\ lastMode = "none" /\ deaths = 0

-----------------------------------------------------------------------------
(* waf-proxy: publishAndWait.                                              *)

Publish(mode, body) ==
  /\ waiting = NoFile /\ begun < MaxPublish /\ begun' = begun + 1
  /\ waiting' = [n |-> begun + 1, mode |-> mode, body |-> body, renamed |-> FALSE, beside |-> FALSE]
  /\ UNCHANGED <<control, acked, statusFile, managerVars, deaths>>

RenameControl ==
  /\ waiting # NoFile /\ ~waiting.renamed
  /\ control' = [n |-> waiting.n, mode |-> waiting.mode, body |-> waiting.body]
  /\ waiting' = [n |-> waiting.n, mode |-> waiting.mode, body |-> waiting.body, renamed |-> TRUE,
                 beside |-> turn # Resting \/ statusFile.at >= waiting.n]
  /\ UNCHANGED <<begun, acked, statusFile, managerVars, deaths>>

(* Mutated form: a status of any age will do.                              *)
AnyAge(st, w) == st.mode = w.mode
FreshAnswer(st, w) == st.at >= w.n /\ st.mode = w.mode

ReadStatus ==
  /\ waiting # NoFile /\ waiting.renamed /\ FreshAnswer(statusFile, waiting)
  /\ \/ statusFile.error /\ UNCHANGED acked
     \/ /\ ~statusFile.error /\ statusFile.active = (waiting.mode = "frontend")
        /\ acked' = [n |-> waiting.n, mode |-> waiting.mode, body |-> waiting.body, beside |-> waiting.beside]
  /\ waiting' = NoFile /\ UNCHANGED <<begun, control, statusFile, managerVars, deaths>>

(* The timeout, or the file could not be written.                          *)
GiveUpWaiting ==
  /\ waiting # NoFile /\ waiting' = NoFile
  /\ UNCHANGED <<begun, control, acked, statusFile, managerVars, deaths>>

-----------------------------------------------------------------------------
(* The manager: one reconciliation at a time, and the exits of nginx       *)
(* between them.                                                           *)

Writes(mode, active, error) ==
  /\ statusFile' = [mode |-> mode, active |-> active, error |-> error, at |-> begun]
  /\ lastMode' = mode

Tick ==
  /\ turn = Resting /\ control # NoFile /\ ~(control.n = lastControl /\ (nginx # NoBody \/ exited))
  /\ turn' = [at |-> IF control.mode = "frontend" THEN "prepare" ELSE "stop", file |-> control]
  /\ UNCHANGED <<publisherVars, statusFile, nginx, exited, installed, lastControl, currentHash, lastMode, deaths>>

(* stopChild waits for the exit.                                           *)
StopFrontend ==
  /\ turn.at = "stop" /\ nginx' = NoBody /\ exited' = FALSE
  /\ lastControl' = turn.file.n /\ currentHash' = NoBody
  /\ turn' = Resting /\ Writes("go", FALSE, FALSE)
  /\ UNCHANGED <<publisherVars, installed, deaths>>

FailTurn ==
  /\ turn.at \in {"prepare", "install", "apply", "start"} /\ turn' = Resting
  /\ Writes("frontend", FALSE, TRUE)
  /\ UNCHANGED <<publisherVars, nginx, exited, installed, lastControl, currentHash, deaths>>

Prepare ==
  /\ turn.at = "prepare" /\ turn' = [turn EXCEPT !.at = "install"]
  /\ UNCHANGED <<publisherVars, statusFile, nginx, exited, installed, lastControl, currentHash, lastMode, deaths>>

(* After nginx.conf a failing openssl.cnf still fails the turn.            *)
Install ==
  /\ turn.at = "install" /\ installed' = turn.file.body /\ turn' = [turn EXCEPT !.at = "apply"]
  /\ UNCHANGED <<publisherVars, statusFile, nginx, exited, lastControl, currentHash, lastMode, deaths>>

(* A child whose exit was not noticed yet counts as running: the signal    *)
(* fails, and it is started again; without a change nothing is done.       *)
Child == nginx # NoBody \/ exited
ApplyChild ==
  LET body == turn.file.body  start == nginx' = NoBody /\ exited' = FALSE /\ turn' = [turn EXCEPT !.at = "start"]
      finish == turn' = [turn EXCEPT !.at = "finish"]
  IN  /\ turn.at = "apply"
      /\ IF ~Child THEN start
         ELSE IF body = currentHash THEN finish /\ UNCHANGED <<nginx, exited>>
         ELSE IF exited \/ ((body \in QatBodies) # (currentHash \in QatBodies)) THEN start
         ELSE finish /\ nginx' = installed /\ UNCHANGED exited
      /\ UNCHANGED <<publisherVars, statusFile, installed, lastControl, currentHash, lastMode, deaths>>

StartChild ==
  /\ turn.at = "start" /\ nginx' = installed /\ exited' = FALSE
  /\ currentHash' = turn.file.body /\ turn' = [turn EXCEPT !.at = "finish"]
  /\ UNCHANGED <<publisherVars, statusFile, installed, lastControl, lastMode, deaths>>

FinishTurn ==
  /\ turn.at = "finish" /\ turn' = Resting
  /\ lastControl' = turn.file.n /\ currentHash' = turn.file.body
  /\ Writes("frontend", Child, FALSE)
  /\ UNCHANGED <<publisherVars, nginx, exited, installed, deaths>>

NginxDies ==
  /\ nginx # NoBody /\ deaths < MaxDeaths /\ deaths' = deaths + 1 /\ nginx' = NoBody /\ exited' = TRUE
  /\ UNCHANGED <<publisherVars, statusFile, turn, installed, lastControl, currentHash, lastMode>>

(* The exit status is an error or not.                                     *)
NoticeExit ==
  /\ turn = Resting /\ exited /\ exited' = FALSE
  /\ \E error \in BOOLEAN : Writes(lastMode, FALSE, error \/ statusFile.error)
  /\ UNCHANGED <<publisherVars, turn, nginx, installed, lastControl, currentHash, deaths>>

(* The manager ends, in good order or not, and nginx with it.              *)
ManagerRestarts(clean) ==
  /\ deaths < MaxDeaths /\ deaths' = deaths + 1 /\ (clean => turn = Resting)
  /\ turn' = Resting /\ nginx' = NoBody /\ exited' = FALSE /\ lastControl' = 0 /\ currentHash' = NoBody
  /\ IF clean THEN Writes("go", FALSE, FALSE) ELSE UNCHANGED statusFile /\ lastMode' = "none"
  /\ UNCHANGED <<publisherVars, installed>>

FrontendNext ==
  \/ Publish("go", NoBody) \/ \E body \in Bodies : Publish("frontend", body)
  \/ RenameControl \/ ReadStatus \/ GiveUpWaiting
  \/ Tick \/ StopFrontend \/ FailTurn \/ Prepare \/ Install \/ ApplyChild \/ StartChild \/ FinishTurn
  \/ NginxDies \/ NoticeExit \/ \E clean \in BOOLEAN : ManagerRestarts(clean)

FrontendSpec == FrontendInit /\ [][FrontendNext]_frontendVars

-----------------------------------------------------------------------------
(* Properties.                                                             *)

(* When a publish was acknowledged and none was begun since, nginx runs    *)
(* what was published, or nothing if it died; and nothing at all in mode   *)
(* go.  The exception is a publish beside which the manager was in a       *)
(* reconciliation of the file before, or wrote a status, until the rename: *)
(* that status may be taken for an answer to the new file.                 *)
AckedIsServed ==
  (acked # NoFile /\ acked.n = begun /\ ~acked.beside) => nginx \in {acked.body, NoBody}

(* The inductive invariant: nginx runs what the manager believes, or       *)
(* nothing; since the rename of a publish nothing but its file is worked   *)
(* on, and a status that could answer it tells what nginx runs.            *)
FileRec == [n : Nat, mode : {"go", "frontend"}, body : Bodies \cup {NoBody}]
FrontendTypeOK ==
  /\ begun \in Nat /\ control \in FileRec
  /\ waiting \in {NoFile} \cup [n : Nat, mode : {"go", "frontend"}, body : Bodies \cup {NoBody},
                                renamed : BOOLEAN, beside : BOOLEAN]
  /\ acked \in {NoFile} \cup [n : Nat, mode : {"go", "frontend"}, body : Bodies \cup {NoBody}, beside : BOOLEAN]
  /\ statusFile \in [mode : {"none", "go", "frontend"}, active : BOOLEAN, error : BOOLEAN, at : Nat]
  /\ turn \in {Resting} \cup [at : {"stop", "prepare", "install", "apply", "start", "finish"}, file : FileRec]
  /\ nginx \in Bodies \cup {NoBody} /\ exited \in BOOLEAN /\ installed \in Bodies \cup {NoBody}
  /\ lastControl \in Nat /\ currentHash \in Bodies \cup {NoBody} /\ lastMode \in {"none", "go", "frontend"}

ChildInv ==
  /\ exited => nginx = NoBody
  /\ nginx \in {NoBody, IF turn.at = "finish" THEN turn.file.body ELSE currentHash}
  /\ turn.at \in {"apply", "start"} => installed = turn.file.body

(* That the publish is the only one the manager can be at work on.         *)
Alone(p) == /\ control = [n |-> p.n, mode |-> p.mode, body |-> p.body]
            /\ turn # Resting => turn.file = control
Confirms(p) == /\ statusFile.at >= p.n /\ statusFile.mode = p.mode /\ ~statusFile.error
              /\ statusFile.active = (p.mode = "frontend")

PublishInv ==
  /\ statusFile.at <= begun /\ acked.n <= begun /\ (waiting # NoFile => waiting.n = begun /\ acked.n < begun)
  /\ waiting # NoFile => waiting.n > 0
  /\ waiting # NoFile /\ waiting.renamed /\ ~waiting.beside =>
       Alone(waiting) /\ (Confirms(waiting) => nginx \in {waiting.body, NoBody})
  /\ acked # NoFile /\ acked.n = begun /\ ~acked.beside =>
       Alone(acked) /\ nginx \in {acked.body, NoBody}

FrontendIInv == FrontendTypeOK /\ ChildInv /\ PublishInv
=============================================================================
