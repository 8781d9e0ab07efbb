------------------------------ MODULE RootQueue ------------------------------
(***************************************************************************)
(* The commands that pglgui runs as root.  SuperUser                       *)
(* (pglgui/src/super_user.cpp) gathers commands in m_Commands, writes them *)
(* to a script that begins with "set -e" and has a thread (ProcessT,       *)
(* pglgui/src/proc_thread.cpp) execute it with a graphical sudo.  What the *)
(* commands do is said in Gui.                                             *)
(***************************************************************************)
EXTENDS Integers, Sequences

VARIABLES
  commands, (* m_Commands                                                    *)
  sudo,     (* mSudoCmd names a program                                      *)
  thread,   (* "idle"; "started" until the script is read; "running";        *)
            (* "done": finished is emitted, its slots have not run yet       *)
  todo,     (* what the script has still to do                               *)
  ok        (* no command of it has failed                                   *)

queueVars == <<commands, sudo, thread, todo, ok>>

QueueInit ==
  /\ commands = <<>> /\ sudo \in BOOLEAN
  /\ thread = "idle" /\ todo = <<>> /\ ok = TRUE

(* TMP_SCRIPT is written, but there is nothing to run it with: the commands  *)
(* stay in m_Commands.                                                       *)
Refused(queue) == queue # <<>> /\ ~sudo

(* addCommands, and then executeAll; queue is m_Commands with the new        *)
(* commands.  Nobody calls it while the thread runs: a dialog is in front.   *)
executeAll(queue) ==
  /\ commands' = queue
  /\ IF queue # <<>> /\ sudo
       THEN thread' = "started" /\ todo' = queue /\ ok' = TRUE
       ELSE UNCHANGED <<thread, todo, ok>>
  /\ UNCHANGED sudo

(* The script file could not be written: executeAll returns. *)
executeNothing(queue) ==
  /\ commands' = queue
  /\ UNCHANGED <<sudo, thread, todo, ok>>

(* ProcessT::run, for which the whole script is one command. *)
ReadScript ==
  /\ thread = "started"
  /\ thread' = "running"
  /\ UNCHANGED <<commands, sudo, todo, ok>>

(* The command at the head is done. *)
Succeed ==
  /\ thread = "running" /\ todo # <<>>
  /\ todo' = Tail(todo)
  /\ UNCHANGED <<commands, sudo, thread, ok>>

(* set -e; or nobody entered the password. *)
Abort ==
  /\ thread' = "done" /\ todo' = <<>> /\ ok' = FALSE
  /\ UNCHANGED <<commands, sudo>>

ScriptEnds ==
  /\ thread = "running" /\ todo = <<>>
  /\ thread' = "done"
  /\ UNCHANGED <<commands, sudo, todo, ok>>

(* SuperUser::processFinished clears m_Commands, then emits finished. *)
processFinished ==
  /\ thread = "done"
  /\ thread' = "idle"
  /\ commands' = <<>>
  /\ UNCHANGED <<sudo, todo, ok>>

=============================================================================
