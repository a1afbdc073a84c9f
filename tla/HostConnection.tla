--------------------------- MODULE HostConnection ---------------------------
(* `brain-ai connect|disconnect --mode loop --apply` (integrations.py       *)
(* loop_connection_change, workspace.py connection_change): a host is       *)
(* connected by changing three files, one after the other, while an editor  *)
(* and other commands change them too.                                      *)
(*                                                                          *)
(*   mcp      the host's MCP configuration (.codex/config.toml, .mcp.json)  *)
(*   hook     the host's hook file                                          *)
(*   binding  the ownership record in the Brain-AI home: which hooks are    *)
(*            ours and which of the two files a connection created          *)
(*                                                                          *)
(* A command reads a file without a lock, works out what it should become,  *)
(* and then, under a lock, compares the file with what it read and replaces *)
(* it atomically.  The four transactions of a command use four locks, and   *)
(* an editor uses none.  One host, project and entity; a definition of ours *)
(* is known by the package version that wrote it; an entry of somebody else *)
(* by the edit that added it.                                               *)
EXTENDS Naturals, Sequences

CONSTANTS
  Proc,      \* processes that run commands, each any number of them
  Version,   \* package versions, each with its own definitions
  Edit,      \* entries an editor may add to a host file, each once
  MaxFaults, \* bound on the file writes that fail
  Toml,      \* TRUE of codex, whose MCP file without an entry is an empty text
  NoFile, NoVersion, NoProc, Touched  \* model values

File == {"mcp", "hook", "binding"}
HostFile == {"mcp", "hook"}

(* owned: our entry; others: entries of others; created: in the binding,    *)
(* the host files that did not exist when the connection was made.          *)
Text == [owned : Version \cup {NoVersion}, others : SUBSET Edit, created : SUBSET HostFile]

ASSUME ConnectionAssumption ==
  /\ MaxFaults \in Nat /\ Toml \in BOOLEAN
  /\ NoVersion \notin Version
  /\ NoProc \notin Proc
  /\ NoFile \notin Text

VARIABLES
  disk,    \* the three files
  lock,    \* lock[j]: who holds the lock of transaction j
  pc, cmd, job, changes, done, moved, seen, owned,  \* per process, in memory
  made,    \* the edits made so far
  faults,  \* writes that failed so far
  \* history
  torn,    \* a change of hook and binding was cut short for good
  late,    \* late[p]: entries that reached a file since p compared it
  ground   \* ground[p]: the disk when p began, until somebody else writes

history == <<torn, late, ground>>
vars == <<disk, lock, pc, cmd, job, changes, done, moved, seen, owned, made, faults, history>>
-----------------------------------------------------------------------------
(* Files *)

Content == Text \cup {NoFile}
Binding == [owned : Version, others : {{}}, created : SUBSET HostFile] \cup {NoFile}

Owned(c)   == IF c = NoFile THEN NoVersion ELSE c.owned
Others(c)  == IF c = NoFile THEN {} ELSE c.others
Created(c) == IF c = NoFile THEN {} ELSE c.created

HostContent(v, o) == [owned |-> v, others |-> o, created |-> {}]

Command == [kind : {"connect", "disconnect"}, version : Version]

(* The MCP file a command makes of what it read. *)
McpAfter(c, mcp) ==
  IF c.kind = "connect" THEN HostContent(c.version, Others(mcp))
  ELSE IF mcp = NoFile THEN NoFile
  ELSE HostContent(NoVersion, Others(mcp))

(* Our hooks are as the record says: otherwise the command is refused, with *)
(* "references this binding without an ownership record", or "modified", or *)
(* "missing".                                                               *)
Accepted(hook, binding) == Owned(hook) = Owned(binding)

HookAfter(c, hook, binding) ==
  IF c.kind = "connect" THEN HostContent(c.version, Others(hook))
  ELSE IF binding = NoFile THEN hook
  ELSE IF "hook" \in Created(binding) /\ Others(hook) = {} THEN NoFile
  ELSE HostContent(NoVersion, Others(hook))

(* The record keeps what it said of who created the files; a new one says   *)
(* which were absent.                                                       *)
BindingAfter(c, hook, binding, newMcp) ==
  IF c.kind = "disconnect" THEN NoFile
  ELSE [owned |-> c.version, others |-> {},
        created |-> IF binding # NoFile THEN binding.created
                    ELSE {f \in HostFile : \/ f = "hook" /\ hook = NoFile
                                           \/ f = "mcp" /\ newMcp}]
-----------------------------------------------------------------------------
(* Processes *)

(* The transactions of a command: the MCP entry; removing an MCP file that  *)
(* a connection created; hooks and binding; and putting the MCP file back.  *)
Job == {"connect", "cleanup", "lifecycle", "restore"}

Change(f, before, after) == [file |-> f, before |-> before, after |-> after]
Changes == Seq([file : File, before : Content, after : Content])

InTransaction == {"write", "verify", "undo"}
Outcome == {"success", "failure", "unrestored"}
PC == {"idle", "mcp", "hook", "binding", "compare"} \cup InTransaction \cup Outcome

(* What connection_change reports of the MCP file. *)
Move == [before : Content, after : Content, mutated : BOOLEAN]

At(p, l) == pc[p] = l
Goto(p, l) == pc' = [pc EXCEPT ![p] = l]
Release(p) == /\ lock' = [lock EXCEPT ![job[p]] = NoProc]
              /\ done' = [done EXCEPT ![p] = 0]
Plan(p, j, cs) == /\ job' = [job EXCEPT ![p] = j]
                  /\ changes' = [changes EXCEPT ![p] = cs]
                  /\ Goto(p, "compare")

(* A file is replaced: history of the others. *)
Put(p, f, c) ==
  /\ disk' = [disk EXCEPT ![f] = c]
  /\ late' = [q \in Proc |-> IF q = p \/ pc[q] \notin InTransaction THEN late[q]
                             ELSE late[q] \cup (Others(c) \ Others(disk[f]))]
  /\ ground' = [q \in Proc |-> IF q = p \/ disk' = disk THEN ground[q] ELSE Touched]
-----------------------------------------------------------------------------
(* A command *)

(* The previews read the files and refuse what could not be applied: a      *)
(* refused command changes nothing.                                         *)
Begin(p) ==
  /\ At(p, "idle")
  /\ Accepted(disk["hook"], disk["binding"])
  /\ \E c \in Command :
       /\ cmd' = [cmd EXCEPT ![p] = c]
       /\ owned' = [owned EXCEPT ![p] = c.kind = "disconnect"
                                        /\ "mcp" \in Created(disk["binding"])]
  /\ ground' = [ground EXCEPT ![p] = disk]
  /\ Goto(p, "mcp")
  /\ UNCHANGED <<disk, lock, job, changes, done, moved, seen, made, faults, torn, late>>

BugFail(p) == Goto(p, "failure") /\ UNCHANGED <<job, changes>>

(* An error: what was done to the MCP file is put back. *)
Fail(p) ==
  IF moved[p].mutated
  THEN Plan(p, "restore", <<Change("mcp", moved[p].after, moved[p].before)>>)
  ELSE Goto(p, "failure") /\ UNCHANGED <<job, changes>>

(* After the MCP entry: a disconnect removes an MCP file that a connection  *)
(* created and that nothing is left in.                                     *)
AfterMcp(p, after) ==
  IF owned[p] /\ after # NoFile /\ Others(after) = {}
  THEN Plan(p, "cleanup", <<Change("mcp", after, NoFile)>>)
  ELSE Goto(p, "hook") /\ UNCHANGED <<job, changes>>

ReadMcp(p) ==
  /\ At(p, "mcp")
  /\ LET before == disk["mcp"]
         after == McpAfter(cmd[p], before)
     IN  /\ moved' = [moved EXCEPT ![p] = [before |-> before, after |-> after,
                                           mutated |-> FALSE]]
         /\ IF after = before THEN AfterMcp(p, after)
            ELSE Plan(p, "connect", <<Change("mcp", before, after)>>)
  /\ UNCHANGED <<disk, lock, cmd, done, seen, owned, made, faults, history>>

ReadHook(p) ==
  /\ At(p, "hook")
  /\ seen' = [seen EXCEPT ![p] = disk["hook"]]
  /\ Goto(p, "binding")
  /\ UNCHANGED <<disk, lock, cmd, job, changes, done, moved, owned, made, faults,
                 history>>

(* Of the two files, those that have to change. *)
Selected(h, b) == IF h.before = h.after THEN <<b>>
                  ELSE IF b.before = b.after THEN <<h>> ELSE <<h, b>>

(* Reads the binding and merges; a file that stays as it is is not touched. *)
ReadBinding(p) ==
  /\ At(p, "binding")
  /\ LET hook == seen[p]
         binding == disk["binding"]
         hookAfter == HookAfter(cmd[p], hook, binding)
         bindingAfter == BindingAfter(cmd[p], hook, binding, moved[p].before = NoFile)
     IN  IF ~ Accepted(hook, binding) THEN Fail(p)
         ELSE IF hookAfter = hook /\ bindingAfter = binding
         THEN Goto(p, "success") /\ UNCHANGED <<job, changes>>
         ELSE Plan(p, "lifecycle", Selected(Change("hook", hook, hookAfter),
                                            Change("binding", binding, bindingAfter)))
  /\ seen' = [seen EXCEPT ![p] = NoFile]
  /\ UNCHANGED <<disk, lock, cmd, done, moved, owned, made, faults, history>>
-----------------------------------------------------------------------------
(* A transaction *)

BugAsRead(p) == disk[changes[p][1].file] # NoFile => changes[p][1].before # NoFile

(* The transaction of connection_change compares texts, and a file that is  *)
(* not there has an empty one; the others tell it from an empty file.       *)
Blank(c) == c = NoFile \/ (Toml /\ c = HostContent(NoVersion, {}))
Same(p, x, y) == x = y \/ (job[p] = "connect" /\ Blank(x) /\ Blank(y))

AsRead(p) == \A i \in DOMAIN changes[p] :
               Same(p, disk[changes[p][i].file], changes[p][i].before)

(* Under the lock, the files are compared with what was read. *)
Compare(p) ==
  /\ At(p, "compare") /\ lock[job[p]] = NoProc /\ AsRead(p)
  /\ lock' = [lock EXCEPT ![job[p]] = p]
  /\ late' = [late EXCEPT ![p] = {}]
  /\ done' = [done EXCEPT ![p] = 0]
  /\ Goto(p, "write")
  /\ UNCHANGED <<disk, cmd, job, changes, moved, seen, owned, made, faults, torn,
                 ground>>

(* "config_changed: preview again"; a restore that finds the file changed   *)
(* reports that the connection "could not be restored".                     *)
Conflict(p) ==
  /\ At(p, "compare") /\ lock[job[p]] = NoProc /\ ~ AsRead(p)
  /\ IF job[p] = "restore"
     THEN Goto(p, "unrestored") /\ UNCHANGED <<job, changes>>
     ELSE Fail(p)
  /\ UNCHANGED <<disk, lock, cmd, done, moved, seen, owned, made, faults, history>>

Write(p) ==
  /\ At(p, "write")
  /\ LET i == done[p] + 1
     IN  /\ Put(p, changes[p][i].file, changes[p][i].after)
         /\ done' = [done EXCEPT ![p] = i]
         /\ Goto(p, IF i = Len(changes[p]) THEN "verify" ELSE "write")
  /\ UNCHANGED <<lock, cmd, job, changes, moved, seen, owned, made, faults, torn>>

BugUnwind(p) == Release(p) /\ Fail(p)

(* The transaction of connection_change has no undo of its own. *)
Unwind(p) ==
  IF job[p] = "connect"
  THEN Release(p) /\ Fail(p)
  ELSE Goto(p, "undo") /\ UNCHANGED <<lock, done, job, changes>>

(* A write fails before its replace, and nothing is changed.                *)
WriteFails(p) ==
  /\ At(p, "write") /\ faults < MaxFaults
  /\ faults' = faults + 1
  /\ Unwind(p)
  /\ UNCHANGED <<disk, cmd, moved, seen, owned, made, history>>

(* The replace takes effect and the fsync of its directory fails: the file  *)
(* is not among those written, and is not put back.                         *)
SyncFails(p) ==
  /\ At(p, "write") /\ faults < MaxFaults
  /\ LET c == changes[p][done[p] + 1] IN Put(p, c.file, c.after)
  /\ faults' = faults + 1
  /\ torn' = TRUE
  /\ Unwind(p)
  /\ UNCHANGED <<cmd, moved, seen, owned, made>>

AsWritten(p) == \A i \in DOMAIN changes[p] :
                  Same(p, disk[changes[p][i].file], changes[p][i].after)

Verify(p) ==
  /\ At(p, "verify") /\ AsWritten(p)
  /\ Release(p)
  /\ CASE job[p] = "connect" ->
            /\ moved' = [moved EXCEPT ![p] = [before |-> @.before, after |-> @.after,
                                              mutated |-> TRUE]]
            /\ AfterMcp(p, moved[p].after)
       [] job[p] = "cleanup" ->
            /\ moved' = [moved EXCEPT ![p] = [before |-> @.before, after |-> NoFile,
                                              mutated |-> TRUE]]
            /\ Goto(p, "hook")
            /\ UNCHANGED <<job, changes>>
       [] OTHER ->
            /\ Goto(p, IF job[p] = "lifecycle" THEN "success" ELSE "failure")
            /\ UNCHANGED <<job, changes, moved>>
  /\ UNCHANGED <<disk, cmd, seen, owned, made, faults, history>>

VerifyFails(p) ==
  /\ At(p, "verify") /\ ~ AsWritten(p)
  /\ Unwind(p)
  /\ UNCHANGED <<disk, cmd, moved, seen, owned, made, faults, history>>

(* The files written are put back in reverse, whatever they hold by now. *)
Undo(p) ==
  /\ At(p, "undo") /\ done[p] > 0
  /\ LET c == changes[p][done[p]] IN Put(p, c.file, c.before)
  /\ done' = [done EXCEPT ![p] = @ - 1]
  /\ UNCHANGED <<lock, pc, cmd, job, changes, moved, seen, owned, made, faults, torn>>

(* The transaction is given up. *)
Abandon(p) ==
  /\ Release(p)
  /\ IF job[p] = "restore"
     THEN Goto(p, "unrestored") /\ UNCHANGED <<job, changes>>
     ELSE Fail(p)

Undone(p) ==
  /\ At(p, "undo") /\ done[p] = 0
  /\ Abandon(p)
  /\ UNCHANGED <<disk, cmd, moved, seen, owned, made, faults, history>>

(* Putting a file back fails: the rest of the files stay as they are. *)
UndoFails(p) ==
  /\ At(p, "undo") /\ done[p] > 0 /\ faults < MaxFaults
  /\ faults' = faults + 1
  /\ torn' = TRUE
  /\ Abandon(p)
  /\ UNCHANGED <<disk, cmd, moved, seen, owned, made, late, ground>>

NoCommand == [kind |-> "disconnect", version |-> NoVersion]
NoMove == [before |-> NoFile, after |-> NoFile, mutated |-> FALSE]

(* The memory of a process goes with it. *)
Forget(p) ==
  /\ Goto(p, "idle")
  /\ cmd' = [cmd EXCEPT ![p] = NoCommand]
  /\ job' = [job EXCEPT ![p] = "connect"]
  /\ changes' = [changes EXCEPT ![p] = <<>>]
  /\ done' = [done EXCEPT ![p] = 0]
  /\ moved' = [moved EXCEPT ![p] = NoMove]
  /\ seen' = [seen EXCEPT ![p] = NoFile]
  /\ owned' = [owned EXCEPT ![p] = FALSE]
  /\ late' = [late EXCEPT ![p] = {}]
  /\ ground' = [ground EXCEPT ![p] = Touched]

(* The outcome is reported. *)
Exit(p) ==
  /\ pc[p] \in Outcome
  /\ Forget(p)
  /\ UNCHANGED <<disk, lock, made, faults, torn>>

CommandStep(p) ==
  \/ Begin(p) \/ ReadMcp(p) \/ ReadHook(p) \/ ReadBinding(p)
  \/ Compare(p) \/ Conflict(p) \/ Write(p) \/ WriteFails(p) \/ SyncFails(p)
  \/ Verify(p) \/ VerifyFails(p) \/ Undo(p) \/ Undone(p) \/ UndoFails(p) \/ Exit(p)
-----------------------------------------------------------------------------
(* The surroundings *)

(* Some of the files of a transaction are changed and some are not. *)
Halfway(p) == \/ At(p, "write") /\ done[p] > 0
              \/ At(p, "undo") /\ done[p] > 0 /\ done[p] < Len(changes[p])

(* A process dies: its locks are freed, its files stay as they are. *)
Die(p) ==
  /\ ~ At(p, "idle")
  /\ Forget(p)
  /\ lock' = [j \in Job |-> IF lock[j] = p THEN NoProc ELSE lock[j]]
  /\ torn' = (torn \/ Halfway(p))
  /\ UNCHANGED <<disk, made, faults>>

(* Somebody adds an entry of theirs to a host file. *)
EditFile(f, e) ==
  /\ e \notin made
  /\ made' = made \cup {e}
  /\ Put(NoProc, f, HostContent(Owned(disk[f]), Others(disk[f]) \cup {e}))
  /\ UNCHANGED <<lock, pc, cmd, job, changes, done, moved, seen, owned, faults, torn>>

Init ==
  /\ disk = [f \in File |-> NoFile]
  /\ lock = [j \in Job |-> NoProc]
  /\ pc = [p \in Proc |-> "idle"]
  /\ cmd = [p \in Proc |-> NoCommand]
  /\ job = [p \in Proc |-> "connect"]
  /\ changes = [p \in Proc |-> <<>>]
  /\ done = [p \in Proc |-> 0]
  /\ moved = [p \in Proc |-> NoMove]
  /\ seen = [p \in Proc |-> NoFile]
  /\ owned = [p \in Proc |-> FALSE]
  /\ made = {} /\ faults = 0 /\ torn = FALSE
  /\ late = [p \in Proc |-> {}]
  /\ ground = [p \in Proc |-> Touched]

Next == \/ \E p \in Proc : CommandStep(p) \/ Die(p)
        \/ \E f \in HostFile, e \in Edit : EditFile(f, e)

Spec == Init /\ [][Next]_vars
-----------------------------------------------------------------------------
(* Properties *)

TypeOK ==
  /\ disk \in [File -> Content] /\ disk["binding"] \in Binding
  /\ lock \in [Job -> Proc \cup {NoProc}]
  /\ pc \in [Proc -> PC]
  /\ cmd \in [Proc -> Command \cup {NoCommand}]
  /\ job \in [Proc -> Job]
  /\ changes \in [Proc -> Changes]
  /\ done \in [Proc -> 0 .. 2]
  /\ moved \in [Proc -> Move]
  /\ seen \in [Proc -> Content]
  /\ owned \in [Proc -> BOOLEAN]
  /\ made \subseteq Edit
  /\ faults \in 0 .. MaxFaults
  /\ torn \in BOOLEAN
  /\ late \in [Proc -> SUBSET Edit]

(* Between commands our hooks and the record of them agree, however         *)
(* commands and edits interleave and whatever conflict or failed write      *)
(* stops them, unless a process died halfway, or an undo or the flush of a  *)
(* directory failed: otherwise every later connect and disconnect would be  *)
(* refused.                                                                 *)
HooksMatchRecord ==
  lock["lifecycle"] = NoProc /\ ~ torn => Accepted(disk["hook"], disk["binding"])

(* "an apply stops if the config changed after it was read" (SECURITY.md):  *)
(* a command loses an entry of somebody else only if it arrived after the   *)
(* command compared the file under its lock.                                *)
EditsSurvive ==
  [][\A p \in Proc : CommandStep(p) =>
       \A f \in File : Others(disk[f]) \ Others(disk'[f]) \subseteq late[p]]_vars

(* What a command that succeeds makes of a disk. *)
Goal(c, d) ==
  LET removed == c.kind = "disconnect" /\ d["binding"] # NoFile
      HostGoal(f) == IF c.kind = "connect" THEN HostContent(c.version, Others(d[f]))
                     ELSE IF d[f] = NoFile \/ (removed /\ f \in Created(d["binding"])
                                                       /\ Others(d[f]) = {})
                     THEN NoFile ELSE HostContent(NoVersion, Others(d[f]))
  IN  [f \in File |->
        IF f = "binding"
        THEN IF c.kind = "disconnect" THEN NoFile
             ELSE [owned |-> c.version, others |-> {},
                   created |-> IF d[f] # NoFile THEN d[f].created
                               ELSE {g \in HostFile : d[g] = NoFile}]
        ELSE HostGoal(f)]

(* loop installation "rolls back the exact prior connection if lifecycle    *)
(* setup fails" (CHANGELOG.md): a command that has the files to itself does *)
(* all of its work, or fails and leaves all three as it found them.         *)
AllOrNothing ==
  \A p \in Proc : ground[p] # Touched /\ ~ torn =>
    /\ At(p, "success") => disk = Goal(cmd[p], ground[p])
    /\ At(p, "failure") => disk = ground[p]
=============================================================================
