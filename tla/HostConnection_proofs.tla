------------------------ MODULE HostConnection_proofs ------------------------
(* Theorems about HostConnection, for any processes, versions, edits and    *)
(* bound on faults.  The inductive invariant says of a process what the     *)
(* changes it has planned may be, who holds which lock, and, of the holder  *)
(* of the lock of hooks and binding, which of the two files it has written  *)
(* so far.  For a command that nobody disturbs, AloneInv says at each of    *)
(* its places what the three files hold, in terms of what they held when it *)
(* began.                                                                   *)
EXTENDS HostConnection, TLAPS

Pair == {"hook", "binding"}
MayHold(f) == IF f = "binding" THEN Binding ELSE Content

(* The changes of a transaction: the hook file and the binding go from one  *)
(* owner to another together; the other transactions change the MCP file.   *)
PlanOK(j, cs) ==
  /\ Len(cs) \in {1, 2}
  /\ \A i \in 1 .. Len(cs) : /\ cs[i].before \in MayHold(cs[i].file)
                             /\ cs[i].after \in MayHold(cs[i].file)
  /\ j # "lifecycle" => \A i \in 1 .. Len(cs) : cs[i].file = "mcp"
  /\ j = "lifecycle" /\ Len(cs) = 1 => /\ cs[1].file \in Pair
                                       /\ Owned(cs[1].before) = Owned(cs[1].after)
  /\ j = "lifecycle" /\ Len(cs) = 2 => /\ cs[1].file = "hook" /\ cs[2].file = "binding"
                                       /\ Owned(cs[1].before) = Owned(cs[2].before)
                                       /\ Owned(cs[1].after) = Owned(cs[2].after)

Planned == {"compare"} \cup InTransaction

ProcInv(p) ==
  /\ pc[p] # "idle" => cmd[p] \in Command
  /\ pc[p] \in Planned => PlanOK(job[p], changes[p])
  /\ pc[p] = "write" => done[p] < Len(changes[p])
  /\ pc[p] = "verify" => done[p] = Len(changes[p])
  /\ pc[p] = "undo" => done[p] <= Len(changes[p])

LockInv ==
  \A p \in Proc, j \in Job : lock[j] = p <=> pc[p] \in InTransaction /\ job[p] = j

TypeInv == TypeOK /\ LockInv /\ \A p \in Proc : ProcInv(p)

LEMMA InitTypeInv == Init => TypeInv
<1> SUFFICES ASSUME Init PROVE TypeInv
  OBVIOUS
<1>1. TypeOK
  <2>1. NoMove \in Move /\ <<>> \in Changes
    <3>1. NoFile \in Content
      BY DEF Content
    <3> QED
      BY <3>1 DEF Move, NoMove, Changes
  <2>2. disk \in [File -> Content] /\ disk["binding"] \in Binding /\ seen \in [Proc -> Content]
    BY DEF Init, File, Content, Binding
  <2>3. lock \in [Job -> Proc \cup {NoProc}] /\ pc \in [Proc -> PC] /\ job \in [Proc -> Job]
    BY DEF Init, Job, PC
  <2>4. cmd \in [Proc -> Command \cup {NoCommand}] /\ changes \in [Proc -> Changes]
        /\ moved \in [Proc -> Move]
    BY <2>1 DEF Init
  <2>5. /\ done \in [Proc -> 0 .. 2] /\ made \subseteq Edit
        /\ faults \in 0 .. MaxFaults /\ late \in [Proc -> SUBSET Edit]
    BY ConnectionAssumption DEF Init
  <2>6. torn \in BOOLEAN /\ owned \in [Proc -> BOOLEAN]
    BY Zenon DEF Init
  <2> QED
    BY <2>2, <2>3, <2>4, <2>5, <2>6 DEF TypeOK
<1>2. LockInv
  BY ConnectionAssumption DEF Init, LockInv, InTransaction
<1>3. \A p \in Proc : ProcInv(p)
  BY DEF Init, ProcInv, Planned, InTransaction
<1> QED
  BY <1>1, <1>2, <1>3 DEF TypeInv
-----------------------------------------------------------------------------
(* Files *)

LEMMA HostContentIs ==
  ASSUME NEW v \in Version \cup {NoVersion}, NEW o \in SUBSET Edit
  PROVE  HostContent(v, o) \in Content /\ Owned(HostContent(v, o)) = v
BY ConnectionAssumption DEF HostContent, Content, Text, Owned

LEMMA ContentParts ==
  ASSUME NEW c \in Content
  PROVE  Owned(c) \in Version \cup {NoVersion} /\ Others(c) \in SUBSET Edit
         /\ Created(c) \in SUBSET HostFile
BY DEF Content, Text, Owned, Others, Created

LEMMA BindingIsContent == Binding \subseteq Content
BY DEF Binding, Content, Text

LEMMA McpAfterIs ==
  ASSUME NEW c \in Command, NEW mcp \in Content
  PROVE  McpAfter(c, mcp) \in Content
<1>1. c.version \in Version /\ Others(mcp) \in SUBSET Edit
  BY ContentParts DEF Command
<1>2. HostContent(c.version, Others(mcp)) \in Content /\ HostContent(NoVersion, Others(mcp)) \in Content
  BY <1>1, HostContentIs
<1> QED
  BY <1>2 DEF McpAfter, Content

(* Whatever was read, the hook file and the binding come to agree.          *)
LEMMA MergeAgrees ==
  ASSUME NEW c \in Command, NEW hook \in Content, NEW binding \in Binding,
         NEW newMcp \in BOOLEAN, Accepted(hook, binding)
  PROVE  /\ HookAfter(c, hook, binding) \in Content
         /\ BindingAfter(c, hook, binding, newMcp) \in Binding
         /\ Owned(HookAfter(c, hook, binding)) = Owned(BindingAfter(c, hook, binding, newMcp))
<1> DEFINE new == [owned |-> c.version, others |-> {},
                   created |-> IF binding # NoFile THEN binding.created
                               ELSE {f \in HostFile : \/ f = "hook" /\ hook = NoFile
                                                      \/ f = "mcp" /\ newMcp}]
<1>1. c.version \in Version /\ Others(hook) \in SUBSET Edit /\ c.kind \in {"connect", "disconnect"}
  BY ContentParts DEF Command
<1>2. new \in Binding /\ new # NoFile /\ new.owned = c.version
  <2>1. new \in [owned : Version, others : {{}}, created : SUBSET HostFile]
    BY <1>1 DEF Binding
  <2>2. new \in Text
    BY <2>1 DEF Text
  <2> QED
    BY <2>1, <2>2, ConnectionAssumption DEF Binding
<1>3. /\ HostContent(c.version, Others(hook)) \in Content
      /\ HostContent(NoVersion, Others(hook)) \in Content
      /\ Owned(HostContent(c.version, Others(hook))) = c.version
      /\ Owned(HostContent(NoVersion, Others(hook))) = NoVersion
  BY <1>1, HostContentIs
<1>4. Owned(new) = c.version /\ Owned(NoFile) = NoVersion
  BY <1>2 DEF Owned
<1>5. NoFile \in Content /\ NoFile \in Binding
  BY DEF Content, Binding
<1>6. BindingAfter(c, hook, binding, newMcp) = IF c.kind = "disconnect" THEN NoFile ELSE new
  BY DEF BindingAfter
<1> HIDE DEF new
<1>7. CASE c.kind = "connect"
  BY <1>2, <1>3, <1>4, <1>6, <1>7 DEF HookAfter
<1>8. CASE c.kind = "disconnect"
  BY <1>3, <1>4, <1>5, <1>6, <1>8 DEF HookAfter, Accepted
<1> QED
  BY <1>1, <1>7, <1>8
-----------------------------------------------------------------------------
(* Plans *)

(* What a command does next: it goes on or ends, or plans a transaction.    *)
Planning(p) ==
  \/ /\ \E l \in {"hook", "success", "failure", "unrestored"} : Goto(p, l)
     /\ UNCHANGED <<job, changes>>
  \/ \E j \in Job, cs \in Changes : PlanOK(j, cs) /\ Plan(p, j, cs)

LEMMA McpPlanIs ==
  ASSUME NEW j \in Job, j # "lifecycle", NEW b \in Content, NEW a \in Content
  PROVE  <<Change("mcp", b, a)>> \in Changes /\ PlanOK(j, <<Change("mcp", b, a)>>)
BY DEF Change, Changes, PlanOK, MayHold, File

LEMMA FailPlans ==
  ASSUME TypeOK, NEW p \in Proc, Fail(p)
  PROVE  Planning(p)
<1>1. moved[p].before \in Content /\ moved[p].after \in Content
  BY DEF TypeOK, Move
<1>2. "restore" \in Job
  BY DEF Job
<1> QED
  BY <1>1, <1>2, McpPlanIs DEF Fail, Planning

LEMMA AfterMcpPlans ==
  ASSUME NEW p \in Proc, NEW after \in Content, AfterMcp(p, after)
  PROVE  Planning(p)
<1>1. "cleanup" \in Job /\ NoFile \in Content
  BY DEF Job, Content
<1> QED
  BY <1>1, McpPlanIs DEF AfterMcp, Planning

LEMMA ReadMcpPlans ==
  ASSUME TypeInv, NEW p \in Proc, ReadMcp(p)
  PROVE  Planning(p) /\ moved' \in [Proc -> Move]
<1> DEFINE after == McpAfter(cmd[p], disk["mcp"])
           move == [before |-> disk["mcp"], after |-> after, mutated |-> FALSE]
<1>1. cmd[p] \in Command /\ disk["mcp"] \in Content
  BY DEF ReadMcp, At, TypeInv, TypeOK, ProcInv, File
<1>2. after \in Content
  BY <1>1, McpAfterIs
<1>3. move \in Move
  BY <1>1, <1>2 DEF Move
<1>4. /\ moved' = [moved EXCEPT ![p] = move]
      /\ AfterMcp(p, after) \/ Plan(p, "connect", <<Change("mcp", disk["mcp"], after)>>)
  BY Zenon DEF ReadMcp
<1>5. "connect" \in Job
  BY DEF Job
<1> HIDE DEF after, move
<1>6. Planning(p)
  BY <1>1, <1>2, <1>4, <1>5, AfterMcpPlans, McpPlanIs DEF Planning
<1>7. moved' \in [Proc -> Move]
  BY <1>3, <1>4 DEF TypeOK, TypeInv
<1> QED
  BY <1>6, <1>7

LEMMA ReadBindingPlans ==
  ASSUME TypeInv, NEW p \in Proc, ReadBinding(p)
  PROVE  Planning(p)
<1> DEFINE hook == seen[p]
           binding == disk["binding"]
           newMcp == moved[p].before = NoFile
           hookAfter == HookAfter(cmd[p], hook, binding)
           bindingAfter == BindingAfter(cmd[p], hook, binding, newMcp)
           h == Change("hook", hook, hookAfter)
           b == Change("binding", binding, bindingAfter)
<1>1. cmd[p] \in Command /\ hook \in Content /\ binding \in Binding /\ newMcp \in BOOLEAN
  BY DEF ReadBinding, At, TypeInv, TypeOK, ProcInv
<1>2. CASE ~ Accepted(hook, binding)
  BY <1>2, FailPlans DEF ReadBinding, TypeInv
<1>3. CASE Accepted(hook, binding)
  <2>1. /\ hookAfter \in Content /\ bindingAfter \in Binding
        /\ Owned(hookAfter) = Owned(bindingAfter)
    BY <1>1, <1>3, MergeAgrees
  <2>2. Owned(hook) = Owned(binding)
    BY <1>3 DEF Accepted
  <2>3. \/ Goto(p, "success") /\ UNCHANGED <<job, changes>>
        \/ ~ (hookAfter = hook /\ bindingAfter = binding) /\ Plan(p, "lifecycle", Selected(h, b))
    BY <1>3, Zenon DEF ReadBinding
  <2> HIDE DEF hook, binding, newMcp, hookAfter, bindingAfter
  <2>4. binding \in Content /\ bindingAfter \in Content
    BY <1>1, <2>1, BindingIsContent
  <2>5. ASSUME ~ (hookAfter = hook /\ bindingAfter = binding)
        PROVE  Selected(h, b) \in Changes /\ PlanOK("lifecycle", Selected(h, b))
    <3>1. /\ h.file = "hook" /\ h.before = hook /\ h.after = hookAfter
          /\ b.file = "binding" /\ b.before = binding /\ b.after = bindingAfter
      BY DEF Change
    <3>2. /\ h \in [file : File, before : Content, after : Content]
          /\ b \in [file : File, before : Content, after : Content]
      BY <1>1, <2>1, <2>4 DEF Change, File
    <3> HIDE DEF h, b
    <3>3. CASE hook = hookAfter
      <4>1. Selected(h, b) = <<b>>
        BY <3>1, <3>3 DEF Selected
      <4>2. Owned(binding) = Owned(bindingAfter)
        BY <2>1, <2>2, <3>3
      <4> QED
        BY <1>1, <2>1, <3>1, <3>2, <4>1, <4>2 DEF PlanOK, MayHold, Changes, Pair
    <3>4. CASE hook # hookAfter /\ binding = bindingAfter
      <4>1. Selected(h, b) = <<h>>
        BY <3>1, <3>4 DEF Selected
      <4>2. Owned(hook) = Owned(hookAfter)
        BY <2>1, <2>2, <3>4
      <4> QED
        BY <1>1, <2>1, <3>1, <3>2, <4>1, <4>2 DEF PlanOK, MayHold, Changes, Pair
    <3>5. CASE hook # hookAfter /\ binding # bindingAfter
      <4>1. Selected(h, b) = <<h, b>>
        BY <3>1, <3>5 DEF Selected
      <4>2. <<h, b>> \in Changes /\ Len(<<h, b>>) = 2 /\ <<h, b>>[1] = h /\ <<h, b>>[2] = b
        BY <3>2 DEF Changes
      <4>3. \A i \in 1 .. 2 : /\ <<h, b>>[i].before \in MayHold(<<h, b>>[i].file)
                              /\ <<h, b>>[i].after \in MayHold(<<h, b>>[i].file)
        BY <1>1, <2>1, <3>1, <4>2 DEF MayHold
      <4> QED
        BY <2>1, <2>2, <3>1, <4>1, <4>2, <4>3 DEF PlanOK
    <3> QED
      BY <3>3, <3>4, <3>5
  <2>6. "lifecycle" \in Job
    BY DEF Job
  <2> QED
    BY <2>3, <2>5, <2>6 DEF Planning
<1> QED
  BY <1>2, <1>3

(* A step of p leaves what the others have in memory alone. *)
Frame(p) ==
  \A q \in Proc \ {p} : /\ pc'[q] = pc[q] /\ job'[q] = job[q] /\ changes'[q] = changes[q]
                        /\ done'[q] = done[q] /\ cmd'[q] = cmd[q]

LEMMA FrameInv ==
  ASSUME TypeInv, NEW p \in Proc, Frame(p), ProcInv(p)',
         \A j \in Job : lock'[j] = p <=> pc'[p] \in InTransaction /\ job'[p] = j,
         \A j \in Job : lock'[j] # lock[j] => lock'[j] \in {p, NoProc} /\ lock[j] \in {p, NoProc}
  PROVE  LockInv' /\ \A q \in Proc : ProcInv(q)'
<1>1. ASSUME NEW q \in Proc, q # p PROVE ProcInv(q)'
  <2>1. ProcInv(q)
    BY DEF TypeInv
  <2> QED
    BY <1>1, <2>1 DEF Frame, ProcInv
<1>2. ASSUME NEW q \in Proc, q # p, NEW j \in Job
      PROVE  lock'[j] = q <=> pc'[q] \in InTransaction /\ job'[q] = j
  <2>1. lock'[j] = q <=> lock[j] = q
    BY <1>2, ConnectionAssumption
  <2> QED
    BY <1>2, <2>1 DEF TypeInv, LockInv, Frame
<1> QED
  BY <1>1, <1>2 DEF LockInv

LEMMA PlanningInv ==
  ASSUME TypeInv, NEW p \in Proc, Planning(p), pc[p] # "idle", cmd' = cmd,
         \/ pc[p] \notin InTransaction /\ UNCHANGED <<lock, done>>
         \/ pc[p] \in InTransaction /\ Release(p)
  PROVE  /\ pc' \in [Proc -> PC] /\ job' \in [Proc -> Job] /\ changes' \in [Proc -> Changes]
         /\ done' \in [Proc -> 0 .. 2] /\ lock' \in [Job -> Proc \cup {NoProc}]
         /\ LockInv' /\ \A q \in Proc : ProcInv(q)'
<1> USE DEF Goto
<1>1. /\ pc' \in [Proc -> PC] /\ job' \in [Proc -> Job] /\ changes' \in [Proc -> Changes]
  <2>1. \/ UNCHANGED <<job, changes>>
        \/ \E j \in Job, cs \in Changes : /\ job' = [job EXCEPT ![p] = j]
                                          /\ changes' = [changes EXCEPT ![p] = cs]
    BY DEF Planning, Plan
  <2>2. \E l \in {"hook", "success", "failure", "unrestored", "compare"} :
          pc' = [pc EXCEPT ![p] = l]
    BY DEF Planning, Plan
  <2>3. {"hook", "success", "failure", "unrestored", "compare"} \subseteq PC
    BY DEF PC, Outcome
  <2> QED
    BY <2>1, <2>2, <2>3 DEF TypeInv, TypeOK
<1>2. done' \in [Proc -> 0 .. 2] /\ lock' \in [Job -> Proc \cup {NoProc}]
  BY DEF Release, TypeInv, TypeOK
<1>3. Frame(p)
  BY DEF Frame, Planning, Plan, Release, TypeInv, TypeOK
<1>4. pc'[p] \notin InTransaction
  BY DEF Planning, Plan, InTransaction, TypeInv, TypeOK
<1>5. ProcInv(p)'
  <2>1. cmd'[p] \in Command
    BY DEF TypeInv, ProcInv
  <2>2. pc'[p] \in Planned => PlanOK(job'[p], changes'[p])
    <3>1. CASE \E l \in {"hook", "success", "failure", "unrestored"} : Goto(p, l)
      BY <3>1 DEF Planned, InTransaction, TypeInv, TypeOK
    <3>2. ASSUME NEW j \in Job, NEW cs \in Changes, PlanOK(j, cs), Plan(p, j, cs)
          PROVE  PlanOK(job'[p], changes'[p])
      <4>1. job'[p] = j /\ changes'[p] = cs
        BY <3>2 DEF Plan, TypeInv, TypeOK
      <4> QED
        BY <3>2, <4>1
    <3> QED
      BY <3>1, <3>2 DEF Planning
  <2> QED
    BY <1>4, <2>1, <2>2 DEF ProcInv, InTransaction
<1>6. \A j \in Job : lock'[j] # p
  <2>1. CASE pc[p] \notin InTransaction /\ UNCHANGED <<lock, done>>
    BY <2>1 DEF TypeInv, LockInv
  <2>2. CASE pc[p] \in InTransaction /\ Release(p)
    <3>1. \A j \in Job : lock'[j] = IF j = job[p] THEN NoProc ELSE lock[j]
      BY <2>2 DEF Release, TypeInv, TypeOK
    <3> QED
      BY <3>1, ConnectionAssumption DEF TypeInv, LockInv
  <2> QED
    BY <2>1, <2>2
<1>7. \A j \in Job : lock'[j] # lock[j] => lock'[j] \in {p, NoProc} /\ lock[j] \in {p, NoProc}
  <2>1. CASE Release(p) /\ pc[p] \in InTransaction
    <3>1. \A j \in Job : lock'[j] = IF j = job[p] THEN NoProc ELSE lock[j]
      BY <2>1 DEF Release, TypeInv, TypeOK
    <3>2. lock[job[p]] = p
      BY <2>1 DEF TypeInv, TypeOK, LockInv
    <3> QED
      BY <3>1, <3>2
  <2> QED
    BY <2>1
<1> QED
  BY <1>1, <1>2, <1>3, <1>4, <1>5, <1>6, <1>7, FrameInv
-----------------------------------------------------------------------------
(* Types *)

LEMMA PutType ==
  ASSUME TypeOK, NEW p, NEW f \in File, NEW c \in MayHold(f), Put(p, f, c)
  PROVE  /\ disk' \in [File -> Content] /\ disk'["binding"] \in Binding
         /\ late' \in [Proc -> SUBSET Edit]
         /\ \A g \in File : disk'[g] = IF g = f THEN c ELSE disk[g]
<1>1. c \in Content
  BY BindingIsContent DEF MayHold
<1>2. disk' = [disk EXCEPT ![f] = c]
  BY DEF Put
<1>3. \A g \in File : disk'[g] = IF g = f THEN c ELSE disk[g]
  BY <1>2 DEF TypeOK
<1>4. disk' \in [File -> Content]
  BY <1>1, <1>2 DEF TypeOK
<1>5. disk'["binding"] \in Binding
  BY <1>3 DEF TypeOK, MayHold, File
<1>6. Others(c) \subseteq Edit
  BY <1>1, ContentParts
<1>7. late' \in [Proc -> SUBSET Edit]
  <2> DEFINE next(q) == IF q = p \/ pc[q] \notin InTransaction THEN late[q]
                        ELSE late[q] \cup (Others(c) \ Others(disk[f]))
  <2>1. late' = [q \in Proc |-> next(q)]
    BY DEF Put
  <2>2. \A q \in Proc : next(q) \in SUBSET Edit
    BY <1>6 DEF TypeOK
  <2> HIDE DEF next
  <2> QED
    BY <2>1, <2>2
<1> QED
  BY <1>3, <1>4, <1>5, <1>7

BoolOK == owned \in [Proc -> BOOLEAN] /\ torn \in BOOLEAN

LEMMA BeginType ==
  ASSUME TypeInv, NEW p \in Proc, Begin(p)
  PROVE  TypeInv'
<1> PICK c \in Command : /\ cmd' = [cmd EXCEPT ![p] = c]
                         /\ owned' = [owned EXCEPT ![p] = c.kind = "disconnect"
                                                  /\ "mcp" \in Created(disk["binding"])]
  BY DEF Begin
<1>1. /\ pc[p] = "idle" /\ pc' = [pc EXCEPT ![p] = "mcp"]
      /\ UNCHANGED <<disk, lock, job, changes, done, moved, seen, made, faults, torn, late>>
  BY DEF Begin, At, Goto
<1>2. pc' \in [Proc -> PC]
  BY <1>1 DEF TypeInv, TypeOK, PC
<1>3. cmd' \in [Proc -> Command \cup {NoCommand}]
  BY DEF TypeInv, TypeOK
<1>4. BoolOK'
  <2>1. owned \in [Proc -> BOOLEAN] /\ torn \in BOOLEAN /\ torn' = torn
    BY <1>1, Zenon DEF TypeInv, TypeOK
  <2> DEFINE b == c.kind = "disconnect" /\ "mcp" \in Created(disk["binding"])
  <2>2. b \in BOOLEAN /\ owned' = [owned EXCEPT ![p] = b]
    OBVIOUS
  <2> HIDE DEF b
  <2> QED
    BY <2>1, <2>2, Zenon DEF BoolOK
<1>5. Frame(p) /\ ProcInv(p)'
  BY <1>1, <1>3 DEF Frame, ProcInv, TypeInv, TypeOK, Planned, InTransaction
<1>6. \A j \in Job : lock'[j] = p <=> pc'[p] \in InTransaction /\ job'[p] = j
  BY <1>1 DEF TypeInv, TypeOK, LockInv, InTransaction
<1>7. LockInv' /\ \A q \in Proc : ProcInv(q)'
  BY <1>1, <1>5, <1>6, FrameInv
<1>8. TypeOK'
  BY <1>1, <1>2, <1>3, <1>4 DEF BoolOK, TypeInv, TypeOK
<1> QED
  BY <1>7, <1>8 DEF TypeInv

LEMMA BoolKept ==
  ASSUME TypeOK, owned' = owned, torn' = torn
  PROVE  BoolOK'
BY Zenon DEF TypeOK, BoolOK

(* The steps that plan. *)
LEMMA PlanningType ==
  ASSUME TypeInv, NEW p \in Proc, Planning(p), pc[p] # "idle",
         \/ pc[p] \notin InTransaction /\ UNCHANGED <<lock, done>>
         \/ pc[p] \in InTransaction /\ Release(p),
         disk' \in [File -> Content], disk'["binding"] \in Binding,
         moved' \in [Proc -> Move], seen' \in [Proc -> Content],
         faults' \in 0 .. MaxFaults, late' \in [Proc -> SUBSET Edit], BoolOK',
         UNCHANGED <<cmd, made>>
  PROVE  TypeInv'
<1>1. /\ pc' \in [Proc -> PC] /\ job' \in [Proc -> Job] /\ changes' \in [Proc -> Changes]
      /\ done' \in [Proc -> 0 .. 2] /\ lock' \in [Job -> Proc \cup {NoProc}]
      /\ LockInv' /\ \A q \in Proc : ProcInv(q)'
  BY PlanningInv
<1> QED
  BY <1>1 DEF TypeInv, TypeOK, BoolOK

LEMMA ReadType ==
  ASSUME TypeInv, NEW p \in Proc, ReadMcp(p) \/ ReadHook(p) \/ ReadBinding(p)
  PROVE  TypeInv'
<1> USE DEF At, Goto
<1>1. CASE ReadMcp(p)
  <2>1. Planning(p) /\ moved' \in [Proc -> Move]
    BY <1>1, ReadMcpPlans
  <2>2. /\ pc[p] = "mcp" /\ pc[p] \notin InTransaction
        /\ UNCHANGED <<disk, lock, cmd, done, seen, owned, made, faults, torn, late>>
    BY <1>1 DEF ReadMcp, InTransaction, history
  <2>3. BoolOK'
    BY <2>2, BoolKept DEF TypeInv
  <2> QED
    BY <2>1, <2>2, <2>3, PlanningType DEF TypeInv, TypeOK
<1>2. CASE ReadBinding(p)
  <2>1. Planning(p)
    BY <1>2, ReadBindingPlans
  <2>2. /\ pc[p] = "binding" /\ pc[p] \notin InTransaction
        /\ seen' = [seen EXCEPT ![p] = NoFile]
        /\ UNCHANGED <<disk, lock, cmd, done, moved, owned, made, faults, torn, late>>
    BY <1>2 DEF ReadBinding, InTransaction, history
  <2>3. BoolOK'
    BY <2>2, BoolKept DEF TypeInv
  <2>4. seen' \in [Proc -> Content]
    BY <2>2 DEF TypeInv, TypeOK, Content
  <2> QED
    BY <2>1, <2>2, <2>3, <2>4, PlanningType DEF TypeInv, TypeOK
<1>3. CASE ReadHook(p)
  <2>1. /\ pc[p] = "hook" /\ pc' = [pc EXCEPT ![p] = "binding"]
        /\ seen' = [seen EXCEPT ![p] = disk["hook"]]
        /\ UNCHANGED <<disk, lock, cmd, job, changes, done, moved, owned, made, faults, torn,
                       late>>
    BY <1>3 DEF ReadHook, history
  <2>2. pc' \in [Proc -> PC]
    BY <2>1 DEF TypeInv, TypeOK, PC
  <2>3. seen' \in [Proc -> Content]
    BY <2>1 DEF TypeInv, TypeOK, File
  <2>4. BoolOK'
    BY <2>1, BoolKept DEF TypeInv
  <2>5. TypeOK'
    BY <2>1, <2>2, <2>3, <2>4 DEF BoolOK, TypeInv, TypeOK
  <2>6. Frame(p) /\ ProcInv(p)'
    BY <2>1 DEF Frame, ProcInv, TypeInv, TypeOK, Planned, InTransaction
  <2>7. \A j \in Job : lock'[j] = p <=> pc'[p] \in InTransaction /\ job'[p] = j
    BY <2>1 DEF TypeInv, TypeOK, LockInv, InTransaction
  <2> QED
    BY <2>1, <2>5, <2>6, <2>7, FrameInv DEF TypeInv
<1> QED
  BY <1>1, <1>2, <1>3

(* The place of the change a process is about to make, or to take back. *)
LEMMA PlanParts ==
  ASSUME TypeInv, NEW p \in Proc, pc[p] \in Planned, NEW i \in 1 .. Len(changes[p])
  PROVE  /\ Len(changes[p]) \in {1, 2} /\ changes[p][i].file \in File
         /\ changes[p][i].before \in MayHold(changes[p][i].file)
         /\ changes[p][i].after \in MayHold(changes[p][i].file)
<1> DEFINE R == [file : File, before : Content, after : Content]
<1>1. changes[p] \in Seq(R)
  BY DEF TypeInv, TypeOK, Changes
<1> HIDE DEF R
<1>2. changes[p][i] \in R
  BY <1>1
<1>3. changes[p][i].file \in File
  BY <1>2 DEF R
<1>4. PlanOK(job[p], changes[p])
  BY DEF TypeInv, ProcInv
<1> QED
  BY <1>3, <1>4 DEF PlanOK

LEMMA CompareType ==
  ASSUME TypeInv, NEW p \in Proc, Compare(p)
  PROVE  TypeInv'
<1> USE DEF At, Goto
<1>1. /\ pc[p] = "compare" /\ pc' = [pc EXCEPT ![p] = "write"]
      /\ lock[job[p]] = NoProc /\ lock' = [lock EXCEPT ![job[p]] = p]
      /\ late' = [late EXCEPT ![p] = {}] /\ done' = [done EXCEPT ![p] = 0]
      /\ UNCHANGED <<disk, cmd, job, changes, moved, seen, owned, made, faults, torn>>
  BY DEF Compare
<1>2. pc' \in [Proc -> PC] /\ lock' \in [Job -> Proc \cup {NoProc}]
  BY <1>1 DEF TypeInv, TypeOK, PC, InTransaction
<1>3. late' \in [Proc -> SUBSET Edit] /\ done' \in [Proc -> 0 .. 2]
  BY <1>1 DEF TypeInv, TypeOK
<1>4. BoolOK'
  BY <1>1, BoolKept DEF TypeInv
<1>5. TypeOK'
  BY <1>1, <1>2, <1>3, <1>4 DEF BoolOK, TypeInv, TypeOK
<1>6. Frame(p)
  BY <1>1 DEF Frame, TypeInv, TypeOK
<1>7. PlanOK(job[p], changes[p]) /\ Len(changes[p]) \in {1, 2}
  BY <1>1 DEF TypeInv, ProcInv, Planned, PlanOK
<1>8. pc'[p] = "write" /\ done'[p] = 0 /\ changes'[p] = changes[p] /\ job'[p] = job[p]
  BY <1>1 DEF TypeInv, TypeOK
<1>9. ProcInv(p)'
  BY <1>1, <1>7, <1>8 DEF ProcInv, TypeInv
<1>10. \A j \in Job : lock'[j] = IF j = job[p] THEN p ELSE lock[j]
  BY <1>1 DEF TypeInv, TypeOK
<1>11. \A j \in Job : lock'[j] = p <=> pc'[p] \in InTransaction /\ job'[p] = j
  BY <1>1, <1>8, <1>10 DEF TypeInv, LockInv, InTransaction
<1>12. \A j \in Job : lock'[j] # lock[j] => lock'[j] \in {p, NoProc} /\ lock[j] \in {p, NoProc}
  BY <1>1, <1>10
<1> QED
  BY <1>5, <1>6, <1>9, <1>11, <1>12, FrameInv DEF TypeInv

LEMMA ConflictType ==
  ASSUME TypeInv, NEW p \in Proc, Conflict(p)
  PROVE  TypeInv'
<1>1. Planning(p)
  BY FailPlans DEF Conflict, Planning, TypeInv
<1>2. /\ pc[p] = "compare" /\ pc[p] \notin InTransaction
      /\ UNCHANGED <<disk, lock, cmd, done, moved, seen, owned, made, faults, torn, late>>
  BY DEF Conflict, At, InTransaction, history
<1>3. BoolOK'
  BY <1>2, BoolKept DEF TypeInv
<1> QED
  BY <1>1, <1>2, <1>3, PlanningType DEF TypeInv, TypeOK

(* A transaction stays the transaction it is. *)
LEMMA GoOnType ==
  ASSUME TypeInv, NEW p \in Proc, pc[p] \in InTransaction,
         NEW l \in InTransaction, Goto(p, l),
         NEW d \in 0 .. 2, done' = [done EXCEPT ![p] = d],
         l = "write" => d < Len(changes[p]), l = "verify" => d = Len(changes[p]),
         l = "undo" => d <= Len(changes[p]),
         disk' \in [File -> Content], disk'["binding"] \in Binding,
         faults' \in 0 .. MaxFaults, late' \in [Proc -> SUBSET Edit], BoolOK',
         UNCHANGED <<lock, cmd, job, changes, moved, seen, made>>
  PROVE  TypeInv'
<1> USE DEF Goto
<1>1. pc' \in [Proc -> PC] /\ done' \in [Proc -> 0 .. 2]
  BY DEF TypeInv, TypeOK, PC
<1>2. TypeOK'
  BY <1>1 DEF BoolOK, TypeInv, TypeOK
<1>3. Frame(p)
  BY DEF Frame, TypeInv, TypeOK
<1>4. pc'[p] = l /\ done'[p] = d
  BY DEF TypeInv, TypeOK
<1>5. cmd[p] \in Command /\ PlanOK(job[p], changes[p])
  BY DEF TypeInv, ProcInv, Planned, InTransaction
<1>6. ProcInv(p)'
  BY <1>4, <1>5 DEF ProcInv
<1>7. \A j \in Job : lock'[j] = p <=> pc'[p] \in InTransaction /\ job'[p] = j
  BY <1>4 DEF TypeInv, LockInv
<1> QED
  BY <1>2, <1>3, <1>6, <1>7, FrameInv DEF TypeInv

LEMMA WriteType ==
  ASSUME TypeInv, NEW p \in Proc, Write(p)
  PROVE  TypeInv'
<1> DEFINE i == done[p] + 1
<1>1. /\ pc[p] = "write" /\ Put(p, changes[p][i].file, changes[p][i].after)
      /\ done' = [done EXCEPT ![p] = i]
      /\ Goto(p, IF i = Len(changes[p]) THEN "verify" ELSE "write")
      /\ UNCHANGED <<lock, cmd, job, changes, moved, seen, owned, made, faults, torn>>
  BY DEF Write, At
<1>2. done[p] < Len(changes[p]) /\ done[p] \in 0 .. 2 /\ PlanOK(job[p], changes[p])
  BY <1>1 DEF TypeInv, TypeOK, ProcInv, Planned, InTransaction
<1>3. i \in 1 .. Len(changes[p]) /\ i \in 0 .. 2
  BY <1>2 DEF PlanOK
<1>4. changes[p][i].file \in File /\ changes[p][i].after \in MayHold(changes[p][i].file)
  BY <1>1, <1>3, PlanParts DEF Planned, InTransaction
<1>5. /\ disk' \in [File -> Content] /\ disk'["binding"] \in Binding
      /\ late' \in [Proc -> SUBSET Edit]
  BY <1>1, <1>4, PutType DEF TypeInv
<1>6. BoolOK'
  BY <1>1, BoolKept DEF TypeInv
<1>7. faults' \in 0 .. MaxFaults
  BY <1>1 DEF TypeInv, TypeOK
<1> DEFINE l == IF i = Len(changes[p]) THEN "verify" ELSE "write"
<1>8. /\ l \in InTransaction /\ Goto(p, l)
      /\ l = "write" => i < Len(changes[p])
      /\ l = "verify" => i = Len(changes[p])
      /\ l = "undo" => i <= Len(changes[p])
  BY <1>1, <1>2, <1>3 DEF InTransaction
<1>9. pc[p] \in InTransaction
  BY <1>1 DEF InTransaction
<1> HIDE DEF i, l
<1> QED
  BY <1>1, <1>3, <1>5, <1>6, <1>7, <1>8, <1>9, GoOnType

LEMMA UnwindType ==
  ASSUME TypeInv, NEW p \in Proc, pc[p] \in {"write", "verify"}, Unwind(p),
         disk' \in [File -> Content], disk'["binding"] \in Binding,
         faults' \in 0 .. MaxFaults, late' \in [Proc -> SUBSET Edit], BoolOK',
         UNCHANGED <<cmd, moved, seen, made>>
  PROVE  TypeInv'
<1>1. CASE Release(p) /\ Fail(p)
  <2>1. Planning(p)
    BY <1>1, FailPlans DEF TypeInv
  <2>2. pc[p] # "idle" /\ pc[p] \in InTransaction /\ Release(p)
    BY <1>1 DEF InTransaction
  <2>3. moved' \in [Proc -> Move] /\ seen' \in [Proc -> Content]
    BY DEF TypeInv, TypeOK
  <2> QED
    BY <2>1, <2>2, <2>3, PlanningType
<1>2. CASE Goto(p, "undo") /\ UNCHANGED <<lock, done, job, changes>>
  <2>1. done[p] \in 0 .. 2 /\ done' = [done EXCEPT ![p] = done[p]]
    BY <1>2 DEF TypeInv, TypeOK
  <2>2. PlanOK(job[p], changes[p])
    BY DEF TypeInv, ProcInv, Planned, InTransaction
  <2>4. Len(changes[p]) \in {1, 2}
    BY <2>2 DEF PlanOK
  <2>5. done[p] <= Len(changes[p])
    BY <2>1, <2>4 DEF TypeInv, ProcInv
  <2>3. "undo" \in InTransaction /\ pc[p] \in InTransaction
    BY DEF InTransaction
  <2>6. UNCHANGED <<lock, cmd, job, changes, moved, seen, made>>
    BY <1>2
  <2> DEFINE d == done[p]
  <2>7. d \in 0 .. 2 /\ done' = [done EXCEPT ![p] = d] /\ d <= Len(changes[p]) /\ Goto(p, "undo")
    BY <1>2, <2>1, <2>5
  <2> HIDE DEF d
  <2> QED
    BY <2>3, <2>6, <2>7, GoOnType
<1> QED
  BY <1>1, <1>2 DEF Unwind

LEMMA FailedType ==
  ASSUME TypeInv, NEW p \in Proc, WriteFails(p) \/ SyncFails(p) \/ VerifyFails(p)
  PROVE  TypeInv'
<1> USE DEF At
<1>1. /\ pc[p] \in {"write", "verify"} /\ Unwind(p) /\ UNCHANGED <<cmd, moved, seen, made>>
      /\ faults' = faults \/ (faults < MaxFaults /\ faults' = faults + 1)
  BY DEF WriteFails, SyncFails, VerifyFails
<1>2. faults' \in 0 .. MaxFaults
  BY <1>1, ConnectionAssumption DEF TypeInv, TypeOK
<1>3. /\ disk' \in [File -> Content] /\ disk'["binding"] \in Binding
      /\ late' \in [Proc -> SUBSET Edit] /\ BoolOK'
  <2>1. CASE WriteFails(p) \/ VerifyFails(p)
    <3>1. UNCHANGED <<disk, owned, torn, late>>
      BY <2>1 DEF WriteFails, VerifyFails, history
    <3> QED
      BY <3>1, BoolKept DEF TypeInv, TypeOK
  <2>2. CASE SyncFails(p)
    <3> DEFINE i == done[p] + 1
    <3>1. /\ pc[p] = "write" /\ Put(p, changes[p][i].file, changes[p][i].after)
          /\ torn' = TRUE /\ owned' = owned
      BY <2>2 DEF SyncFails
    <3>2. i \in 1 .. Len(changes[p])
      <4>1. done[p] < Len(changes[p]) /\ done[p] \in 0 .. 2 /\ PlanOK(job[p], changes[p])
        BY <3>1 DEF TypeInv, TypeOK, ProcInv, Planned, InTransaction
      <4> QED
        BY <4>1 DEF PlanOK
    <3>3. changes[p][i].file \in File /\ changes[p][i].after \in MayHold(changes[p][i].file)
      BY <3>1, <3>2, PlanParts DEF Planned, InTransaction
    <3>4. BoolOK'
      BY <3>1, Zenon DEF TypeInv, TypeOK, BoolOK
    <3> QED
      BY <3>1, <3>3, <3>4, PutType DEF TypeInv
  <2> QED
    BY <2>1, <2>2
<1> QED
  BY <1>1, <1>2, <1>3, UnwindType

LEMMA VerifyType ==
  ASSUME TypeInv, NEW p \in Proc, Verify(p)
  PROVE  TypeInv'
<1> DEFINE before == moved[p].before
           after == moved[p].after
<1>1. before \in Content /\ after \in Content /\ NoFile \in Content
  BY DEF TypeInv, TypeOK, Move, Content
<1>2. \/ /\ moved' = [moved EXCEPT ![p] = [before |-> before, after |-> after, mutated |-> TRUE]]
         /\ AfterMcp(p, after)
      \/ /\ moved' = [moved EXCEPT ![p] = [before |-> before, after |-> NoFile, mutated |-> TRUE]]
         /\ Goto(p, "hook") /\ UNCHANGED <<job, changes>>
      \/ /\ \E l \in {"success", "failure"} : Goto(p, l)
         /\ UNCHANGED <<job, changes, moved>>
  BY Zenon DEF Verify
<1>3. /\ pc[p] = "verify" /\ Release(p)
      /\ UNCHANGED <<disk, cmd, seen, owned, made, faults, torn, late>>
  BY DEF Verify, At, history
<1>4. /\ [before |-> before, after |-> after, mutated |-> TRUE] \in Move
      /\ [before |-> before, after |-> NoFile, mutated |-> TRUE] \in Move
  BY <1>1 DEF Move
<1> HIDE DEF before, after
<1>5. moved' \in [Proc -> Move]
  BY <1>2, <1>4 DEF TypeInv, TypeOK
<1>6. Planning(p)
  BY <1>1, <1>2, AfterMcpPlans DEF Planning
<1>7. BoolOK'
  BY <1>3, BoolKept DEF TypeInv
<1>8. pc[p] # "idle" /\ pc[p] \in InTransaction
  BY <1>3 DEF InTransaction
<1> QED
  BY <1>3, <1>5, <1>6, <1>7, <1>8, PlanningType DEF TypeInv, TypeOK

LEMMA UndoType ==
  ASSUME TypeInv, NEW p \in Proc, Undo(p) \/ Undone(p) \/ UndoFails(p)
  PROVE  TypeInv'
<1> USE DEF At
<1>0. pc[p] = "undo" /\ pc[p] \in InTransaction
  BY DEF Undo, Undone, UndoFails, InTransaction
<1>1. CASE Undo(p)
  <2> DEFINE i == done[p]
             d == done[p] - 1
  <2>1. /\ Put(p, changes[p][i].file, changes[p][i].before) /\ done[p] > 0
        /\ done' = [done EXCEPT ![p] = d]
        /\ UNCHANGED <<lock, pc, cmd, job, changes, moved, seen, owned, made, faults, torn>>
    BY <1>1 DEF Undo
  <2>2. done[p] <= Len(changes[p]) /\ done[p] \in 0 .. 2 /\ PlanOK(job[p], changes[p])
    BY <1>0 DEF TypeInv, TypeOK, ProcInv, Planned
  <2>3. i \in 1 .. Len(changes[p]) /\ d \in 0 .. 2 /\ d <= Len(changes[p])
    BY <2>1, <2>2 DEF PlanOK
  <2>4. changes[p][i].file \in File /\ changes[p][i].before \in MayHold(changes[p][i].file)
    BY <1>0, <2>3, PlanParts DEF Planned
  <2>5. /\ disk' \in [File -> Content] /\ disk'["binding"] \in Binding
        /\ late' \in [Proc -> SUBSET Edit]
    BY <2>1, <2>4, PutType DEF TypeInv
  <2>6. BoolOK'
    BY <2>1, BoolKept DEF TypeInv
  <2>7. faults' \in 0 .. MaxFaults /\ Goto(p, "undo") /\ "undo" \in InTransaction
    BY <1>0, <2>1 DEF TypeInv, TypeOK, Goto, InTransaction
  <2> HIDE DEF i, d
  <2> QED
    BY <1>0, <2>1, <2>3, <2>5, <2>6, <2>7, GoOnType
<1>2. CASE Undone(p)
  <2>1. Planning(p) /\ Release(p)
    BY <1>2, FailPlans DEF Undone, Abandon, Planning, TypeInv
  <2>2. UNCHANGED <<disk, cmd, moved, seen, owned, made, faults, torn, late>>
    BY <1>2 DEF Undone, history
  <2>3. BoolOK'
    BY <2>2, BoolKept DEF TypeInv
  <2> QED
    BY <1>0, <2>1, <2>2, <2>3, PlanningType DEF TypeInv, TypeOK
<1>3. CASE UndoFails(p)
  <2>1. Planning(p) /\ Release(p)
    BY <1>3, FailPlans DEF UndoFails, Abandon, Planning, TypeInv
  <2>2. /\ UNCHANGED <<disk, cmd, moved, seen, owned, made, late>>
        /\ torn' = TRUE /\ faults < MaxFaults /\ faults' = faults + 1
    BY <1>3 DEF UndoFails
  <2>3. BoolOK'
    BY <2>2, Zenon DEF TypeInv, TypeOK, BoolOK
  <2>4. faults' \in 0 .. MaxFaults
    BY <2>2, ConnectionAssumption DEF TypeInv, TypeOK
  <2> QED
    BY <1>0, <2>1, <2>2, <2>3, <2>4, PlanningType DEF TypeInv, TypeOK
<1> QED
  BY <1>1, <1>2, <1>3

LEMMA LeaveType ==
  ASSUME TypeInv, NEW p \in Proc, Exit(p) \/ Die(p)
  PROVE  TypeInv'
<1>1. /\ pc' = [pc EXCEPT ![p] = "idle"]
      /\ cmd' = [cmd EXCEPT ![p] = NoCommand]
      /\ job' = [job EXCEPT ![p] = "connect"]
      /\ changes' = [changes EXCEPT ![p] = <<>>]
      /\ done' = [done EXCEPT ![p] = 0]
      /\ moved' = [moved EXCEPT ![p] = NoMove]
      /\ seen' = [seen EXCEPT ![p] = NoFile]
      /\ owned' = [owned EXCEPT ![p] = FALSE]
      /\ late' = [late EXCEPT ![p] = {}]
      /\ UNCHANGED <<disk, made, faults>>
  BY DEF Exit, Die, Forget, Goto
<1>2. NoFile \in Content /\ NoMove \in Move /\ <<>> \in Changes /\ "connect" \in Job
  BY DEF Content, Move, NoMove, Changes, Job
<1>3. pc' \in [Proc -> PC] /\ job' \in [Proc -> Job] /\ cmd' \in [Proc -> Command \cup {NoCommand}]
  BY <1>1, <1>2 DEF TypeInv, TypeOK, PC
<1>4. /\ changes' \in [Proc -> Changes] /\ done' \in [Proc -> 0 .. 2]
      /\ moved' \in [Proc -> Move] /\ seen' \in [Proc -> Content]
      /\ late' \in [Proc -> SUBSET Edit]
  BY <1>1, <1>2 DEF TypeInv, TypeOK
<1>5. \A j \in Job : lock'[j] = (IF lock[j] = p THEN NoProc ELSE lock[j])
  <2>1. CASE Exit(p)
    <3>1. lock' = lock /\ pc[p] \notin InTransaction
      BY <2>1 DEF Exit, Outcome, InTransaction
    <3> QED
      BY <3>1 DEF TypeInv, LockInv
  <2>2. CASE Die(p)
    BY <2>2 DEF Die
  <2> QED
    BY <2>1, <2>2
<1>6. lock' \in [Job -> Proc \cup {NoProc}]
  BY <1>5 DEF Exit, Die, TypeInv, TypeOK
<1>7. BoolOK'
  <2>1. torn' \in BOOLEAN
    BY Zenon DEF Exit, Die, TypeInv, TypeOK
  <2>2. owned' \in [Proc -> BOOLEAN]
    BY <1>1, Zenon DEF TypeInv, TypeOK
  <2> QED
    BY <2>1, <2>2 DEF BoolOK
<1>8. TypeOK'
  BY <1>1, <1>3, <1>4, <1>6, <1>7 DEF BoolOK, TypeInv, TypeOK
<1>9. Frame(p) /\ pc'[p] = "idle"
  BY <1>1 DEF Frame, TypeInv, TypeOK
<1>10. ProcInv(p)' /\ pc'[p] \notin InTransaction
  BY <1>9 DEF ProcInv, Planned, InTransaction
<1>11. \A j \in Job : lock'[j] = p <=> pc'[p] \in InTransaction /\ job'[p] = j
  BY <1>5, <1>10, ConnectionAssumption
<1> QED
  BY <1>5, <1>8, <1>9, <1>10, <1>11, FrameInv DEF TypeInv

LEMMA EditType ==
  ASSUME TypeInv, NEW f \in HostFile, NEW e \in Edit, EditFile(f, e)
  PROVE  TypeInv'
<1> DEFINE c == HostContent(Owned(disk[f]), Others(disk[f]) \cup {e})
<1>1. /\ Put(NoProc, f, c) /\ made' = made \cup {e}
      /\ UNCHANGED <<lock, pc, cmd, job, changes, done, moved, seen, owned, faults, torn>>
  BY DEF EditFile
<1>2. f \in File /\ f # "binding"
  BY DEF HostFile, File
<1>3. disk[f] \in Content
  BY <1>2 DEF TypeInv, TypeOK
<1>4. Owned(disk[f]) \in Version \cup {NoVersion} /\ Others(disk[f]) \cup {e} \in SUBSET Edit
  BY <1>3, ContentParts
<1>5. c \in MayHold(f)
  BY <1>2, <1>4, HostContentIs DEF MayHold
<1> HIDE DEF c
<1>6. /\ disk' \in [File -> Content] /\ disk'["binding"] \in Binding
      /\ late' \in [Proc -> SUBSET Edit]
  BY <1>1, <1>2, <1>5, PutType DEF TypeInv
<1>7. BoolOK'
  BY <1>1, BoolKept DEF TypeInv
<1>8. TypeOK'
  BY <1>1, <1>6, <1>7 DEF BoolOK, TypeInv, TypeOK
<1>9. LockInv' /\ \A q \in Proc : ProcInv(q)'
  BY <1>1 DEF TypeInv, LockInv, ProcInv
<1> QED
  BY <1>8, <1>9 DEF TypeInv

LEMMA StepTypeInv == TypeInv /\ [Next]_vars => TypeInv'
<1> SUFFICES ASSUME TypeInv, [Next]_vars PROVE TypeInv'
  OBVIOUS
<1>1. ASSUME NEW p \in Proc, CommandStep(p) \/ Die(p) PROVE TypeInv'
  BY <1>1, BeginType, ReadType, CompareType, ConflictType, WriteType, FailedType, VerifyType,
     UndoType, LeaveType DEF CommandStep
<1>2. ASSUME NEW f \in HostFile, NEW e \in Edit, EditFile(f, e) PROVE TypeInv'
  BY <1>2, EditType
<1>3. CASE UNCHANGED vars
  <2>1. BoolOK'
    BY <1>3, BoolKept DEF vars, history, TypeInv
  <2>2. TypeOK'
    BY <1>3, <2>1 DEF vars, history, BoolOK, TypeInv, TypeOK
  <2> QED
    BY <1>3, <2>2 DEF vars, TypeInv, LockInv, ProcInv
<1> QED
  BY <1>1, <1>2, <1>3 DEF Next

(* The files and what the commands have in memory keep their types. *)
THEOREM ConnectionTypeCorrect == Spec => []TypeOK
<1>1. TypeInv => TypeOK
  BY DEF TypeInv
<1> QED
  BY <1>1, InitTypeInv, StepTypeInv, PTL DEF Spec
-----------------------------------------------------------------------------
(* Hooks and record *)

(* Whose the hook file or the binding is while p holds their lock: the old  *)
(* owner's until it is written.                                             *)
Side(p, f) == IF \E i \in 1 .. done[p] : changes[p][i].file = f
              THEN Owned(changes[p][1].after) ELSE Owned(changes[p][1].before)

HoldInv ==
  \A p \in Proc : (lock["lifecycle"] = p /\ ~ torn) => \A f \in Pair : Owned(disk[f]) = Side(p, f)

AgreeInv == HoldInv /\ HooksMatchRecord

LEMMA Holder ==
  ASSUME TypeInv, NEW p \in Proc
  PROVE  /\ lock["lifecycle"] = p <=> pc[p] \in InTransaction /\ job[p] = "lifecycle"
         /\ lock["lifecycle"] = p => /\ PlanOK("lifecycle", changes[p]) /\ done[p] \in 0 .. 2
                                     /\ done[p] <= Len(changes[p])
<1>1. "lifecycle" \in Job
  BY DEF Job
<1>2. lock["lifecycle"] = p <=> pc[p] \in InTransaction /\ job[p] = "lifecycle"
  BY <1>1 DEF TypeInv, LockInv
<1>3. pc[p] \in InTransaction => PlanOK(job[p], changes[p]) /\ done[p] \in 0 .. 2
  BY DEF TypeInv, TypeOK, ProcInv, Planned
<1>4. pc[p] \in InTransaction => done[p] <= Len(changes[p])
  BY <1>3 DEF TypeInv, ProcInv, InTransaction, PlanOK
<1> QED
  BY <1>2, <1>3, <1>4

(* A holder that has written none or all of its files leaves them agreeing. *)
LEMMA EndsAgree ==
  ASSUME TypeInv, HoldInv, NEW p \in Proc, lock["lifecycle"] = p, ~ torn,
         done[p] = 0 \/ done[p] = Len(changes[p])
  PROVE  Accepted(disk["hook"], disk["binding"])
<1>1. PlanOK("lifecycle", changes[p])
  BY Holder
<1>2. Owned(disk["hook"]) = Side(p, "hook") /\ Owned(disk["binding"]) = Side(p, "binding")
  BY DEF HoldInv, Pair
<1>3. CASE done[p] = 0
  BY <1>2, <1>3 DEF Side, Accepted
<1>4. CASE Len(changes[p]) = 1 /\ done[p] = 1
  BY <1>1, <1>2, <1>4 DEF Side, Accepted, PlanOK
<1>5. CASE Len(changes[p]) = 2 /\ done[p] = 2
  BY <1>1, <1>2, <1>5 DEF Side, Accepted, PlanOK
<1> QED
  BY <1>1, <1>3, <1>4, <1>5 DEF PlanOK

(* A step that changes neither owners nor the holder. *)
LEMMA KeepAgree ==
  ASSUME TypeInv, AgreeInv,
         \A f \in Pair : Owned(disk'[f]) = Owned(disk[f]),
         lock'["lifecycle"] = lock["lifecycle"], ~ torn' => ~ torn,
         \A q \in Proc : lock["lifecycle"] = q => changes'[q] = changes[q] /\ done'[q] = done[q]
  PROVE  AgreeInv'
<1>1. \A q \in Proc, f \in Pair : lock["lifecycle"] = q => Side(q, f)' = Side(q, f)
  BY DEF Side
<1>2. HoldInv'
  BY <1>1 DEF AgreeInv, HoldInv
<1>3. HooksMatchRecord'
  BY DEF AgreeInv, HooksMatchRecord, Accepted, Pair
<1> QED
  BY <1>2, <1>3 DEF AgreeInv

(* The holder lets go of the files. *)
LEMMA FreeAgree ==
  ASSUME TypeInv, AgreeInv, NEW p \in Proc, lock["lifecycle"] = p,
         lock'["lifecycle"] = NoProc, disk' = disk,
         ~ torn' => ~ torn /\ (done[p] = 0 \/ done[p] = Len(changes[p]))
  PROVE  AgreeInv'
<1>1. HoldInv'
  BY ConnectionAssumption DEF HoldInv
<1>2. HooksMatchRecord'
  BY EndsAgree DEF AgreeInv, HooksMatchRecord
<1> QED
  BY <1>1, <1>2 DEF AgreeInv

LEMMA OutsideAgree ==
  ASSUME TypeInv, AgreeInv, NEW p \in Proc,
         Begin(p) \/ ReadMcp(p) \/ ReadHook(p) \/ ReadBinding(p) \/ Conflict(p) \/ Exit(p)
  PROVE  AgreeInv'
<1>1. /\ pc[p] \notin InTransaction /\ disk' = disk /\ lock' = lock /\ torn' = torn
  BY DEF Begin, ReadMcp, ReadHook, ReadBinding, Conflict, Exit, At, InTransaction, Outcome, history
<1>2. lock["lifecycle"] # p
  BY <1>1, Holder
<1>3. \A q \in Proc \ {p} : changes'[q] = changes[q] /\ done'[q] = done[q]
  <2>1. CASE Begin(p) \/ ReadHook(p)
    BY <2>1 DEF Begin, ReadHook
  <2>2. CASE Exit(p)
    BY <2>2 DEF Exit, Forget, TypeInv, TypeOK
  <2>3. CASE ReadMcp(p) \/ ReadBinding(p) \/ Conflict(p)
    <3>1. Planning(p)
      BY <2>3, ReadMcpPlans, ReadBindingPlans, FailPlans DEF Conflict, Planning, TypeInv
    <3>2. done' = done
      BY <2>3 DEF ReadMcp, ReadBinding, Conflict
    <3> QED
      BY <3>1, <3>2 DEF Planning, Plan, TypeInv, TypeOK
  <2> QED
    BY <2>1, <2>2, <2>3
<1> QED
  BY <1>1, <1>2, <1>3, KeepAgree

LEMMA CompareAgree ==
  ASSUME TypeInv, AgreeInv, NEW p \in Proc, Compare(p)
  PROVE  AgreeInv'
<1>1. /\ pc[p] = "compare" /\ AsRead(p)
      /\ lock[job[p]] = NoProc /\ lock' = [lock EXCEPT ![job[p]] = p]
      /\ done' = [done EXCEPT ![p] = 0]
      /\ UNCHANGED <<disk, job, changes, torn>>
  BY DEF Compare, At
<1>2. \A q \in Proc \ {p} : changes'[q] = changes[q] /\ done'[q] = done[q]
  BY <1>1 DEF TypeInv, TypeOK
<1>3. lock["lifecycle"] # p
  BY <1>1, Holder DEF InTransaction
<1>4. CASE job[p] # "lifecycle"
  <2>1. lock'["lifecycle"] = lock["lifecycle"]
    BY <1>1, <1>4 DEF TypeInv, TypeOK
  <2> QED
    BY <1>1, <1>2, <1>3, <2>1, KeepAgree
<1>5. CASE job[p] = "lifecycle"
  <2>1. lock'["lifecycle"] = p /\ done'[p] = 0 /\ changes'[p] = changes[p]
    BY <1>1, <1>5 DEF TypeInv, TypeOK, Job
  <2>2. PlanOK("lifecycle", changes[p])
    BY <1>1, <1>5 DEF TypeInv, ProcInv, Planned
  <2>3. changes[p] \in Changes
    BY DEF TypeInv, TypeOK
  <2>4. DOMAIN changes[p] = 1 .. Len(changes[p])
    BY <2>3 DEF Changes
  <2>5. changes[p][1].file \in Pair /\ disk[changes[p][1].file] = changes[p][1].before
    BY <1>1, <1>5, <2>2, <2>4 DEF AsRead, Same, PlanOK, Pair
  <2>6. ~ torn => Owned(disk["hook"]) = Owned(disk["binding"])
    BY <1>1, <1>5 DEF AgreeInv, HooksMatchRecord, Accepted
  <2>7. ~ torn => \A f \in Pair : Owned(disk[f]) = Owned(changes[p][1].before)
    BY <2>5, <2>6 DEF Pair
  <2>8. \A f \in Pair : Side(p, f)' = Owned(changes[p][1].before)
    BY <2>1 DEF Side
  <2>9. HoldInv'
    BY <1>1, <2>1, <2>7, <2>8 DEF HoldInv
  <2>10. HooksMatchRecord'
    BY <2>1, ConnectionAssumption DEF HooksMatchRecord
  <2> QED
    BY <2>9, <2>10 DEF AgreeInv
<1> QED
  BY <1>4, <1>5

(* A change of the MCP file is none of the hooks'. *)
LEMMA McpAgree ==
  ASSUME TypeInv, AgreeInv, NEW p \in Proc, pc[p] \in InTransaction, job[p] # "lifecycle",
         NEW c, Put(p, "mcp", c), UNCHANGED <<lock, changes, torn>>,
         \A q \in Proc \ {p} : done'[q] = done[q]
  PROVE  AgreeInv'
<1>1. \A f \in Pair : disk'[f] = disk[f]
  BY DEF Put, Pair, File, TypeInv, TypeOK
<1>2. lock["lifecycle"] # p
  BY Holder
<1> QED
  BY <1>1, <1>2, KeepAgree

(* The holder writes or takes back one of its files. *)
LEMMA MoveAgree ==
  ASSUME TypeInv, AgreeInv, NEW p \in Proc, lock["lifecycle"] = p,
         NEW i \in 1 .. Len(changes[p]), NEW c, Put(p, changes[p][i].file, c),
         UNCHANGED <<lock, changes, torn>>,
         \/ done[p] = i - 1 /\ done'[p] = i /\ c = changes[p][i].after
         \/ done[p] = i /\ done'[p] = i - 1 /\ c = changes[p][i].before
  PROVE  AgreeInv'
<1> DEFINE cs == changes[p]
<1>1. PlanOK("lifecycle", cs)
  BY Holder
<1>2. cs[i].file \in Pair /\ cs[i].file \in File
  BY <1>1 DEF PlanOK, Pair, File
<1>3. \A f \in File : disk'[f] = IF f = cs[i].file THEN c ELSE disk[f]
  BY <1>2 DEF Put, TypeInv, TypeOK
<1>4. Owned(cs[i].before) = Owned(cs[1].before) /\ Owned(cs[i].after) = Owned(cs[1].after)
  BY <1>1 DEF PlanOK
<1>5. \A j \in 1 .. Len(cs) : j # i => cs[j].file # cs[i].file
  BY <1>1 DEF PlanOK
<1>6. i \in {1, 2} /\ Len(cs) \in {1, 2}
  BY <1>1 DEF PlanOK
<1>7. (\E j \in 1 .. done'[p] : changes'[p][j].file = cs[i].file) <=> done'[p] = i
  BY <1>5, <1>6
<1>8. \A f \in Pair : f # cs[i].file =>
        ((\E j \in 1 .. done'[p] : changes'[p][j].file = f) <=> \E j \in 1 .. done[p] : cs[j].file = f)
  BY <1>6
<1>9. Side(p, cs[i].file)' = Owned(c)
  <2>1. \A f : f = cs[i].file => Side(p, f)' = Owned(c)
    BY <1>4, <1>6, <1>7 DEF Side
  <2> QED
    BY <2>1
<1>10. \A f \in Pair : f # cs[i].file => Side(p, f)' = Side(p, f)
  BY <1>8 DEF Side
<1>11. ~ torn => \A f \in Pair : Owned(disk[f]) = Side(p, f)
  BY DEF AgreeInv, HoldInv
<1>12. ~ torn => \A f \in Pair : Owned(disk'[f]) = Side(p, f)'
  <2> SUFFICES ASSUME ~ torn, NEW f \in Pair PROVE Owned(disk'[f]) = Side(p, f)'
    OBVIOUS
  <2>1. f \in File
    BY DEF Pair, File
  <2>2. CASE f = cs[i].file
    BY <1>3, <1>4, <1>6, <1>7, <2>1, <2>2 DEF Side
  <2>3. CASE f # cs[i].file
    BY <1>3, <1>10, <1>11, <2>1, <2>3
  <2> QED
    BY <2>2, <2>3
<1>13. HoldInv'
  BY <1>12 DEF HoldInv
<1>14. HooksMatchRecord'
  BY ConnectionAssumption DEF HooksMatchRecord
<1> QED
  BY <1>13, <1>14 DEF AgreeInv

LEMMA WriteAgree ==
  ASSUME TypeInv, AgreeInv, NEW p \in Proc, Write(p)
  PROVE  AgreeInv'
<1> DEFINE i == done[p] + 1
<1>1. /\ pc[p] = "write" /\ pc[p] \in InTransaction
      /\ Put(p, changes[p][i].file, changes[p][i].after)
      /\ done' = [done EXCEPT ![p] = i]
      /\ UNCHANGED <<lock, changes, torn>>
  BY DEF Write, At, InTransaction
<1>2. done[p] < Len(changes[p]) /\ done[p] \in 0 .. 2 /\ PlanOK(job[p], changes[p])
  BY <1>1 DEF TypeInv, TypeOK, ProcInv, Planned
<1>3. i \in 1 .. Len(changes[p]) /\ done[p] = i - 1 /\ done'[p] = i
  BY <1>1, <1>2 DEF PlanOK, TypeInv, TypeOK
<1>4. \A q \in Proc \ {p} : done'[q] = done[q]
  BY <1>1 DEF TypeInv, TypeOK
<1> HIDE DEF i
<1>5. CASE job[p] = "lifecycle"
  BY <1>1, <1>3, <1>5, Holder, MoveAgree
<1>6. CASE job[p] # "lifecycle"
  <2>1. changes[p][i].file = "mcp"
    BY <1>2, <1>3, <1>6 DEF PlanOK
  <2> QED
    BY <1>1, <1>4, <1>6, <2>1, McpAgree
<1> QED
  BY <1>5, <1>6

LEMMA UndoAgree ==
  ASSUME TypeInv, AgreeInv, NEW p \in Proc, Undo(p)
  PROVE  AgreeInv'
<1> DEFINE i == done[p]
<1>1. /\ pc[p] = "undo" /\ pc[p] \in InTransaction /\ done[p] > 0
      /\ Put(p, changes[p][i].file, changes[p][i].before)
      /\ done' = [done EXCEPT ![p] = i - 1]
      /\ UNCHANGED <<lock, changes, torn>>
  BY DEF Undo, At, InTransaction
<1>2. done[p] <= Len(changes[p]) /\ done[p] \in 0 .. 2 /\ PlanOK(job[p], changes[p])
  BY <1>1 DEF TypeInv, TypeOK, ProcInv, Planned
<1>3. i \in 1 .. Len(changes[p]) /\ done[p] = i /\ done'[p] = i - 1
  BY <1>1, <1>2 DEF PlanOK, TypeInv, TypeOK
<1>4. \A q \in Proc \ {p} : done'[q] = done[q]
  BY <1>1 DEF TypeInv, TypeOK
<1> HIDE DEF i
<1>5. CASE job[p] = "lifecycle"
  BY <1>1, <1>3, <1>5, Holder, MoveAgree
<1>6. CASE job[p] # "lifecycle"
  <2>1. changes[p][i].file = "mcp"
    BY <1>2, <1>3, <1>6 DEF PlanOK
  <2> QED
    BY <1>1, <1>4, <1>6, <2>1, McpAgree
<1> QED
  BY <1>5, <1>6

(* A transaction is over, with everything written or everything put back,   *)
(* or goes on to be put back.                                               *)
LEMMA EndAgree ==
  ASSUME TypeInv, AgreeInv, NEW p \in Proc, pc[p] \in InTransaction,
         disk' = disk, torn' = torn,
         \/ /\ Release(p) /\ Planning(p)
            /\ job[p] = "connect" \/ done[p] = 0 \/ done[p] = Len(changes[p])
         \/ UNCHANGED <<lock, done, job, changes>>
  PROVE  AgreeInv'
<1>1. CASE Release(p) /\ Planning(p) /\ job[p] = "lifecycle"
  <2>1. lock["lifecycle"] = p /\ lock'["lifecycle"] = NoProc
    BY <1>1, Holder DEF Release, TypeInv, TypeOK, Job
  <2>2. done[p] = 0 \/ done[p] = Len(changes[p]) \/ lock' = lock
    BY <1>1
  <2> QED
    BY <2>1, <2>2, FreeAgree, ConnectionAssumption
<1>2. CASE Release(p) /\ Planning(p) /\ job[p] # "lifecycle"
  <2>1. lock["lifecycle"] # p /\ lock'["lifecycle"] = lock["lifecycle"]
    BY <1>2, Holder DEF Release, TypeInv, TypeOK
  <2>2. \A q \in Proc \ {p} : changes'[q] = changes[q] /\ done'[q] = done[q]
    BY <1>2 DEF Release, Planning, Plan, TypeInv, TypeOK
  <2> QED
    BY <2>1, <2>2, KeepAgree
<1>3. CASE UNCHANGED <<lock, done, job, changes>>
  BY <1>3, KeepAgree
<1> QED
  BY <1>1, <1>2, <1>3

LEMMA SettleAgree ==
  ASSUME TypeInv, AgreeInv, NEW p \in Proc,
         WriteFails(p) \/ VerifyFails(p) \/ Verify(p) \/ Undone(p)
  PROVE  AgreeInv'
<1>1. /\ pc[p] \in InTransaction /\ disk' = disk /\ torn' = torn
  BY DEF WriteFails, VerifyFails, Verify, Undone, At, InTransaction, history
<1>2. CASE WriteFails(p) \/ VerifyFails(p)
  <2>1. Unwind(p)
    BY <1>2 DEF WriteFails, VerifyFails
  <2>2. \/ job[p] = "connect" /\ Release(p) /\ Planning(p)
        \/ UNCHANGED <<lock, done, job, changes>>
    BY <2>1, FailPlans DEF Unwind, TypeInv
  <2> QED
    BY <1>1, <2>2, EndAgree
<1>3. CASE Undone(p)
  <2>1. Planning(p) /\ Release(p) /\ done[p] = 0
    BY <1>3, FailPlans DEF Undone, Abandon, Planning, TypeInv
  <2> QED
    BY <1>1, <2>1, EndAgree
<1>4. CASE Verify(p)
  <2>1. moved[p].after \in Content
    BY DEF TypeInv, TypeOK, Move
  <2>2. AfterMcp(p, moved[p].after) \/ (\E l \in {"hook", "success", "failure"} : Goto(p, l)
                                                               /\ UNCHANGED <<job, changes>>)
    BY <1>4, Zenon DEF Verify
  <2>3. Planning(p)
    BY <2>1, <2>2, AfterMcpPlans DEF Planning
  <2>4. Release(p) /\ pc[p] = "verify"
    BY <1>4 DEF Verify, At
  <2>5. done[p] = Len(changes[p])
    BY <2>4 DEF TypeInv, ProcInv
  <2> QED
    BY <1>1, <2>3, <2>4, <2>5, EndAgree
<1> QED
  BY <1>2, <1>3, <1>4

LEMMA DieAgree ==
  ASSUME TypeInv, AgreeInv, NEW p \in Proc, Die(p)
  PROVE  AgreeInv'
<1> DEFINE Gone(j) == IF lock[j] = p THEN NoProc ELSE lock[j]
<1>1. /\ disk' = disk /\ torn' = (torn \/ Halfway(p)) /\ Forget(p)
      /\ lock' = [j \in Job |-> Gone(j)]
  BY Zenon DEF Die
<1>2. lock'["lifecycle"] = Gone("lifecycle")
  BY <1>1 DEF Job
<1>3. ~ torn' => ~ torn /\ ~ Halfway(p)
  BY <1>1
<1>4. CASE lock["lifecycle"] = p
  <2>1. pc[p] \in InTransaction /\ PlanOK("lifecycle", changes[p]) /\ done[p] \in 0 .. 2
        /\ done[p] <= Len(changes[p])
    BY <1>4, Holder
  <2>2. ~ Halfway(p) => done[p] = 0 \/ done[p] = Len(changes[p])
    BY <2>1 DEF Halfway, At, InTransaction, TypeInv, ProcInv, PlanOK
  <2> QED
    BY <1>1, <1>2, <1>3, <1>4, <2>2, FreeAgree
<1>5. CASE lock["lifecycle"] # p
  <2>1. \A q \in Proc \ {p} : changes'[q] = changes[q] /\ done'[q] = done[q]
    BY <1>1 DEF Forget, TypeInv, TypeOK
  <2> QED
    BY <1>1, <1>2, <1>3, <1>5, <2>1, KeepAgree
<1> QED
  BY <1>4, <1>5

LEMMA EditAgree ==
  ASSUME TypeInv, AgreeInv, NEW f \in HostFile, NEW e \in Edit, EditFile(f, e)
  PROVE  AgreeInv'
<1> DEFINE c == HostContent(Owned(disk[f]), Others(disk[f]) \cup {e})
<1>1. /\ disk' = [disk EXCEPT ![f] = c] /\ UNCHANGED <<lock, changes, done, torn>>
  BY DEF EditFile, Put
<1>2. f \in File /\ disk[f] \in Content
  BY DEF HostFile, File, TypeInv, TypeOK
<1>3. Owned(c) = Owned(disk[f])
  BY <1>2, ContentParts, HostContentIs
<1> HIDE DEF c
<1>4. \A g \in Pair : Owned(disk'[g]) = Owned(disk[g])
  BY <1>1, <1>2, <1>3 DEF Pair, File, TypeInv, TypeOK
<1> QED
  BY <1>1, <1>4, KeepAgree

LEMMA StepAgree ==
  ASSUME TypeInv, AgreeInv, [Next]_vars
  PROVE  AgreeInv'
<1>1. ASSUME NEW p \in Proc, SyncFails(p) \/ UndoFails(p) PROVE AgreeInv'
  BY <1>1 DEF SyncFails, UndoFails, AgreeInv, HoldInv, HooksMatchRecord
<1>2. ASSUME NEW p \in Proc, CommandStep(p) \/ Die(p) PROVE AgreeInv'
  BY <1>1, <1>2, OutsideAgree, CompareAgree, WriteAgree, UndoAgree, SettleAgree, DieAgree
  DEF CommandStep
<1>3. ASSUME NEW f \in HostFile, NEW e \in Edit, EditFile(f, e) PROVE AgreeInv'
  BY <1>3, EditAgree
<1>4. CASE UNCHANGED vars
  BY <1>4, KeepAgree DEF vars, history
<1> QED
  BY <1>2, <1>3, <1>4 DEF Next

(* For any processes, versions, edits and faults: between commands, our     *)
(* hooks and the record of them agree, unless a command was cut short.      *)
THEOREM HooksMatchRecordHolds == Spec => []HooksMatchRecord
<1> DEFINE I == TypeInv /\ AgreeInv
<1>1. Init => I
  <2> SUFFICES ASSUME Init PROVE AgreeInv
    BY InitTypeInv
  <2>1. HoldInv
    BY ConnectionAssumption DEF Init, HoldInv, Job
  <2>2. HooksMatchRecord
    BY DEF Init, HooksMatchRecord, Accepted, File
  <2> QED
    BY <2>1, <2>2 DEF AgreeInv
<1>2. I /\ [Next]_vars => I'
  BY StepTypeInv, StepAgree
<1>3. I => HooksMatchRecord
  BY DEF AgreeInv
<1> QED
  BY <1>1, <1>2, <1>3, PTL DEF Spec
-----------------------------------------------------------------------------
(* Entries of others *)

(* A plan keeps the entries of others it has read, and changes a file once. *)
Keeps(j, cs, m) ==
  /\ \A i \in 1 .. Len(cs) : Others(cs[i].before) = Others(cs[i].after)
  /\ \A i, k \in 1 .. Len(cs) : cs[i].file = cs[k].file => i = k
  /\ j = "cleanup" => Others(m.after) = {}

(* What a file has beyond what p has read arrived after p compared it. *)
LateOnly(p) ==
  \A i \in 1 .. Len(changes[p]) :
    Others(disk[changes[p][i].file]) \ Others(changes[p][i].before) \subseteq late[p]

Keep(p) ==
  /\ Others(moved[p].before) = Others(moved[p].after)
  /\ pc[p] \in Planned => Keeps(job[p], changes[p], moved[p])
  /\ pc[p] \in InTransaction => LateOnly(p)

KeepInv == \A p \in Proc : Keep(p)

Keeping(p) == pc'[p] \in Planned => Keeps(job'[p], changes'[p], moved'[p])

LEMMA OthersOfHost ==
  ASSUME NEW v \in Version \cup {NoVersion}, NEW o \in SUBSET Edit
  PROVE  Others(HostContent(v, o)) = o
BY HostContentIs, ConnectionAssumption DEF HostContent, Content, Text, Others

LEMMA OthersOfBinding ==
  ASSUME NEW b \in Binding
  PROVE  Others(b) = {}
BY DEF Binding, Others

LEMMA McpAfterKeeps ==
  ASSUME NEW c \in Command, NEW mcp \in Content
  PROVE  Others(McpAfter(c, mcp)) = Others(mcp)
<1>1. c.version \in Version /\ Others(mcp) \in SUBSET Edit
  BY ContentParts DEF Command
<1>2. /\ Others(HostContent(c.version, Others(mcp))) = Others(mcp)
      /\ Others(HostContent(NoVersion, Others(mcp))) = Others(mcp)
  BY <1>1, OthersOfHost
<1> QED
  BY <1>2 DEF McpAfter

LEMMA HookAfterKeeps ==
  ASSUME NEW c \in Command, NEW hook \in Content, NEW binding
  PROVE  Others(HookAfter(c, hook, binding)) = Others(hook)
<1>1. c.version \in Version /\ Others(hook) \in SUBSET Edit
  BY ContentParts DEF Command
<1>2. /\ Others(HostContent(c.version, Others(hook))) = Others(hook)
      /\ Others(HostContent(NoVersion, Others(hook))) = Others(hook)
  BY <1>1, OthersOfHost
<1>3. Others(NoFile) = {}
  BY DEF Others
<1> QED
  BY <1>2, <1>3 DEF HookAfter

LEMMA OneChangeKeeps ==
  ASSUME NEW j, NEW m, NEW f, NEW b, NEW a, Others(b) = Others(a),
         j = "cleanup" => Others(m.after) = {}
  PROVE  Keeps(j, <<Change(f, b, a)>>, m)
BY DEF Keeps, Change

LEMMA PlanKeeping ==
  ASSUME TypeInv, NEW p \in Proc, NEW j, NEW cs, Plan(p, j, cs), Keeps(j, cs, moved'[p])
  PROVE  Keeping(p)
BY DEF Plan, Keeping, TypeInv, TypeOK

LEMMA GoKeeping ==
  ASSUME TypeInv, NEW p \in Proc, NEW l, l \notin Planned, Goto(p, l)
  PROVE  Keeping(p) /\ pc'[p] \notin InTransaction
BY DEF Goto, Keeping, Planned, TypeInv, TypeOK

LEMMA FailKeeping ==
  ASSUME TypeInv, NEW p \in Proc, Keep(p), Fail(p)
  PROVE  Keeping(p)
<1>1. Keeps("restore", <<Change("mcp", moved[p].after, moved[p].before)>>, moved'[p])
  BY OneChangeKeeps DEF Keep
<1>2. "failure" \notin Planned
  BY DEF Planned, InTransaction
<1> QED
  BY <1>1, <1>2, PlanKeeping, GoKeeping DEF Fail

LEMMA AfterMcpKeeping ==
  ASSUME TypeInv, NEW p \in Proc, NEW after, AfterMcp(p, after), moved'[p].after = after
  PROVE  Keeping(p)
<1>1. Others(after) = {} => Keeps("cleanup", <<Change("mcp", after, NoFile)>>, moved'[p])
  BY OneChangeKeeps DEF Others
<1>2. "hook" \notin Planned
  BY DEF Planned, InTransaction
<1> QED
  BY <1>1, <1>2, PlanKeeping, GoKeeping DEF AfterMcp

LEMMA NotInTransaction ==
  ASSUME TypeInv, NEW p \in Proc, Planning(p)
  PROVE  pc'[p] \notin InTransaction
BY DEF Planning, Plan, Goto, InTransaction, TypeInv, TypeOK

LEMMA ReadMcpKeep ==
  ASSUME TypeInv, KeepInv, NEW p \in Proc, ReadMcp(p)
  PROVE  Keep(p)'
<1> DEFINE before == disk["mcp"]
           after == McpAfter(cmd[p], before)
           move == [before |-> before, after |-> after, mutated |-> FALSE]
<1>1. cmd[p] \in Command /\ before \in Content
  BY DEF ReadMcp, At, TypeInv, TypeOK, ProcInv, File
<1>2. Others(after) = Others(before)
  BY <1>1, McpAfterKeeps
<1>3. /\ moved' = [moved EXCEPT ![p] = move]
      /\ AfterMcp(p, after) \/ Plan(p, "connect", <<Change("mcp", before, after)>>)
  BY Zenon DEF ReadMcp
<1>4. moved'[p] = move /\ move.before = before /\ move.after = after
  BY <1>3 DEF TypeInv, TypeOK
<1> HIDE DEF before, after, move
<1>5. Keeps("connect", <<Change("mcp", before, after)>>, moved'[p])
  BY <1>2, OneChangeKeeps
<1>6. Keeping(p)
  BY <1>3, <1>4, <1>5, AfterMcpKeeping, PlanKeeping
<1>7. pc'[p] \notin InTransaction
  BY ReadMcpPlans, NotInTransaction
<1> QED
  BY <1>2, <1>4, <1>6, <1>7 DEF Keep, Keeping

LEMMA ReadBindingKeep ==
  ASSUME TypeInv, KeepInv, NEW p \in Proc, ReadBinding(p)
  PROVE  Keep(p)'
<1> DEFINE hook == seen[p]
           binding == disk["binding"]
           newMcp == moved[p].before = NoFile
           hookAfter == HookAfter(cmd[p], hook, binding)
           bindingAfter == BindingAfter(cmd[p], hook, binding, newMcp)
           h == Change("hook", hook, hookAfter)
           b == Change("binding", binding, bindingAfter)
<1>1. cmd[p] \in Command /\ hook \in Content /\ binding \in Binding /\ newMcp \in BOOLEAN
  BY DEF ReadBinding, At, TypeInv, TypeOK, ProcInv
<1>2. moved' = moved
  BY DEF ReadBinding
<1>3. ASSUME ~ Accepted(hook, binding) PROVE Keeping(p)
  <2>1. Fail(p)
    BY <1>3, Zenon DEF ReadBinding
  <2> QED
    BY <2>1, FailKeeping DEF KeepInv
<1>4. ASSUME Accepted(hook, binding) PROVE Keeping(p)
  <2>1. \/ Goto(p, "success")
        \/ Plan(p, "lifecycle", Selected(h, b))
    BY <1>4, Zenon DEF ReadBinding
  <2>2. bindingAfter \in Binding
    BY <1>1, <1>4, MergeAgrees
  <2>3. Others(hookAfter) = Others(hook) /\ Others(bindingAfter) = Others(binding)
    BY <1>1, <2>2, HookAfterKeeps, OthersOfBinding
  <2> HIDE DEF hook, binding, newMcp, hookAfter, bindingAfter
  <2>4. Keeps("lifecycle", Selected(h, b), moved'[p])
    BY <2>3 DEF Keeps, Selected, Change
  <2>5. "success" \notin Planned
    BY DEF Planned, InTransaction
  <2> HIDE DEF h, b
  <2> QED
    BY <2>1, <2>4, <2>5, PlanKeeping, GoKeeping
<1>5. Keeping(p)
  BY <1>3, <1>4
<1>6. pc'[p] \notin InTransaction
  BY ReadBindingPlans, NotInTransaction
<1> QED
  BY <1>2, <1>5, <1>6 DEF KeepInv, Keep, Keeping

LEMMA VerifyKeep ==
  ASSUME TypeInv, KeepInv, NEW p \in Proc, Verify(p)
  PROVE  Keep(p)'
<1> DEFINE before == moved[p].before
           after == moved[p].after
           m == [before |-> before, after |-> after, mutated |-> TRUE]
           gone == [before |-> before, after |-> NoFile, mutated |-> TRUE]
<1>1. pc[p] = "verify" /\ Keeps(job[p], changes[p], moved[p]) /\ Others(before) = Others(after)
  BY DEF Verify, At, KeepInv, Keep, Planned, InTransaction
<1>2. /\ Others(m.before) = Others(m.after) /\ m.after = after
      /\ job[p] = "cleanup" => Others(gone.before) = Others(gone.after)
  BY <1>1 DEF Keeps, Others
<1>3. \/ moved' = [moved EXCEPT ![p] = m] /\ AfterMcp(p, after)
      \/ job[p] = "cleanup" /\ moved' = [moved EXCEPT ![p] = gone] /\ Goto(p, "hook")
      \/ /\ \E l \in {"success", "failure"} : Goto(p, l)
         /\ moved' = moved
  BY Zenon DEF Verify
<1>4. {"hook", "success", "failure"} \cap Planned = {}
  BY DEF Planned, InTransaction
<1> HIDE DEF before, after, m, gone
<1>5. moved'[p] \in {moved[p], m} \/ (moved'[p] = gone /\ job[p] = "cleanup")
  BY <1>3 DEF TypeInv, TypeOK
<1>6. Keeping(p)
  <2>1. CASE moved' = [moved EXCEPT ![p] = m] /\ AfterMcp(p, after)
    <3>1. moved'[p] = m
      BY <2>1 DEF TypeInv, TypeOK
    <3> QED
      BY <1>2, <2>1, <3>1, AfterMcpKeeping
  <2>2. CASE \E l \in {"hook", "success", "failure"} : Goto(p, l)
    BY <1>4, <2>2, GoKeeping
  <2> QED
    BY <1>3, <2>1, <2>2
<1>7. pc'[p] \notin InTransaction
  <2>1. after \in Content
    BY DEF after, TypeInv, TypeOK, Move
  <2>2. AfterMcp(p, after) => Planning(p)
    BY <2>1, AfterMcpPlans
  <2> QED
    BY <1>3, <1>4, <2>2, NotInTransaction, GoKeeping
<1>8. Others(moved'[p].before) = Others(moved'[p].after)
  BY <1>2, <1>5 DEF KeepInv, Keep
<1> QED
  BY <1>6, <1>7, <1>8 DEF Keep, Keeping

(* A file is replaced by what the plan of p has for it. *)
LEMMA PutLate ==
  ASSUME TypeInv, KeepInv, NEW p \in Proc, pc[p] \in InTransaction,
         NEW i \in 1 .. Len(changes[p]), NEW c \in {changes[p][i].before, changes[p][i].after},
         Put(p, changes[p][i].file, c)
  PROVE  /\ \A f \in File : Others(disk[f]) \ Others(disk'[f]) \subseteq late[p]
         /\ changes'[p] = changes[p] => LateOnly(p)'
<1> DEFINE g == changes[p][i].file
<1>1. g \in File /\ c \in MayHold(g)
  BY PlanParts DEF Planned
<1>2. /\ \A f \in File : disk'[f] = IF f = g THEN c ELSE disk[f]
      /\ late'[p] = late[p]
  BY <1>1, PutType DEF Put, TypeInv
<1>3. Others(c) = Others(changes[p][i].before)
  BY DEF KeepInv, Keep, Keeps, Planned
<1>4. Others(disk[g]) \ Others(c) \subseteq late[p]
  BY <1>3 DEF KeepInv, Keep, LateOnly
<1>5. ASSUME changes'[p] = changes[p], NEW k \in 1 .. Len(changes[p])
      PROVE  Others(disk'[changes[p][k].file]) \ Others(changes[p][k].before) \subseteq late'[p]
  <2>1. changes[p][k].file \in File
    BY PlanParts DEF Planned
  <2>2. CASE k = i
    BY <1>1, <1>2, <1>3, <2>2
  <2>3. CASE k # i
    <3>1. changes[p][k].file # g
      BY <2>3 DEF KeepInv, Keep, Keeps, Planned
    <3> QED
      BY <1>2, <2>1, <3>1 DEF KeepInv, Keep, LateOnly
  <2> QED
    BY <2>2, <2>3
<1> HIDE DEF g
<1>6. \A f \in File : Others(disk[f]) \ Others(disk'[f]) \subseteq late[p]
  BY <1>2, <1>4
<1>7. changes'[p] = changes[p] => LateOnly(p)'
  BY <1>5 DEF LateOnly
<1> QED
  BY <1>6, <1>7

(* Whoever replaces a file, what it adds is late for the others. *)
LEMMA PutOther ==
  ASSUME TypeInv, KeepInv, NEW r, NEW f \in File, NEW c \in MayHold(f), Put(r, f, c),
         NEW q \in Proc, q # r,
         pc'[q] = pc[q], job'[q] = job[q], changes'[q] = changes[q], moved'[q] = moved[q]
  PROVE  Keep(q)'
<1>1. \A g \in File : disk'[g] = IF g = f THEN c ELSE disk[g]
  BY PutType DEF TypeInv
<1>2. pc[q] \in InTransaction => late'[q] = late[q] \cup (Others(c) \ Others(disk[f]))
  BY DEF Put
<1>3. ASSUME pc[q] \in InTransaction, NEW k \in 1 .. Len(changes[q])
      PROVE  Others(disk'[changes[q][k].file]) \ Others(changes[q][k].before) \subseteq late'[q]
  <2>1. changes[q][k].file \in File
    BY <1>3, PlanParts DEF Planned
  <2>2. Others(disk[changes[q][k].file]) \ Others(changes[q][k].before) \subseteq late[q]
    BY <1>3 DEF KeepInv, Keep, LateOnly
  <2> QED
    BY <1>1, <1>2, <1>3, <2>1, <2>2
<1>4. pc'[q] \in InTransaction => LateOnly(q)'
  BY <1>3 DEF LateOnly
<1> QED
  BY <1>4 DEF KeepInv, Keep

(* The change p is about to make. *)
LEMMA NextChange ==
  ASSUME TypeInv, NEW p \in Proc, pc[p] = "write"
  PROVE  done[p] + 1 \in 1 .. Len(changes[p]) /\ pc[p] \in InTransaction
<1>1. done[p] < Len(changes[p]) /\ done[p] \in 0 .. 2 /\ PlanOK(job[p], changes[p])
  BY DEF TypeInv, TypeOK, ProcInv, Planned, InTransaction
<1> QED
  BY <1>1 DEF PlanOK, InTransaction

LEMMA LastChange ==
  ASSUME TypeInv, NEW p \in Proc, pc[p] = "undo", done[p] > 0
  PROVE  done[p] \in 1 .. Len(changes[p]) /\ pc[p] \in InTransaction
<1>1. done[p] <= Len(changes[p]) /\ done[p] \in 0 .. 2 /\ PlanOK(job[p], changes[p])
  BY DEF TypeInv, TypeOK, ProcInv, Planned, InTransaction
<1> QED
  BY <1>1 DEF PlanOK, InTransaction

(* Of the steps of p: which leave the files alone, and what the others do.  *)
Puts(p) ==
  \E i \in 1 .. Len(changes[p]) : \E c \in {changes[p][i].before, changes[p][i].after} :
    pc[p] \in InTransaction /\ Put(p, changes[p][i].file, c)

LEMMA StepPuts ==
  ASSUME TypeInv, NEW p \in Proc, CommandStep(p) \/ Die(p)
  PROVE  \/ Puts(p)
         \/ disk' = disk /\ \A q \in Proc \ {p} : late'[q] = late[q]
<1>1. CASE Write(p) \/ SyncFails(p)
  <2>1. pc[p] = "write" /\ Put(p, changes[p][done[p] + 1].file, changes[p][done[p] + 1].after)
    BY <1>1 DEF Write, SyncFails, At
  <2> QED
    BY <2>1, NextChange DEF Puts
<1>2. CASE Undo(p)
  <2>1. /\ pc[p] = "undo" /\ done[p] > 0
        /\ Put(p, changes[p][done[p]].file, changes[p][done[p]].before)
    BY <1>2 DEF Undo, At
  <2> QED
    BY <2>1, LastChange DEF Puts
<1>3. CASE Begin(p) \/ ReadMcp(p) \/ ReadHook(p) \/ ReadBinding(p) \/ Conflict(p)
           \/ WriteFails(p) \/ Verify(p) \/ VerifyFails(p) \/ Undone(p) \/ UndoFails(p)
  BY <1>3 DEF Begin, ReadMcp, ReadHook, ReadBinding, Conflict, WriteFails, Verify, VerifyFails,
              Undone, UndoFails, history
<1>4. CASE Compare(p) \/ Exit(p) \/ Die(p)
  BY <1>4 DEF Compare, Exit, Die, Forget, TypeInv, TypeOK
<1> QED
  BY <1>1, <1>2, <1>3, <1>4 DEF CommandStep

LEMMA StepOthers ==
  ASSUME TypeInv, NEW p \in Proc, CommandStep(p) \/ Die(p), NEW q \in Proc, q # p
  PROVE  pc'[q] = pc[q] /\ job'[q] = job[q] /\ changes'[q] = changes[q] /\ moved'[q] = moved[q]
<1> USE DEF Goto, Plan, TypeInv, TypeOK
<1>1. CASE Begin(p) \/ ReadHook(p) \/ Compare(p) \/ Write(p) \/ Undo(p)
  BY <1>1 DEF Begin, ReadHook, Compare, Write, Undo
<1>2. CASE Exit(p) \/ Die(p)
  BY <1>2 DEF Exit, Die, Forget
<1>3. CASE ReadMcp(p)
  BY <1>3 DEF ReadMcp, AfterMcp
<1>4. CASE ReadBinding(p)
  BY <1>4 DEF ReadBinding, Fail
<1>5. CASE Conflict(p) \/ Undone(p) \/ UndoFails(p)
  BY <1>5 DEF Conflict, Undone, UndoFails, Abandon, Fail
<1>6. CASE WriteFails(p) \/ SyncFails(p) \/ VerifyFails(p)
  BY <1>6 DEF WriteFails, SyncFails, VerifyFails, Unwind, Fail
<1>7. CASE Verify(p)
  <2>1. \/ AfterMcp(p, moved[p].after)
        \/ /\ \E l \in {"hook", "success", "failure"} : Goto(p, l)
           /\ UNCHANGED <<job, changes>>
    BY <1>7, Zenon DEF Verify
  <2>2. moved' = moved \/ \E m : moved' = [moved EXCEPT ![p] = m]
    BY <1>7, Zenon DEF Verify
  <2>3. moved'[q] = moved[q]
    BY <2>2
  <2> QED
    BY <2>1, <2>3 DEF AfterMcp
<1> QED
  BY <1>1, <1>2, <1>3, <1>4, <1>5, <1>6, <1>7 DEF CommandStep

(* What a step does to the process that takes it.                           *)
LEMMA UnwindKeep ==
  ASSUME TypeInv, KeepInv, NEW p \in Proc, Unwind(p), pc[p] \in InTransaction,
         moved' = moved, changes'[p] = changes[p] => LateOnly(p)'
  PROVE  Keep(p)'
<1>1. CASE Fail(p)
  <2>1. Keeping(p)
    BY <1>1, FailKeeping DEF KeepInv
  <2>2. pc'[p] \notin InTransaction
    BY <1>1, FailPlans, NotInTransaction DEF TypeInv
  <2> QED
    BY <2>1, <2>2 DEF KeepInv, Keep, Keeping
<1>2. CASE Goto(p, "undo") /\ UNCHANGED <<job, changes>>
  <2>1. Keeps(job[p], changes[p], moved[p])
    BY DEF KeepInv, Keep, Planned
  <2> QED
    BY <1>2, <2>1 DEF KeepInv, Keep
<1> QED
  BY <1>1, <1>2 DEF Unwind

LEMMA OwnKeep ==
  ASSUME TypeInv, KeepInv, NEW p \in Proc, CommandStep(p) \/ Die(p)
  PROVE  Keep(p)'
<1> USE DEF At
<1>1. CASE Begin(p) \/ ReadHook(p)
  <2>1. moved' = moved /\ \E l \in {"mcp", "binding"} : Goto(p, l)
    BY <1>1 DEF Begin, ReadHook
  <2>2. {"mcp", "binding"} \cap Planned = {}
    BY DEF Planned, InTransaction
  <2> QED
    BY <2>1, <2>2, GoKeeping DEF KeepInv, Keep, Keeping
<1>2. CASE Exit(p) \/ Die(p)
  <2>1. Goto(p, "idle") /\ moved' = [moved EXCEPT ![p] = NoMove]
    BY <1>2 DEF Exit, Die, Forget
  <2>2. "idle" \notin Planned /\ moved'[p] = NoMove
    BY <2>1 DEF Planned, InTransaction, TypeInv, TypeOK
  <2>3. Others(NoMove.before) = Others(NoMove.after)
    BY DEF NoMove
  <2> QED
    BY <2>1, <2>2, <2>3, GoKeeping DEF Keep, Keeping
<1>3. CASE ReadMcp(p) \/ ReadBinding(p) \/ Verify(p)
  BY <1>3, ReadMcpKeep, ReadBindingKeep, VerifyKeep
<1>4. CASE Conflict(p) \/ Undone(p) \/ UndoFails(p)
  <2>1. moved' = moved /\ (Fail(p) \/ \E l \in {"unrestored"} : Goto(p, l))
    BY <1>4 DEF Conflict, Undone, UndoFails, Abandon
  <2>2. "unrestored" \notin Planned
    BY DEF Planned, InTransaction
  <2>3. Keeping(p) /\ pc'[p] \notin InTransaction
    BY <2>1, <2>2, FailKeeping, GoKeeping, FailPlans, NotInTransaction DEF KeepInv, TypeInv
  <2> QED
    BY <2>1, <2>3 DEF KeepInv, Keep, Keeping
<1>5. CASE Compare(p)
  <2>1. /\ pc[p] = "compare" /\ AsRead(p) /\ UNCHANGED <<disk, job, changes, moved>>
        /\ Keeps(job[p], changes[p], moved[p])
    BY <1>5 DEF Compare, KeepInv, Keep, Planned
  <2>2. DOMAIN changes[p] = 1 .. Len(changes[p])
    BY DEF TypeInv, TypeOK, Changes
  <2>3. \A x, y : Same(p, x, y) => Others(x) = Others(y)
    BY DEF Same, Blank, Others, HostContent
  <2>4. LateOnly(p)'
    BY <2>1, <2>2, <2>3 DEF AsRead, LateOnly
  <2> QED
    BY <2>1, <2>4 DEF KeepInv, Keep
<1>6. CASE Write(p) \/ Undo(p)
  <2>1. /\ pc[p] \in InTransaction /\ UNCHANGED <<job, changes, moved>>
    BY <1>6 DEF Write, Undo, InTransaction
  <2>2. LateOnly(p)'
    <3>1. CASE Write(p)
      <4>1. pc[p] = "write" /\ Put(p, changes[p][done[p] + 1].file, changes[p][done[p] + 1].after)
        BY <3>1 DEF Write
      <4> QED
        BY <2>1, <4>1, NextChange, PutLate
    <3>2. CASE Undo(p)
      <4>1. /\ pc[p] = "undo" /\ done[p] > 0
            /\ Put(p, changes[p][done[p]].file, changes[p][done[p]].before)
        BY <3>2 DEF Undo
      <4> QED
        BY <2>1, <4>1, LastChange, PutLate
    <3> QED
      BY <1>6, <3>1, <3>2
  <2>3. Keeps(job[p], changes[p], moved[p])
    BY <2>1 DEF KeepInv, Keep, Planned
  <2> QED
    BY <2>1, <2>2, <2>3 DEF KeepInv, Keep
<1>7. CASE WriteFails(p) \/ VerifyFails(p)
  <2>1. /\ pc[p] \in InTransaction /\ Unwind(p) /\ UNCHANGED <<disk, moved, late>>
    BY <1>7 DEF WriteFails, VerifyFails, InTransaction, history
  <2>2. changes'[p] = changes[p] => LateOnly(p)'
    BY <2>1 DEF LateOnly, KeepInv, Keep
  <2> QED
    BY <2>1, <2>2, UnwindKeep
<1>8. CASE SyncFails(p)
  <2>1. /\ pc[p] = "write" /\ Unwind(p) /\ moved' = moved
        /\ Put(p, changes[p][done[p] + 1].file, changes[p][done[p] + 1].after)
    BY <1>8 DEF SyncFails
  <2> QED
    BY <2>1, NextChange, PutLate, UnwindKeep
<1> QED
  BY <1>1, <1>2, <1>3, <1>4, <1>5, <1>6, <1>7, <1>8 DEF CommandStep

LEMMA StepKeep ==
  ASSUME TypeInv, KeepInv, [Next]_vars
  PROVE  KeepInv'
<1>1. ASSUME NEW p \in Proc, CommandStep(p) \/ Die(p), NEW q \in Proc PROVE Keep(q)'
  <2>1. CASE q = p
    BY <1>1, <2>1, OwnKeep
  <2>2. CASE q # p
    <3>1. pc'[q] = pc[q] /\ job'[q] = job[q] /\ changes'[q] = changes[q] /\ moved'[q] = moved[q]
      BY <1>1, <2>2, StepOthers
    <3>2. CASE Puts(p)
      <4>1. PICK i \in 1 .. Len(changes[p]) :
              \E c \in {changes[p][i].before, changes[p][i].after} :
                pc[p] \in InTransaction /\ Put(p, changes[p][i].file, c)
        BY <3>2 DEF Puts
      <4>2. /\ changes[p][i].file \in File
            /\ {changes[p][i].before, changes[p][i].after} \subseteq MayHold(changes[p][i].file)
        BY <4>1, PlanParts DEF Planned
      <4> QED
        BY <2>2, <3>1, <4>1, <4>2, PutOther
    <3>3. CASE disk' = disk /\ late'[q] = late[q]
      BY <3>1, <3>3 DEF KeepInv, Keep, LateOnly
    <3> QED
      BY <1>1, <2>2, <3>2, <3>3, StepPuts
  <2> QED
    BY <2>1, <2>2
<1>2. ASSUME NEW f \in HostFile, NEW e \in Edit, EditFile(f, e), NEW q \in Proc PROVE Keep(q)'
  <2> DEFINE c == HostContent(Owned(disk[f]), Others(disk[f]) \cup {e})
  <2>1. Put(NoProc, f, c) /\ UNCHANGED <<pc, job, changes, moved>>
    BY <1>2 DEF EditFile
  <2>2. f \in File /\ f # "binding" /\ disk[f] \in Content
    BY DEF HostFile, File, TypeInv, TypeOK
  <2>3. Owned(disk[f]) \in Version \cup {NoVersion} /\ Others(disk[f]) \cup {e} \in SUBSET Edit
    BY <2>2, ContentParts
  <2>4. c \in MayHold(f)
    BY <2>2, <2>3, HostContentIs DEF MayHold
  <2> HIDE DEF c
  <2> QED
    BY <2>1, <2>2, <2>4, PutOther, ConnectionAssumption
<1>3. CASE UNCHANGED vars
  BY <1>3 DEF vars, history, KeepInv, Keep, LateOnly
<1> QED
  BY <1>1, <1>2, <1>3 DEF Next, KeepInv

(* For any processes, versions, edits and faults: a command takes nothing   *)
(* of somebody else's out of a file but what arrived after it compared the  *)
(* file under its lock; a rollback or a restore neither.                    *)
THEOREM EditsSurviveHolds == Spec => EditsSurvive
<1> DEFINE A == \A p \in Proc : CommandStep(p) =>
                  \A f \in File : Others(disk[f]) \ Others(disk'[f]) \subseteq late[p]
           I == TypeInv /\ KeepInv
<1>1. Init => I
  <2> SUFFICES ASSUME Init PROVE KeepInv
    BY InitTypeInv
  <2> QED
    BY DEF Init, KeepInv, Keep, NoMove, Planned, InTransaction
<1>2. I /\ [Next]_vars => I'
  BY StepTypeInv, StepKeep
<1>3. I /\ [Next]_vars => [A]_vars
  <2> SUFFICES ASSUME I, NEW p \in Proc, CommandStep(p)
               PROVE  \A f \in File : Others(disk[f]) \ Others(disk'[f]) \subseteq late[p]
    OBVIOUS
  <2>1. CASE Puts(p)
    BY <2>1, PutLate DEF Puts
  <2>2. CASE disk' = disk
    BY <2>2
  <2> QED
    BY <2>1, <2>2, StepPuts
<1> QED
  BY <1>1, <1>2, <1>3, PTL DEF Spec, EditsSurvive
-----------------------------------------------------------------------------
(* A command alone *)

(* The hook file never says who created it: that is for the binding.        *)
PlainHook(cs) ==
  \A i \in 1 .. Len(cs) : cs[i].file = "hook" =>
    Created(cs[i].before) = {} /\ Created(cs[i].after) = {}

PlainInv ==
  /\ Created(disk["hook"]) = {}
  /\ \A p \in Proc : /\ At(p, "binding") => Created(seen[p]) = {}
                     /\ pc[p] \in Planned => PlainHook(changes[p])

(* What a command alone with the files g makes of each of them.             *)
OwnerOfMcp(c, g) == c.kind = "disconnect" /\ "mcp" \in Created(g["binding"])
McpNew(c, g)     == McpAfter(c, g["mcp"])
Emptied(c, g)    == OwnerOfMcp(c, g) /\ McpNew(c, g) # NoFile /\ Others(McpNew(c, g)) = {}
McpGoal(c, g)    == IF Emptied(c, g) THEN NoFile ELSE McpNew(c, g)
HookGoal(c, g)   == HookAfter(c, g["hook"], g["binding"])
BindingGoal(c, g) == BindingAfter(c, g["hook"], g["binding"], g["mcp"] = NoFile)

(* The changes of its transaction it has made. *)
Wrote(p) == IF pc[p] = "compare" THEN 0 ELSE done[p]

PairIsGround(g) == disk["hook"] = g["hook"] /\ disk["binding"] = g["binding"]

MovedTo(p, g, m) == /\ moved[p].before = g["mcp"] /\ moved[p].after = m
                    /\ moved[p].mutated \/ m = g["mcp"]

McpOnly(p, g, before, after) ==
  /\ changes[p] = <<Change("mcp", before, after)>>
  /\ disk["mcp"] = IF Wrote(p) = 0 THEN before ELSE after
  /\ PairIsGround(g)

InConnect(p, g, c) == /\ moved[p].before = g["mcp"] /\ moved[p].after = McpNew(c, g)
                      /\ ~ moved[p].mutated
                      /\ McpOnly(p, g, g["mcp"], McpNew(c, g))

InCleanup(p, g, c) == /\ MovedTo(p, g, McpNew(c, g)) /\ Emptied(c, g)
                      /\ McpOnly(p, g, McpNew(c, g), NoFile)

AtHook(p, g, c) == /\ MovedTo(p, g, McpGoal(c, g))
                   /\ disk["mcp"] = McpGoal(c, g)
                   /\ PairIsGround(g)
                   /\ At(p, "binding") => seen[p] = g["hook"]

(* Hook file and binding, those that change, in this order.                 *)
PairWritten(p, h, b) ==
  \/ /\ changes[p] = <<h, b>>
     /\ disk["hook"] = IF Wrote(p) = 0 THEN h.before ELSE h.after
     /\ disk["binding"] = IF Wrote(p) = 2 THEN b.after ELSE b.before
  \/ /\ changes[p] = <<b>> /\ h.before = h.after
     /\ disk["hook"] = h.before
     /\ disk["binding"] = IF Wrote(p) = 0 THEN b.before ELSE b.after
  \/ /\ changes[p] = <<h>> /\ b.before = b.after
     /\ disk["hook"] = IF Wrote(p) = 0 THEN h.before ELSE h.after
     /\ disk["binding"] = b.before

InLifecycle(p, g, c) ==
  /\ MovedTo(p, g, McpGoal(c, g))
  /\ disk["mcp"] = McpGoal(c, g)
  /\ PairWritten(p, Change("hook", g["hook"], HookGoal(c, g)),
                    Change("binding", g["binding"], BindingGoal(c, g)))

InRestore(p, g) == McpOnly(p, g, moved[p].after, g["mcp"])

Grounded(p, g, c) == /\ Accepted(g["hook"], g["binding"]) /\ Created(g["hook"]) = {}
                     /\ owned[p] = OwnerOfMcp(c, g)

(* The state of a command that found the files as g, by its place, as long  *)
(* as nobody else has changed them.                                         *)
AloneAt(p, g, c) ==
  /\ Grounded(p, g, c)
  /\ At(p, "mcp") => disk = g
  /\ pc[p] \in Planned /\ job[p] = "connect" => InConnect(p, g, c)
  /\ pc[p] \in Planned /\ job[p] = "cleanup" => InCleanup(p, g, c)
  /\ pc[p] \in {"hook", "binding"} => AtHook(p, g, c)
  /\ pc[p] \in Planned /\ job[p] = "lifecycle" => InLifecycle(p, g, c)
  /\ pc[p] \in Planned /\ job[p] = "restore" => InRestore(p, g)
  /\ At(p, "success") => disk = Goal(c, g)
  /\ At(p, "failure") => disk = g

Disks == {d \in [File -> Content] : d["binding"] \in Binding}

AloneInv ==
  /\ ground \in [Proc -> Disks \cup {Touched}]
  /\ ~ torn => \A p \in Proc, g \in Disks, c \in Command :
                 ground[p] = g /\ g # Touched /\ cmd[p] = c /\ pc[p] # "idle" => AloneAt(p, g, c)
-----------------------------------------------------------------------------
(* What a command makes of the files *)

LEMMA DiskIs ==
  ASSUME NEW d, d = [f \in File |-> d[f]], NEW e, e = [f \in File |-> e[f]],
         d["mcp"] = e["mcp"], d["hook"] = e["hook"], d["binding"] = e["binding"]
  PROVE  d = e
<1>1. \A f \in File : d[f] = e[f]
  BY DEF File
<1> QED
  BY <1>1

LEMMA HostText ==
  ASSUME NEW h \in Content, h # NoFile, Created(h) = {}, Owned(h) = NoVersion
  PROVE  h = HostContent(NoVersion, Others(h))
BY DEF Content, Text, Created, Owned, Others, HostContent

(* The goals of the single files make up the goal of the command.           *)
LEMMA GoalIs ==
  ASSUME NEW c \in Command, NEW g \in Disks,
         Accepted(g["hook"], g["binding"]), Created(g["hook"]) = {}
  PROVE  /\ Goal(c, g)["mcp"] = McpGoal(c, g)
         /\ Goal(c, g)["hook"] = HookGoal(c, g)
         /\ Goal(c, g)["binding"] = BindingGoal(c, g)
         /\ Goal(c, g) = [f \in File |-> Goal(c, g)[f]]
<1>1. /\ c.kind \in {"connect", "disconnect"} /\ c.version \in Version
      /\ g["mcp"] \in Content /\ g["hook"] \in Content /\ g["binding"] \in Binding
  BY DEF Command, Disks, File
<1>2. Others(McpNew(c, g)) = Others(g["mcp"])
  BY <1>1, McpAfterKeeps DEF McpNew
<1>3. \A v \in Version \cup {NoVersion} : \A o \in SUBSET Edit : HostContent(v, o) # NoFile
  BY ConnectionAssumption DEF HostContent, Text
<1>4. Others(g["mcp"]) \in SUBSET Edit /\ Others(g["hook"]) \in SUBSET Edit
  BY <1>1, ContentParts
<1>5. g["binding"] = NoFile => Created(g["binding"]) = {}
  BY DEF Created
<1>6. Goal(c, g)["mcp"] = McpGoal(c, g)
  <2>1. CASE c.kind = "connect"
    <3>1. Goal(c, g)["mcp"] = HostContent(c.version, Others(g["mcp"]))
      BY <2>1 DEF Goal, File
    <3> QED
      BY <2>1, <3>1 DEF McpGoal, McpNew, Emptied, OwnerOfMcp, McpAfter
  <2>2. CASE c.kind = "disconnect"
    <3>1. Goal(c, g)["mcp"] =
            IF g["mcp"] = NoFile \/ (/\ g["binding"] # NoFile /\ "mcp" \in Created(g["binding"])
                                     /\ Others(g["mcp"]) = {})
            THEN NoFile ELSE HostContent(NoVersion, Others(g["mcp"]))
      BY <2>2 DEF Goal, File
    <3>2. McpNew(c, g) = IF g["mcp"] = NoFile THEN NoFile
                         ELSE HostContent(NoVersion, Others(g["mcp"]))
      BY <2>2 DEF McpNew, McpAfter
    <3> QED
      BY <1>2, <1>3, <1>4, <1>5, <2>2, <3>1, <3>2 DEF McpGoal, Emptied, OwnerOfMcp
  <2> QED
    BY <1>1, <2>1, <2>2
<1>7. Goal(c, g)["hook"] = HookGoal(c, g)
  <2>1. CASE c.kind = "connect"
    BY <2>1 DEF Goal, File, HookGoal, HookAfter
  <2>2. CASE c.kind = "disconnect"
    <3>1. Goal(c, g)["hook"] =
            IF g["hook"] = NoFile \/ (/\ g["binding"] # NoFile /\ "hook" \in Created(g["binding"])
                                      /\ Others(g["hook"]) = {})
            THEN NoFile ELSE HostContent(NoVersion, Others(g["hook"]))
      BY <2>2 DEF Goal, File
    <3>2. CASE g["binding"] = NoFile
      <4>1. HookGoal(c, g) = g["hook"] /\ Owned(g["hook"]) = NoVersion
        BY <2>2, <3>2 DEF HookGoal, HookAfter, Accepted, Owned
      <4> QED
        BY <1>1, <3>1, <3>2, <4>1, HostText
    <3>3. CASE g["binding"] # NoFile
      <4>1. Owned(g["binding"]) \in Version
        BY <1>1, <3>3 DEF Binding, Owned
      <4>2. g["hook"] # NoFile
        BY <4>1, ConnectionAssumption DEF Accepted, Owned
      <4> QED
        BY <2>2, <3>1, <3>3, <4>2 DEF HookGoal, HookAfter
    <3> QED
      BY <3>2, <3>3
  <2> QED
    BY <1>1, <2>1, <2>2
<1>8. Goal(c, g)["binding"] = BindingGoal(c, g)
  <2>1. CASE c.kind = "disconnect"
    BY <2>1 DEF Goal, File, BindingGoal, BindingAfter
  <2>2. CASE c.kind = "connect"
    <3>1. {f \in HostFile : g[f] = NoFile}
            = {f \in HostFile : \/ f = "hook" /\ g["hook"] = NoFile
                                \/ f = "mcp" /\ g["mcp"] = NoFile}
      BY DEF HostFile
    <3>2. Goal(c, g)["binding"] =
            [owned |-> c.version, others |-> {},
             created |-> IF g["binding"] # NoFile THEN g["binding"].created
                         ELSE {f \in HostFile : g[f] = NoFile}]
      BY <2>2 DEF Goal, File
    <3>3. BindingGoal(c, g) =
            [owned |-> c.version, others |-> {},
             created |-> IF g["binding"] # NoFile THEN g["binding"].created
                         ELSE {f \in HostFile : \/ f = "hook" /\ g["hook"] = NoFile
                                                \/ f = "mcp" /\ g["mcp"] = NoFile}]
      BY <2>2 DEF BindingGoal, BindingAfter
    <3> QED
      BY <3>1, <3>2, <3>3
  <2> QED
    BY <1>1, <2>1, <2>2
<1>9. Goal(c, g) = [f \in File |-> Goal(c, g)[f]]
  BY DEF Goal
<1> QED
  BY <1>6, <1>7, <1>8, <1>9

(* A step of p and the hook file in what it plans.                          *)
LEMMA PlainPlan ==
  ASSUME NEW b, NEW a
  PROVE  PlainHook(<<Change("mcp", b, a)>>)
BY DEF PlainHook, Change

LEMMA PlainOwn ==
  ASSUME TypeInv, PlainInv, NEW p \in Proc, CommandStep(p) \/ Die(p)
  PROVE  /\ pc'[p] = "binding" => Created(seen'[p]) = {}
         /\ pc'[p] \in Planned => PlainHook(changes'[p])
<1> USE DEF At
<1>f. ASSUME Fail(p) PROVE pc'[p] # "binding" /\ (pc'[p] \in Planned => PlainHook(changes'[p]))
  BY <1>f, PlainPlan DEF Fail, Plan, Goto, Planned, InTransaction, TypeInv, TypeOK
<1>m. ASSUME NEW after, AfterMcp(p, after)
      PROVE  pc'[p] # "binding" /\ (pc'[p] \in Planned => PlainHook(changes'[p]))
  BY <1>m, PlainPlan DEF AfterMcp, Plan, Goto, Planned, InTransaction, TypeInv, TypeOK
<1>g. ASSUME NEW l, Goto(p, l) PROVE pc'[p] = l
  BY <1>g DEF Goto, TypeInv, TypeOK
<1>n. {"mcp", "hook", "binding", "success", "failure", "unrestored", "idle"} \cap Planned = {}
  BY DEF Planned, InTransaction
<1>1. CASE Begin(p) \/ ReadHook(p) \/ Exit(p) \/ Die(p)
  <2>1. \/ Goto(p, "mcp") \/ Goto(p, "idle")
        \/ Goto(p, "binding") /\ seen' = [seen EXCEPT ![p] = disk["hook"]]
    BY <1>1 DEF Begin, ReadHook, Exit, Die, Forget
  <2> QED
    BY <1>g, <1>n, <2>1 DEF PlainInv, TypeInv, TypeOK
<1>2. CASE ReadMcp(p)
  <2>1. \/ \E after : AfterMcp(p, after)
        \/ \E b, a : Plan(p, "connect", <<Change("mcp", b, a)>>)
    BY <1>2, Zenon DEF ReadMcp
  <2> QED
    BY <1>m, <2>1, PlainPlan DEF Plan, Goto, TypeInv, TypeOK
<1>3. CASE ReadBinding(p)
  <2> DEFINE hook == seen[p]
             binding == disk["binding"]
             newMcp == moved[p].before = NoFile
             hookAfter == HookAfter(cmd[p], hook, binding)
             bindingAfter == BindingAfter(cmd[p], hook, binding, newMcp)
             h == Change("hook", hook, hookAfter)
             b == Change("binding", binding, bindingAfter)
  <2>1. Fail(p) \/ Goto(p, "success") \/ Plan(p, "lifecycle", Selected(h, b))
    BY <1>3, Zenon DEF ReadBinding
  <2>2. Created(hook) = {}
    BY <1>3 DEF ReadBinding, PlainInv
  <2>3. Created(hookAfter) = {}
    BY <2>2 DEF HookAfter, Created, HostContent
  <2>4. PlainHook(Selected(h, b))
    <3>1. /\ h.file = "hook" /\ h.before = hook /\ h.after = hookAfter
          /\ b.file = "binding"
      BY DEF Change
    <3> HIDE DEF hook, binding, newMcp, hookAfter, bindingAfter, h, b
    <3>2. Selected(h, b) \in {<<h>>, <<b>>, <<h, b>>}
      BY DEF Selected
    <3> QED
      BY <2>2, <2>3, <3>1, <3>2 DEF PlainHook
  <2> HIDE DEF h, b
  <2>5. CASE Plan(p, "lifecycle", Selected(h, b))
    BY <2>4, <2>5 DEF Plan, Goto, TypeInv, TypeOK
  <2> QED
    BY <1>f, <1>g, <1>n, <2>1, <2>5
<1>4. CASE Verify(p)
  <2>1. \/ \E after : AfterMcp(p, after)
        \/ \E l \in {"hook", "success", "failure"} : Goto(p, l)
    BY <1>4, Zenon DEF Verify
  <2> QED
    BY <1>m, <1>g, <1>n, <2>1
<1>5. CASE Compare(p) \/ Write(p) \/ Undo(p)
  <2>1. pc[p] \in Planned /\ pc'[p] # "binding" /\ changes' = changes
    BY <1>5 DEF Compare, Write, Undo, Planned, InTransaction, Goto, TypeInv, TypeOK
  <2> QED
    BY <2>1 DEF PlainInv
<1>6. CASE Conflict(p) \/ Undone(p) \/ UndoFails(p)
  <2>1. Fail(p) \/ Goto(p, "unrestored")
    BY <1>6 DEF Conflict, Undone, UndoFails, Abandon
  <2> QED
    BY <1>f, <1>g, <1>n, <2>1
<1>7. CASE WriteFails(p) \/ SyncFails(p) \/ VerifyFails(p)
  <2>1. pc[p] \in Planned /\ (Fail(p) \/ (Goto(p, "undo") /\ changes' = changes))
    BY <1>7 DEF WriteFails, SyncFails, VerifyFails, Unwind, Planned, InTransaction
  <2> QED
    BY <1>f, <1>g, <2>1 DEF PlainInv
<1> QED
  BY <1>1, <1>2, <1>3, <1>4, <1>5, <1>6, <1>7 DEF CommandStep

(* What a step of p leaves to the others, beside StepOthers.                *)
LEMMA StepMemory ==
  ASSUME TypeInv, NEW p \in Proc, CommandStep(p) \/ Die(p), NEW q \in Proc, q # p
  PROVE  seen'[q] = seen[q] /\ owned'[q] = owned[q] /\ done'[q] = done[q] /\ cmd'[q] = cmd[q]
<1>1. /\ seen' = seen \/ \E x : seen' = [seen EXCEPT ![p] = x]
      /\ cmd' = cmd \/ \E x : cmd' = [cmd EXCEPT ![p] = x]
      /\ done' = done \/ \E x : done' = [done EXCEPT ![p] = x]
  <2>1. CASE Begin(p) \/ ReadMcp(p) \/ ReadHook(p) \/ ReadBinding(p) \/ Compare(p)
             \/ Conflict(p) \/ Write(p) \/ Undo(p)
    BY <2>1, Zenon DEF Begin, ReadMcp, ReadHook, ReadBinding, Compare, Conflict, Write, Undo
  <2>2. CASE WriteFails(p) \/ SyncFails(p) \/ VerifyFails(p) \/ Verify(p) \/ Undone(p)
             \/ UndoFails(p)
    BY <2>2, Zenon DEF WriteFails, SyncFails, VerifyFails, Verify, Undone, UndoFails, Abandon,
                       Unwind, Release
  <2>3. CASE Exit(p) \/ Die(p)
    BY <2>3, Zenon DEF Exit, Die, Forget
  <2> QED
    BY <2>1, <2>2, <2>3 DEF CommandStep
<1>2. owned' = owned \/ \E x : owned' = [owned EXCEPT ![p] = x]
  <2>1. CASE Begin(p)
    BY <2>1, Zenon DEF Begin
  <2>2. CASE ReadMcp(p) \/ ReadHook(p) \/ ReadBinding(p) \/ Compare(p)
             \/ Conflict(p) \/ Write(p) \/ Undo(p) \/ WriteFails(p) \/ SyncFails(p)
             \/ VerifyFails(p) \/ Verify(p) \/ Undone(p) \/ UndoFails(p)
    BY <2>2, Zenon DEF ReadMcp, ReadHook, ReadBinding, Compare, Conflict, Write, Undo,
                       WriteFails, SyncFails, VerifyFails, Verify, Undone, UndoFails
  <2>3. CASE Exit(p) \/ Die(p)
    BY <2>3, Zenon DEF Exit, Die, Forget
  <2> QED
    BY <2>1, <2>2, <2>3 DEF CommandStep
<1>3. owned'[q] = owned[q]
  BY <1>2 DEF TypeInv, TypeOK
<1> QED
  BY <1>1, <1>3 DEF TypeInv, TypeOK

LEMMA StepPlain ==
  ASSUME TypeInv, PlainInv, [Next]_vars
  PROVE  PlainInv'
<1>1. ASSUME NEW p \in Proc, CommandStep(p) \/ Die(p) PROVE PlainInv'
  <2>1. Created(disk'["hook"]) = {}
    <3>1. CASE Puts(p)
      <4>1. PICK i \in 1 .. Len(changes[p]) :
              \E c \in {changes[p][i].before, changes[p][i].after} :
                pc[p] \in InTransaction /\ Put(p, changes[p][i].file, c)
        BY <3>1 DEF Puts
      <4>2. PICK c \in {changes[p][i].before, changes[p][i].after} :
                Put(p, changes[p][i].file, c)
        BY <4>1
      <4>3. /\ changes[p][i].file \in File /\ c \in MayHold(changes[p][i].file)
            /\ PlainHook(changes[p])
        BY <4>1, PlanParts DEF Planned, PlainInv
      <4>4. disk'["hook"] = IF "hook" = changes[p][i].file THEN c ELSE disk["hook"]
        BY <4>2, <4>3, PutType DEF File, TypeInv
      <4> QED
        BY <4>3, <4>4 DEF PlainInv, PlainHook
    <3>2. CASE disk' = disk
      BY <3>2 DEF PlainInv
    <3> QED
      BY <1>1, <3>1, <3>2, StepPuts
  <2>2. ASSUME NEW q \in Proc
        PROVE  /\ pc'[q] = "binding" => Created(seen'[q]) = {}
               /\ pc'[q] \in Planned => PlainHook(changes'[q])
    <3>1. CASE q = p
      BY <1>1, <3>1, PlainOwn
    <3>2. CASE q # p
      <4>1. pc'[q] = pc[q] /\ changes'[q] = changes[q] /\ seen'[q] = seen[q]
        BY <1>1, <3>2, StepOthers, StepMemory
      <4> QED
        BY <4>1 DEF PlainInv, At
    <3> QED
      BY <3>1, <3>2
  <2> QED
    BY <2>1, <2>2 DEF PlainInv, At
<1>2. ASSUME NEW f \in HostFile, NEW e \in Edit, EditFile(f, e) PROVE PlainInv'
  <2> DEFINE c == HostContent(Owned(disk[f]), Others(disk[f]) \cup {e})
  <2>1. disk' = [disk EXCEPT ![f] = c] /\ UNCHANGED <<pc, changes, seen>>
    BY <1>2 DEF EditFile, Put
  <2>2. Created(c) = {}
    BY DEF Created, HostContent
  <2> HIDE DEF c
  <2>3. disk'["hook"] \in {c, disk["hook"]}
    BY <2>1 DEF TypeInv, TypeOK, File
  <2> QED
    BY <2>1, <2>2, <2>3 DEF PlainInv, At
<1>3. CASE UNCHANGED vars
  BY <1>3 DEF vars, PlainInv, At
<1> QED
  BY <1>1, <1>2, <1>3 DEF Next
-----------------------------------------------------------------------------
(* Where a step takes a command that is alone *)

LEMMA AlonePlace ==
  ASSUME NEW p \in Proc, NEW g, NEW c, Grounded(p, g, c)'
  PROVE  /\ pc'[p] = "mcp" /\ disk' = g => AloneAt(p, g, c)'
         /\ pc'[p] \in Planned /\ job'[p] = "connect" /\ InConnect(p, g, c)' => AloneAt(p, g, c)'
         /\ pc'[p] \in Planned /\ job'[p] = "cleanup" /\ InCleanup(p, g, c)' => AloneAt(p, g, c)'
         /\ pc'[p] \in {"hook", "binding"} /\ AtHook(p, g, c)' => AloneAt(p, g, c)'
         /\ pc'[p] \in Planned /\ job'[p] = "lifecycle" /\ InLifecycle(p, g, c)'
              => AloneAt(p, g, c)'
         /\ pc'[p] \in Planned /\ job'[p] = "restore" /\ InRestore(p, g)' => AloneAt(p, g, c)'
         /\ pc'[p] = "success" /\ disk' = Goal(c, g) => AloneAt(p, g, c)'
         /\ pc'[p] = "failure" /\ disk' = g => AloneAt(p, g, c)'
         /\ pc'[p] = "unrestored" => AloneAt(p, g, c)'
BY DEF AloneAt, At, Planned, InTransaction

LEMMA PlanPlace ==
  ASSUME TypeInv, NEW p \in Proc, NEW j, NEW cs, Plan(p, j, cs)
  PROVE  /\ pc'[p] = "compare" /\ pc'[p] \in Planned /\ job'[p] = j /\ changes'[p] = cs
         /\ Wrote(p)' = 0
BY DEF Plan, Goto, Planned, Wrote, TypeInv, TypeOK

(* An error takes the MCP file back to what it was. *)
LEMMA FailAlone ==
  ASSUME TypeInv, NEW p \in Proc, NEW g \in Disks, NEW c, Grounded(p, g, c), Fail(p),
         UNCHANGED <<disk, moved, owned>>, PairIsGround(g),
         moved[p].before = g["mcp"], moved[p].mutated => moved[p].after = disk["mcp"],
         moved[p].mutated \/ disk["mcp"] = g["mcp"]
  PROVE  AloneAt(p, g, c)'
<1>1. Grounded(p, g, c)'
  BY DEF Grounded
<1>2. CASE moved[p].mutated
  <2>1. Plan(p, "restore", <<Change("mcp", moved[p].after, moved[p].before)>>)
    BY <1>2 DEF Fail
  <2>2. InRestore(p, g)'
    BY <1>2, <2>1, PlanPlace DEF InRestore, McpOnly, PairIsGround
  <2> QED
    BY <1>1, <2>1, <2>2, PlanPlace, AlonePlace
<1>3. CASE ~ moved[p].mutated
  <2>1. pc'[p] = "failure"
    BY <1>3 DEF Fail, Goto, TypeInv, TypeOK
  <2>2. disk = g
    BY <1>3, DiskIs DEF PairIsGround, Disks, TypeInv, TypeOK
  <2> QED
    BY <1>1, <2>1, <2>2, AlonePlace
<1> QED
  BY <1>2, <1>3

(* After the MCP entry. *)
LEMMA AfterMcpAlone ==
  ASSUME TypeInv, NEW p \in Proc, NEW g \in Disks, NEW c, Grounded(p, g, c),
         AfterMcp(p, McpNew(c, g)), UNCHANGED <<disk, owned>>, PairIsGround(g),
         disk["mcp"] = McpNew(c, g), MovedTo(p, g, McpNew(c, g))'
  PROVE  AloneAt(p, g, c)'
<1>1. Grounded(p, g, c)' /\ owned[p] = OwnerOfMcp(c, g)
  BY DEF Grounded
<1>2. CASE Emptied(c, g)
  <2>1. Plan(p, "cleanup", <<Change("mcp", McpNew(c, g), NoFile)>>)
    BY <1>1, <1>2 DEF AfterMcp, Emptied
  <2>2. InCleanup(p, g, c)'
    BY <1>2, <2>1, PlanPlace DEF InCleanup, McpOnly, PairIsGround
  <2> QED
    BY <1>1, <2>1, <2>2, PlanPlace, AlonePlace
<1>3. CASE ~ Emptied(c, g)
  <2>1. pc'[p] = "hook"
    BY <1>1, <1>3 DEF AfterMcp, Emptied, Goto, TypeInv, TypeOK
  <2>2. McpGoal(c, g) = McpNew(c, g)
    BY <1>3 DEF McpGoal
  <2>3. AtHook(p, g, c)'
    BY <2>1, <2>2 DEF AtHook, At, PairIsGround
  <2> QED
    BY <1>1, <2>1, <2>3, AlonePlace
<1> QED
  BY <1>2, <1>3

LEMMA ReadMcpAlone ==
  ASSUME TypeInv, NEW p \in Proc, NEW g \in Disks, NEW c, c = cmd[p], AloneAt(p, g, c),
         ReadMcp(p)
  PROVE  AloneAt(p, g, c)'
<1>1. Grounded(p, g, c) /\ disk = g /\ UNCHANGED <<disk, owned>>
  BY DEF AloneAt, ReadMcp, At
<1>2. Grounded(p, g, c)' /\ PairIsGround(g)
  BY <1>1 DEF Grounded, PairIsGround
<1> DEFINE move == [before |-> g["mcp"], after |-> McpNew(c, g), mutated |-> FALSE]
<1>3. /\ moved' = [moved EXCEPT ![p] = move]
      /\ IF McpNew(c, g) = g["mcp"] THEN AfterMcp(p, McpNew(c, g))
         ELSE Plan(p, "connect", <<Change("mcp", g["mcp"], McpNew(c, g))>>)
  BY <1>1, Zenon DEF ReadMcp, McpNew
<1>4. moved'[p] = move
  BY <1>3 DEF TypeInv, TypeOK
<1>5. /\ move.before = g["mcp"] /\ move.after = McpNew(c, g) /\ move.mutated = FALSE
  OBVIOUS
<1> HIDE DEF move
<1>6. CASE McpNew(c, g) = g["mcp"]
  <2>1. MovedTo(p, g, McpNew(c, g))'
    BY <1>4, <1>5, <1>6 DEF MovedTo
  <2> QED
    BY <1>1, <1>2, <1>3, <1>6, <2>1, AfterMcpAlone
<1>7. CASE McpNew(c, g) # g["mcp"]
  <2>1. Plan(p, "connect", <<Change("mcp", g["mcp"], McpNew(c, g))>>)
    BY <1>3, <1>7
  <2>2. InConnect(p, g, c)'
    BY <1>1, <1>4, <1>5, <2>1, PlanPlace DEF InConnect, McpOnly, PairIsGround
  <2> QED
    BY <1>2, <2>1, <2>2, PlanPlace, AlonePlace
<1> QED
  BY <1>6, <1>7

LEMMA ReadHookAlone ==
  ASSUME TypeInv, NEW p \in Proc, NEW g \in Disks, NEW c, AloneAt(p, g, c), ReadHook(p)
  PROVE  AloneAt(p, g, c)'
<1>1. /\ Grounded(p, g, c) /\ AtHook(p, g, c)
      /\ pc'[p] = "binding" /\ seen'[p] = disk["hook"] /\ UNCHANGED <<disk, owned, moved>>
  BY DEF AloneAt, ReadHook, At, Goto, TypeInv, TypeOK
<1>2. Grounded(p, g, c)' /\ AtHook(p, g, c)'
  BY <1>1 DEF Grounded, AtHook, MovedTo, PairIsGround
<1> QED
  BY <1>1, <1>2, AlonePlace

LEMMA ReadBindingAlone ==
  ASSUME TypeInv, NEW p \in Proc, NEW g \in Disks, NEW c \in Command, c = cmd[p],
         AloneAt(p, g, c), ReadBinding(p)
  PROVE  AloneAt(p, g, c)'
<1> DEFINE h == Change("hook", g["hook"], HookGoal(c, g))
           b == Change("binding", g["binding"], BindingGoal(c, g))
<1>1. /\ Grounded(p, g, c) /\ AtHook(p, g, c) /\ seen[p] = g["hook"]
      /\ UNCHANGED <<disk, owned, moved>>
  BY DEF AloneAt, ReadBinding, At, AtHook
<1>2. /\ disk["binding"] = g["binding"] /\ Accepted(g["hook"], g["binding"])
      /\ (moved[p].before = NoFile) = (g["mcp"] = NoFile)
  BY <1>1 DEF AtHook, MovedTo, PairIsGround, Grounded
<1>3. IF HookGoal(c, g) = g["hook"] /\ BindingGoal(c, g) = g["binding"]
      THEN Goto(p, "success") /\ UNCHANGED <<job, changes>>
      ELSE Plan(p, "lifecycle", Selected(h, b))
  BY <1>1, <1>2, Zenon DEF ReadBinding, HookGoal, BindingGoal
<1>4. Grounded(p, g, c)'
  BY <1>1 DEF Grounded
<1>5. CASE HookGoal(c, g) = g["hook"] /\ BindingGoal(c, g) = g["binding"]
  <2>1. pc'[p] = "success"
    BY <1>3, <1>5 DEF Goto, TypeInv, TypeOK
  <2>2. /\ disk["mcp"] = McpGoal(c, g) /\ disk["hook"] = HookGoal(c, g)
        /\ disk["binding"] = BindingGoal(c, g)
    BY <1>1, <1>5 DEF AtHook, PairIsGround
  <2>3. disk = Goal(c, g)
    BY <1>1, <2>2, GoalIs, DiskIs DEF Grounded, TypeInv, TypeOK
  <2> QED
    BY <1>1, <1>4, <2>1, <2>3, AlonePlace
<1>6. CASE ~ (HookGoal(c, g) = g["hook"] /\ BindingGoal(c, g) = g["binding"])
  <2>1. Plan(p, "lifecycle", Selected(h, b))
    BY <1>3, <1>6
  <2>2. /\ h.before = g["hook"] /\ h.after = HookGoal(c, g)
        /\ b.before = g["binding"] /\ b.after = BindingGoal(c, g)
    BY DEF Change
  <2>3. MovedTo(p, g, McpGoal(c, g))' /\ disk'["mcp"] = McpGoal(c, g) /\ PairIsGround(g)'
    BY <1>1 DEF AtHook, MovedTo, PairIsGround
  <2> HIDE DEF h, b
  <2>4. PairWritten(p, h, b)'
    BY <2>1, <2>2, <2>3, PlanPlace DEF PairWritten, Selected, PairIsGround
  <2>5. InLifecycle(p, g, c)'
    BY <2>3, <2>4 DEF InLifecycle, h, b
  <2> QED
    BY <1>4, <2>1, <2>5, PlanPlace, AlonePlace
<1> QED
  BY <1>5, <1>6

(* In a transaction, the files are as its changes say: those made hold what *)
(* they were changed to, the others what was read.                          *)
LEMMA AloneFiles ==
  ASSUME TypeInv, NEW p \in Proc, NEW g \in Disks, NEW c, AloneAt(p, g, c), pc[p] \in Planned,
         NEW i \in 1 .. Len(changes[p]), Wrote(p) <= Len(changes[p])
  PROVE  disk[changes[p][i].file]
           = IF i <= Wrote(p) THEN changes[p][i].after ELSE changes[p][i].before
<1>1. Wrote(p) \in 0 .. 2
  BY DEF Wrote, TypeInv, TypeOK
<1>2. ASSUME NEW b, NEW a, McpOnly(p, g, b, a)
      PROVE  disk[changes[p][i].file]
               = IF i <= Wrote(p) THEN changes[p][i].after ELSE changes[p][i].before
  <2>1. Len(changes[p]) = 1 /\ changes[p][1] = Change("mcp", b, a)
    BY <1>2 DEF McpOnly
  <2>2. i = 1
    BY <2>1
  <2> QED
    BY <1>1, <1>2, <2>1, <2>2 DEF McpOnly, Change
<1>3. ASSUME InLifecycle(p, g, c)
      PROVE  disk[changes[p][i].file]
               = IF i <= Wrote(p) THEN changes[p][i].after ELSE changes[p][i].before
  <2> DEFINE h == Change("hook", g["hook"], HookGoal(c, g))
             b == Change("binding", g["binding"], BindingGoal(c, g))
  <2>1. PairWritten(p, h, b)
    BY <1>3 DEF InLifecycle
  <2>2. h.file = "hook" /\ b.file = "binding"
    BY DEF Change
  <2> HIDE DEF h, b
  <2>3. CASE changes[p] = <<h, b>>
    <3>1. /\ disk["hook"] = IF Wrote(p) = 0 THEN h.before ELSE h.after
          /\ disk["binding"] = IF Wrote(p) = 2 THEN b.after ELSE b.before
      BY <2>1, <2>3 DEF PairWritten
    <3>2. i \in {1, 2} /\ changes[p][1] = h /\ changes[p][2] = b
      BY <2>3
    <3> QED
      BY <1>1, <2>2, <3>1, <3>2
  <2>4. CASE changes[p] = <<b>>
    <3>1. disk["binding"] = IF Wrote(p) = 0 THEN b.before ELSE b.after
      BY <2>1, <2>2, <2>4 DEF PairWritten
    <3>2. i = 1 /\ changes[p][1] = b
      BY <2>4
    <3> QED
      BY <1>1, <2>2, <3>1, <3>2
  <2>5. CASE changes[p] = <<h>>
    <3>1. disk["hook"] = IF Wrote(p) = 0 THEN h.before ELSE h.after
      BY <2>1, <2>2, <2>5 DEF PairWritten
    <3>2. i = 1 /\ changes[p][1] = h
      BY <2>5
    <3> QED
      BY <1>1, <2>2, <3>1, <3>2
  <2> QED
    BY <2>1, <2>3, <2>4, <2>5 DEF PairWritten
<1>4. job[p] \in Job
  BY DEF TypeInv, TypeOK
<1> QED
  BY <1>2, <1>3, <1>4 DEF AloneAt, Job, InConnect, InCleanup, InRestore

(* A transaction goes on: its files are again as its changes say.           *)
LEMMA PlanStays ==
  ASSUME TypeInv, NEW p \in Proc, NEW g \in Disks, NEW c, AloneAt(p, g, c),
         pc[p] \in Planned, pc'[p] \in Planned,
         job'[p] = job[p], changes'[p] = changes[p], moved'[p] = moved[p], owned'[p] = owned[p],
         NEW n \in 0 .. 2, n = Wrote(p)', n <= Len(changes[p]),
         \A i \in 1 .. Len(changes[p]) :
           disk'[changes[p][i].file] = IF i <= n THEN changes[p][i].after
                                       ELSE changes[p][i].before,
         \A f \in File : (\A i \in 1 .. Len(changes[p]) : changes[p][i].file # f)
                           => disk'[f] = disk[f]
  PROVE  AloneAt(p, g, c)'
<1>1. Grounded(p, g, c)'
  BY DEF AloneAt, Grounded
<1>2. ASSUME NEW b, NEW a, McpOnly(p, g, b, a)
      PROVE  McpOnly(p, g, b, a)'
  <2>1. Len(changes[p]) = 1 /\ changes[p][1] = Change("mcp", b, a)
    BY <1>2 DEF McpOnly
  <2>2. /\ changes[p][1].file = "mcp" /\ changes[p][1].before = b /\ changes[p][1].after = a
        /\ 1 \in 1 .. Len(changes[p])
    BY <2>1 DEF Change
  <2>3. disk'["mcp"] = IF n = 0 THEN b ELSE a
    BY <2>2
  <2>4. disk'["hook"] = disk["hook"] /\ disk'["binding"] = disk["binding"]
    <3>1. \A i \in 1 .. Len(changes[p]) : changes[p][i].file = "mcp"
      BY <2>1, <2>2
    <3> QED
      BY <3>1 DEF File
  <2> QED
    BY <1>2, <2>3, <2>4 DEF McpOnly, PairIsGround
<1>3. ASSUME InLifecycle(p, g, c)
      PROVE  InLifecycle(p, g, c)'
  <2> DEFINE h == Change("hook", g["hook"], HookGoal(c, g))
             b == Change("binding", g["binding"], BindingGoal(c, g))
  <2>1. PairWritten(p, h, b) /\ MovedTo(p, g, McpGoal(c, g)) /\ disk["mcp"] = McpGoal(c, g)
    BY <1>3 DEF InLifecycle
  <2>2. h.file = "hook" /\ b.file = "binding"
    BY DEF Change
  <2>f. {"mcp", "hook", "binding"} \subseteq File
    BY DEF File
  <2> HIDE DEF h, b
  <2>3. changes[p] \in {<<h, b>>, <<b>>, <<h>>}
    BY <2>1 DEF PairWritten
  <2>4. PairWritten(p, h, b)'
    <3>1. CASE changes[p] = <<h, b>>
      <4>1. Len(changes[p]) = 2 /\ changes[p][1] = h /\ changes[p][2] = b
        BY <3>1
      <4>2. /\ disk'["hook"] = IF n = 0 THEN h.before ELSE h.after
            /\ disk'["binding"] = IF n = 2 THEN b.after ELSE b.before
        BY <2>2, <4>1
      <4> QED
        BY <3>1, <4>2 DEF PairWritten
    <3>2. CASE changes[p] = <<b>>
      <4>1. Len(changes[p]) = 1 /\ changes[p][1] = b
        BY <3>2
      <4>2. disk'["binding"] = IF n = 0 THEN b.before ELSE b.after
        BY <2>2, <4>1
      <4>3. h.before = h.after /\ disk["hook"] = h.before
        BY <2>1, <2>2, <3>2 DEF PairWritten
      <4>4. disk'["hook"] = disk["hook"]
        BY <2>2, <2>f, <4>1
      <4> QED
        BY <3>2, <4>2, <4>3, <4>4 DEF PairWritten
    <3>3. CASE changes[p] = <<h>>
      <4>1. Len(changes[p]) = 1 /\ changes[p][1] = h
        BY <3>3
      <4>2. disk'["hook"] = IF n = 0 THEN h.before ELSE h.after
        BY <2>2, <4>1
      <4>3. b.before = b.after /\ disk["binding"] = b.before
        BY <2>1, <2>2, <3>3 DEF PairWritten
      <4>4. disk'["binding"] = disk["binding"]
        BY <2>2, <2>f, <4>1
      <4> QED
        BY <3>3, <4>2, <4>3, <4>4 DEF PairWritten
    <3> QED
      BY <2>3, <3>1, <3>2, <3>3
  <2>5. disk'["mcp"] = disk["mcp"]
    <3>1. \A i \in 1 .. Len(changes[p]) : changes[p][i].file # "mcp"
      BY <2>2, <2>3
    <3> QED
      BY <2>f, <3>1
  <2>6. MovedTo(p, g, McpGoal(c, g))'
    BY <2>1 DEF MovedTo
  <2> QED
    BY <2>1, <2>4, <2>5, <2>6 DEF InLifecycle, h, b
<1>4. job[p] \in Job
  BY DEF TypeInv, TypeOK
<1>5. CASE job[p] = "connect"
  <2>1. InConnect(p, g, c)'
    BY <1>2, <1>5 DEF AloneAt, InConnect
  <2> QED
    BY <1>1, <1>5, <2>1, AlonePlace
<1>6. CASE job[p] = "cleanup"
  <2>1. InCleanup(p, g, c)'
    BY <1>2, <1>6 DEF AloneAt, InCleanup, MovedTo
  <2> QED
    BY <1>1, <1>6, <2>1, AlonePlace
<1>7. CASE job[p] = "lifecycle"
  <2>1. InLifecycle(p, g, c)'
    BY <1>3, <1>7 DEF AloneAt
  <2> QED
    BY <1>1, <1>7, <2>1, AlonePlace
<1>8. CASE job[p] = "restore"
  <2>1. PICK m : m = moved[p].after
    OBVIOUS
  <2>2. McpOnly(p, g, m, g["mcp"])'
    BY <1>2, <1>8, <2>1 DEF AloneAt, InRestore
  <2>3. InRestore(p, g)'
    BY <2>1, <2>2 DEF InRestore, McpOnly
  <2> QED
    BY <1>1, <1>8, <2>3, AlonePlace
<1> QED
  BY <1>4, <1>5, <1>6, <1>7, <1>8 DEF Job

LEMMA CompareAlone ==
  ASSUME TypeInv, NEW p \in Proc, NEW g \in Disks, NEW c, AloneAt(p, g, c), Compare(p)
  PROVE  AloneAt(p, g, c)'
<1>1. /\ pc[p] = "compare" /\ pc'[p] = "write" /\ done'[p] = 0
      /\ UNCHANGED <<disk, job, changes, moved, owned>>
  BY DEF Compare, At, Goto, TypeInv, TypeOK
<1>2. pc[p] \in Planned /\ pc'[p] \in Planned /\ Wrote(p) = 0 /\ Wrote(p)' = 0
  BY <1>1 DEF Planned, InTransaction, Wrote
<1>3. Len(changes[p]) \in Nat
  BY DEF TypeInv, TypeOK, Changes
<1>4. \A i \in 1 .. Len(changes[p]) : disk[changes[p][i].file] = changes[p][i].before
  BY <1>2, <1>3, AloneFiles
<1> QED
  BY <1>1, <1>2, <1>3, <1>4, PlanStays

(* A command that is alone meets no conflict. *)
LEMMA NoConflict ==
  ASSUME TypeInv, NEW p \in Proc, NEW g \in Disks, NEW c, AloneAt(p, g, c)
  PROVE  ~ Conflict(p) /\ ~ VerifyFails(p)
<1>1. Len(changes[p]) \in Nat /\ DOMAIN changes[p] = 1 .. Len(changes[p])
  BY DEF TypeInv, TypeOK, Changes
<1>2. ASSUME Conflict(p) PROVE FALSE
  <2>1. pc[p] = "compare" /\ ~ AsRead(p) /\ pc[p] \in Planned /\ Wrote(p) = 0
    BY <1>2 DEF Conflict, At, Planned, Wrote
  <2>2. \A i \in 1 .. Len(changes[p]) : disk[changes[p][i].file] = changes[p][i].before
    BY <1>1, <2>1, AloneFiles
  <2> QED
    BY <1>1, <2>1, <2>2 DEF AsRead, Same
<1>3. ASSUME VerifyFails(p) PROVE FALSE
  <2>1. pc[p] = "verify" /\ ~ AsWritten(p) /\ pc[p] \in Planned
    BY <1>3 DEF VerifyFails, At, Planned, InTransaction
  <2>2. Wrote(p) = Len(changes[p])
    BY <2>1 DEF Wrote, TypeInv, ProcInv
  <2>3. \A i \in 1 .. Len(changes[p]) : disk[changes[p][i].file] = changes[p][i].after
    BY <1>1, <2>1, <2>2, AloneFiles
  <2> QED
    BY <1>1, <2>1, <2>3 DEF AsWritten, Same
<1> QED
  BY <1>2, <1>3

(* One of the changes is made, or taken back. *)
LEMMA WriteAlone ==
  ASSUME TypeInv, KeepInv, NEW p \in Proc, NEW g \in Disks, NEW c, AloneAt(p, g, c), Write(p)
  PROVE  AloneAt(p, g, c)'
<1> DEFINE i == done[p] + 1
           cs == changes[p]
<1>1. /\ pc[p] = "write" /\ pc[p] \in Planned /\ Wrote(p) = done[p]
      /\ Put(p, cs[i].file, cs[i].after)
      /\ UNCHANGED <<job, changes, moved, owned>>
  BY DEF Write, At, Planned, InTransaction, Wrote
<1>2. i \in 1 .. Len(cs) /\ done[p] \in 0 .. 2 /\ Len(cs) \in {1, 2}
  BY <1>1, NextChange, PlanParts DEF TypeInv, TypeOK
<1>3. done'[p] = i /\ pc'[p] \in {"write", "verify"}
  BY DEF Write, Goto, TypeInv, TypeOK
<1>4. pc'[p] \in Planned /\ Wrote(p)' = i
  BY <1>3 DEF Planned, InTransaction, Wrote
<1>5. \A k \in 1 .. Len(cs) : /\ cs[k].file \in File /\ cs[k].after \in MayHold(cs[k].file)
                              /\ cs[k].file = cs[i].file => k = i
  BY <1>1, <1>2, PlanParts DEF KeepInv, Keep, Keeps
<1>6. \A f \in File : disk'[f] = IF f = cs[i].file THEN cs[i].after ELSE disk[f]
  <2> HIDE DEF i, cs
  <2>1. TypeOK /\ cs[i].file \in File /\ cs[i].after \in MayHold(cs[i].file)
    BY <1>2, <1>5 DEF TypeInv
  <2> QED
    BY <1>1, <2>1, PutType
<1>7. \A k \in 1 .. Len(cs) : disk[cs[k].file] = IF k <= done[p] THEN cs[k].after ELSE cs[k].before
  BY <1>1, <1>2, AloneFiles
<1>8. \A k \in 1 .. Len(cs) : disk'[cs[k].file] = IF k <= i THEN cs[k].after ELSE cs[k].before
  <2> SUFFICES ASSUME NEW k \in 1 .. Len(cs)
               PROVE  disk'[cs[k].file] = IF k <= i THEN cs[k].after ELSE cs[k].before
    OBVIOUS
  <2>1. CASE k = i
    BY <1>2, <1>5, <1>6, <2>1
  <2>2. CASE k # i
    <3>1. disk'[cs[k].file] = disk[cs[k].file]
      BY <1>5, <1>6, <2>2
    <3>2. k <= i <=> k <= done[p]
      BY <1>2, <2>2
    <3> QED
      BY <1>7, <3>1, <3>2
  <2> QED
    BY <2>1, <2>2
<1>9. \A f \in File : (\A k \in 1 .. Len(cs) : cs[k].file # f) => disk'[f] = disk[f]
  BY <1>2, <1>6
<1>10. i \in 0 .. 2 /\ i <= Len(cs)
  <2>1. CASE Len(cs) = 1
    BY <1>2, <2>1
  <2>2. CASE Len(cs) = 2
    BY <1>2, <2>2
  <2> QED
    BY <1>2, <2>1, <2>2
<1> HIDE DEF i
<1>11. PICK n \in 0 .. 2 : n = i
  BY <1>10
<1> QED
  BY <1>1, <1>4, <1>8, <1>9, <1>10, <1>11, PlanStays

LEMMA UndoAlone ==
  ASSUME TypeInv, KeepInv, NEW p \in Proc, NEW g \in Disks, NEW c, AloneAt(p, g, c), Undo(p)
  PROVE  AloneAt(p, g, c)'
<1> DEFINE i == done[p]
           cs == changes[p]
<1>1. /\ pc[p] = "undo" /\ pc[p] \in Planned /\ Wrote(p) = i /\ i > 0
      /\ Put(p, cs[i].file, cs[i].before)
      /\ UNCHANGED <<pc, job, changes, moved, owned>>
  BY DEF Undo, At, Planned, InTransaction, Wrote
<1>2. i \in 1 .. Len(cs) /\ i \in 0 .. 2 /\ Len(cs) \in {1, 2}
  BY <1>1, LastChange, PlanParts DEF TypeInv, TypeOK
<1>3. done'[p] = i - 1
  BY DEF Undo, TypeInv, TypeOK
<1>4. pc'[p] \in Planned /\ Wrote(p)' = i - 1
  BY <1>1, <1>3 DEF Wrote
<1>5. \A k \in 1 .. Len(cs) : /\ cs[k].file \in File /\ cs[k].before \in MayHold(cs[k].file)
                              /\ cs[k].file = cs[i].file => k = i
  BY <1>1, <1>2, PlanParts DEF KeepInv, Keep, Keeps
<1>6. \A f \in File : disk'[f] = IF f = cs[i].file THEN cs[i].before ELSE disk[f]
  <2> HIDE DEF i, cs
  <2>1. TypeOK /\ cs[i].file \in File /\ cs[i].before \in MayHold(cs[i].file)
    BY <1>2, <1>5 DEF TypeInv
  <2>2. Put(p, cs[i].file, cs[i].before)
    BY <1>1
  <2>3. PICK f \in File : f = cs[i].file
    BY <2>1
  <2>4. PICK old \in MayHold(f) : old = cs[i].before
    BY <2>1, <2>3
  <2>5. Put(p, f, old)
    BY <2>2, <2>3, <2>4
  <2>6. TypeOK
    BY DEF TypeInv
  <2>7. \A e \in File : disk'[e] = IF e = f THEN old ELSE disk[e]
    BY <2>5, <2>6, PutType
  <2> QED
    BY <2>3, <2>4, <2>7
<1>7. \A k \in 1 .. Len(cs) : disk[cs[k].file] = IF k <= i THEN cs[k].after ELSE cs[k].before
  BY <1>1, <1>2, AloneFiles
<1>8. \A k \in 1 .. Len(cs) :
        disk'[cs[k].file] = IF k <= i - 1 THEN cs[k].after ELSE cs[k].before
  <2> SUFFICES ASSUME NEW k \in 1 .. Len(cs)
               PROVE  disk'[cs[k].file] = IF k <= i - 1 THEN cs[k].after ELSE cs[k].before
    OBVIOUS
  <2>1. CASE k = i
    <3>1. cs[k].file \in File /\ disk'[cs[k].file] = cs[k].before
      BY <1>5, <1>6, <2>1
    <3>2. ~ (k <= i - 1)
      BY <1>2, <2>1
    <3> QED
      BY <3>1, <3>2
  <2>2. CASE k # i
    <3>1. disk'[cs[k].file] = disk[cs[k].file]
      BY <1>5, <1>6, <2>2
    <3>2. k <= i <=> k <= i - 1
      BY <1>2, <2>2
    <3> QED
      BY <1>7, <3>1, <3>2
  <2> QED
    BY <2>1, <2>2
<1>9. \A f \in File : (\A k \in 1 .. Len(cs) : cs[k].file # f) => disk'[f] = disk[f]
  BY <1>2, <1>6
<1>10. i - 1 \in 0 .. 2 /\ i - 1 <= Len(cs)
  BY <1>2
<1> HIDE DEF i
<1>11. PICK n \in 0 .. 2 : n = i - 1
  BY <1>10
<1> QED
  BY <1>1, <1>4, <1>8, <1>9, <1>10, <1>11, PlanStays

(* A transaction that has written nothing, or taken all of it back, fails.  *)
LEMMA GiveUpAlone ==
  ASSUME TypeInv, NEW p \in Proc, NEW g \in Disks, NEW c, AloneAt(p, g, c),
         pc[p] \in Planned, job[p] # "restore", Wrote(p) = 0, Fail(p),
         UNCHANGED <<disk, moved, owned>>
  PROVE  AloneAt(p, g, c)'
<1>1. Grounded(p, g, c)
  BY DEF AloneAt
<1>2. CASE job[p] = "connect"
  BY <1>1, <1>2, FailAlone DEF AloneAt, InConnect, McpOnly
<1>3. CASE job[p] = "cleanup"
  BY <1>1, <1>3, FailAlone DEF AloneAt, InCleanup, McpOnly, MovedTo
<1>4. CASE job[p] = "lifecycle"
  <2> DEFINE h == Change("hook", g["hook"], HookGoal(c, g))
             b == Change("binding", g["binding"], BindingGoal(c, g))
  <2>1. /\ MovedTo(p, g, McpGoal(c, g)) /\ disk["mcp"] = McpGoal(c, g)
        /\ PairWritten(p, h, b)
    BY <1>4 DEF AloneAt, InLifecycle
  <2>2. h.before = g["hook"] /\ b.before = g["binding"]
    BY DEF Change
  <2> HIDE DEF h, b
  <2>3. PairIsGround(g)
    BY <2>1, <2>2 DEF PairWritten, PairIsGround
  <2> QED
    BY <1>1, <2>1, <2>3, FailAlone DEF MovedTo
<1> QED
  BY <1>2, <1>3, <1>4 DEF TypeInv, TypeOK, Job

LEMMA WriteFailsAlone ==
  ASSUME TypeInv, NEW p \in Proc, NEW g \in Disks, NEW c, AloneAt(p, g, c), WriteFails(p)
  PROVE  AloneAt(p, g, c)'
<1>1. /\ pc[p] = "write" /\ pc[p] \in Planned /\ Wrote(p) = done[p]
      /\ UNCHANGED <<disk, moved, owned>> /\ Unwind(p)
  BY DEF WriteFails, At, Planned, InTransaction, Wrote
<1>2. done[p] \in 0 .. 2 /\ done[p] < Len(changes[p]) /\ Len(changes[p]) \in {1, 2}
  BY <1>1 DEF TypeInv, TypeOK, ProcInv, PlanOK
<1>3. CASE job[p] = "connect"
  <2>1. Fail(p)
    BY <1>1, <1>3 DEF Unwind
  <2>2. Len(changes[p]) = 1
    BY <1>1, <1>3 DEF AloneAt, InConnect, McpOnly
  <2>3. Wrote(p) = 0
    BY <1>1, <1>2, <2>2
  <2> QED
    BY <1>1, <1>3, <2>1, <2>3, GiveUpAlone
<1>4. CASE job[p] # "connect"
  <2>1. pc'[p] = "undo" /\ UNCHANGED <<done, job, changes>>
    BY <1>1, <1>4 DEF Unwind, Goto, TypeInv, TypeOK
  <2>2. pc'[p] \in Planned /\ Wrote(p)' = done[p]
    BY <2>1 DEF Planned, InTransaction, Wrote
  <2>3. PICK n \in 0 .. 2 : n = done[p]
    BY <1>2
  <2>4. n <= Len(changes[p])
    BY <1>2, <2>3
  <2>5. \A i \in 1 .. Len(changes[p]) :
          disk'[changes[p][i].file] = IF i <= n THEN changes[p][i].after
                                      ELSE changes[p][i].before
    BY <1>1, <2>3, <2>4, AloneFiles
  <2> QED
    BY <1>1, <2>1, <2>2, <2>3, <2>4, <2>5, PlanStays
<1> QED
  BY <1>3, <1>4

LEMMA UndoneAlone ==
  ASSUME TypeInv, NEW p \in Proc, NEW g \in Disks, NEW c, AloneAt(p, g, c), Undone(p)
  PROVE  AloneAt(p, g, c)'
<1>1. /\ pc[p] = "undo" /\ pc[p] \in Planned /\ Wrote(p) = 0
      /\ UNCHANGED <<disk, moved, owned>> /\ Abandon(p)
  BY DEF Undone, At, Planned, InTransaction, Wrote
<1>2. CASE job[p] = "restore"
  <2>1. pc'[p] = "unrestored"
    BY <1>1, <1>2 DEF Abandon, Goto, TypeInv, TypeOK
  <2>2. Grounded(p, g, c)'
    BY <1>1 DEF AloneAt, Grounded
  <2> QED
    BY <2>1, <2>2, AlonePlace
<1>3. CASE job[p] # "restore"
  BY <1>1, <1>3, GiveUpAlone DEF Abandon
<1> QED
  BY <1>2, <1>3

(* Everything is written: the files are as the transaction wanted them.     *)
LEMMA VerifyAlone ==
  ASSUME TypeInv, NEW p \in Proc, NEW g \in Disks, NEW c \in Command, AloneAt(p, g, c),
         Verify(p)
  PROVE  AloneAt(p, g, c)'
<1>1. /\ pc[p] = "verify" /\ pc[p] \in Planned /\ UNCHANGED <<disk, owned>>
      /\ Grounded(p, g, c)
  BY DEF Verify, At, Planned, InTransaction, AloneAt
<1>2. Wrote(p) = Len(changes[p])
  BY <1>1 DEF Wrote, TypeInv, ProcInv
<1>3. Grounded(p, g, c)'
  BY <1>1 DEF Grounded
<1>4. ASSUME NEW b, NEW a, McpOnly(p, g, b, a) PROVE disk["mcp"] = a /\ PairIsGround(g)
  BY <1>2, <1>4 DEF McpOnly
<1>5. CASE job[p] = "connect"
  <2>1. /\ InConnect(p, g, c) /\ moved[p].after = McpNew(c, g)
        /\ disk["mcp"] = McpNew(c, g) /\ PairIsGround(g)
    BY <1>1, <1>4, <1>5 DEF AloneAt, InConnect
  <2> DEFINE move == [before |-> moved[p].before, after |-> moved[p].after, mutated |-> TRUE]
  <2>2. moved' = [moved EXCEPT ![p] = move] /\ AfterMcp(p, moved[p].after)
    BY <1>5, Zenon DEF Verify
  <2>3. moved'[p] = move
    BY <2>2 DEF TypeInv, TypeOK
  <2>4. MovedTo(p, g, McpNew(c, g))'
    BY <2>1, <2>3 DEF MovedTo, InConnect
  <2> QED
    BY <1>1, <2>1, <2>2, <2>4, AfterMcpAlone
<1>6. CASE job[p] = "cleanup"
  <2>1. /\ MovedTo(p, g, McpNew(c, g)) /\ Emptied(c, g)
        /\ disk["mcp"] = NoFile /\ PairIsGround(g)
    BY <1>1, <1>4, <1>6 DEF AloneAt, InCleanup
  <2> DEFINE move == [before |-> moved[p].before, after |-> NoFile, mutated |-> TRUE]
  <2>2. moved' = [moved EXCEPT ![p] = move] /\ Goto(p, "hook")
    BY <1>6, Zenon DEF Verify
  <2>3. moved'[p] = move /\ pc'[p] = "hook"
    BY <2>2 DEF Goto, TypeInv, TypeOK
  <2>4. McpGoal(c, g) = NoFile
    BY <2>1 DEF McpGoal
  <2>5. AtHook(p, g, c)'
    BY <1>1, <2>1, <2>3, <2>4 DEF AtHook, MovedTo, PairIsGround, At
  <2> QED
    BY <1>3, <2>3, <2>5, AlonePlace
<1>7. CASE job[p] = "lifecycle"
  <2> DEFINE h == Change("hook", g["hook"], HookGoal(c, g))
             b == Change("binding", g["binding"], BindingGoal(c, g))
  <2>1. pc'[p] = "success"
    BY <1>7 DEF Verify, Goto, TypeInv, TypeOK
  <2>2. disk["mcp"] = McpGoal(c, g) /\ PairWritten(p, h, b)
    BY <1>1, <1>7 DEF AloneAt, InLifecycle
  <2>3. h.after = HookGoal(c, g) /\ b.after = BindingGoal(c, g)
    BY DEF Change
  <2> HIDE DEF h, b
  <2>4. disk["hook"] = h.after /\ disk["binding"] = b.after
    <3>1. CASE changes[p] = <<h, b>>
      <4>1. Wrote(p) = 2
        BY <1>2, <3>1
      <4> QED
        BY <2>2, <3>1, <4>1 DEF PairWritten
    <3>2. CASE changes[p] # <<h, b>>
      <4>1. changes[p] \in {<<h>>, <<b>>}
        BY <2>2, <3>2 DEF PairWritten
      <4>2. Wrote(p) = 1
        BY <1>2, <4>1
      <4> QED
        BY <2>2, <3>2, <4>2 DEF PairWritten
    <3> QED
      BY <3>1, <3>2
  <2>5. disk = Goal(c, g)
    BY <1>1, <2>2, <2>3, <2>4, GoalIs, DiskIs DEF Grounded, TypeInv, TypeOK
  <2> QED
    BY <1>1, <1>3, <2>1, <2>5, AlonePlace
<1>8. CASE job[p] = "restore"
  <2>1. pc'[p] = "failure"
    BY <1>8 DEF Verify, Goto, TypeInv, TypeOK
  <2>2. disk["mcp"] = g["mcp"] /\ PairIsGround(g)
    BY <1>1, <1>4, <1>8 DEF AloneAt, InRestore
  <2>3. disk = g
    BY <2>2, DiskIs DEF PairIsGround, Disks, TypeInv, TypeOK
  <2> QED
    BY <1>1, <1>3, <2>1, <2>3, AlonePlace
<1> QED
  BY <1>5, <1>6, <1>7, <1>8 DEF TypeInv, TypeOK, Job
-----------------------------------------------------------------------------
(* All or nothing *)

LEMMA OwnAlone ==
  ASSUME TypeInv, KeepInv, NEW p \in Proc, NEW g \in Disks, NEW c \in Command, c = cmd[p],
         AloneAt(p, g, c), CommandStep(p) \/ Die(p), ~ torn', pc[p] # "idle", pc'[p] # "idle"
  PROVE  AloneAt(p, g, c)'
<1>1. ~ Begin(p) /\ ~ Exit(p) /\ ~ Die(p)
  BY DEF Begin, Exit, Die, Forget, At, Goto, TypeInv, TypeOK
<1>2. ~ SyncFails(p) /\ ~ UndoFails(p)
  BY DEF SyncFails, UndoFails
<1>3. ~ Conflict(p) /\ ~ VerifyFails(p)
  BY NoConflict
<1>4. \/ ReadMcp(p) \/ ReadHook(p) \/ ReadBinding(p) \/ Compare(p) \/ Write(p)
      \/ WriteFails(p) \/ Verify(p) \/ Undo(p) \/ Undone(p)
  BY <1>1, <1>2, <1>3 DEF CommandStep
<1> QED
  BY <1>4, ReadMcpAlone, ReadHookAlone, ReadBindingAlone, CompareAlone, WriteAlone,
     WriteFailsAlone, VerifyAlone, UndoAlone, UndoneAlone

(* A command begins alone. *)
LEMMA BeginAlone ==
  ASSUME TypeInv, PlainInv, AloneInv, NEW p \in Proc, NEW g \in Disks, NEW c, Begin(p),
         g = ground'[p], c = cmd'[p]
  PROVE  AloneAt(p, g, c)'
<1>1. /\ pc'[p] = "mcp" /\ disk' = disk /\ ground'[p] = disk
      /\ Accepted(disk["hook"], disk["binding"])
  BY DEF Begin, Goto, TypeInv, TypeOK, AloneInv
<1>2. Created(disk["hook"]) = {}
  BY DEF PlainInv
<1>3. owned'[p] = OwnerOfMcp(c, g)
  <2>1. PICK x \in Command : /\ cmd' = [cmd EXCEPT ![p] = x]
                             /\ owned' = [owned EXCEPT ![p] = x.kind = "disconnect"
                                             /\ "mcp" \in Created(disk["binding"])]
    BY Zenon DEF Begin
  <2>2. x = c
    BY <2>1 DEF TypeInv, TypeOK
  <2>3. owned' = [owned EXCEPT ![p] = OwnerOfMcp(x, disk)]
    BY <2>1 DEF OwnerOfMcp
  <2>4. owned'[p] = OwnerOfMcp(x, disk)
    BY <2>3 DEF TypeInv, TypeOK
  <2> QED
    BY <1>1, <2>2, <2>4
<1>4. Grounded(p, g, c)'
  BY <1>1, <1>2, <1>3 DEF Grounded
<1> QED
  BY <1>1, <1>4, AlonePlace

(* The steps of others and the ground of a command: it stays as it was, and *)
(* the files with it, or it is lost.                                        *)
LEMMA GroundStep ==
  ASSUME TypeInv, ground \in [Proc -> Disks \cup {Touched}], NEW p \in Proc,
         CommandStep(p) \/ Die(p)
  PROVE  /\ ground' \in [Proc -> Disks \cup {Touched}]
         /\ \A q \in Proc \ {p} : ground'[q] # Touched => ground'[q] = ground[q] /\ disk' = disk
         /\ ~ Begin(p) => ground'[p] \in {ground[p], Touched}
         /\ torn => torn'
<1>1. CASE Begin(p)
  <2>1. ground' = [ground EXCEPT ![p] = disk] /\ disk' = disk /\ torn' = torn
    BY <1>1 DEF Begin
  <2>2. disk \in Disks
    BY DEF Disks, TypeInv, TypeOK
  <2> QED
    BY <1>1, <2>1, <2>2
<1>2. CASE Exit(p) \/ Die(p)
  <2>1. ground' = [ground EXCEPT ![p] = Touched] /\ disk' = disk
    BY <1>2 DEF Exit, Die, Forget
  <2>2. ASSUME torn PROVE torn'
    <3>1. torn' = torn \/ torn' = (torn \/ Halfway(p))
      BY <1>2, Zenon DEF Exit, Die
    <3> QED
      BY <2>2, <3>1, Zenon
  <2> QED
    BY <1>2, <2>1, <2>2 DEF Begin, Exit, Die, At
<1>3. CASE Write(p) \/ SyncFails(p) \/ Undo(p)
  <2>1. PICK f, v : Put(p, f, v)
    BY <1>3 DEF Write, SyncFails, Undo
  <2>2. ground' = [q \in Proc |-> IF q = p \/ disk' = disk THEN ground[q] ELSE Touched]
    BY <2>1 DEF Put
  <2>3. torn => torn'
    BY <1>3 DEF Write, SyncFails, Undo
  <2> QED
    BY <2>2, <2>3
<1>4. CASE \/ ReadMcp(p) \/ ReadHook(p) \/ ReadBinding(p) \/ Compare(p) \/ Conflict(p)
           \/ WriteFails(p) \/ Verify(p) \/ VerifyFails(p) \/ Undone(p) \/ UndoFails(p)
  <2>1. disk' = disk /\ ground' = ground
    BY <1>4 DEF ReadMcp, ReadHook, ReadBinding, Compare, Conflict, WriteFails, Verify,
                VerifyFails, Undone, UndoFails, history
  <2>2. ASSUME torn PROVE torn'
    <3>1. torn' = torn \/ torn' = TRUE
      BY <1>4, Zenon DEF ReadMcp, ReadHook, ReadBinding, Compare, Conflict, WriteFails, Verify,
                         VerifyFails, Undone, UndoFails, history
    <3> QED
      BY <2>2, <3>1, Zenon
  <2> QED
    BY <2>1, <2>2
<1> QED
  BY <1>1, <1>2, <1>3, <1>4 DEF CommandStep

(* A command stays the same until the process is idle again.                *)
LEMMA CommandKept ==
  ASSUME TypeInv, NEW p \in Proc, CommandStep(p) \/ Die(p), ~ Begin(p), pc'[p] # "idle"
  PROVE  pc[p] # "idle" /\ cmd' = cmd
<1>1. ~ Exit(p) /\ ~ Die(p)
  BY DEF Exit, Die, Forget, Goto, TypeInv, TypeOK
<1>2. \/ ReadMcp(p) \/ ReadHook(p) \/ ReadBinding(p) \/ Compare(p) \/ Conflict(p) \/ Write(p)
      \/ WriteFails(p) \/ SyncFails(p) \/ Verify(p) \/ VerifyFails(p) \/ Undo(p) \/ Undone(p)
      \/ UndoFails(p)
  BY <1>1 DEF CommandStep
<1>3. cmd' = cmd
  BY <1>2, Zenon DEF ReadMcp, ReadHook, ReadBinding, Compare, Conflict, Write, WriteFails,
                     SyncFails, Verify, VerifyFails, Undo, Undone, UndoFails
<1>4. \E l \in PC \ {"idle"} : pc[p] = l
  BY <1>2 DEF ReadMcp, ReadHook, ReadBinding, Compare, Conflict, Write, WriteFails,
              SyncFails, Verify, VerifyFails, Undo, Undone, UndoFails, At, PC, InTransaction
<1> QED
  BY <1>3, <1>4

LEMMA AloneFrame ==
  ASSUME NEW p, NEW g, NEW c, AloneAt(p, g, c), disk' = disk, pc'[p] = pc[p],
         job'[p] = job[p], changes'[p] = changes[p], moved'[p] = moved[p],
         seen'[p] = seen[p], owned'[p] = owned[p], done'[p] = done[p]
  PROVE  AloneAt(p, g, c)'
<1>1. Grounded(p, g, c)' /\ (AtHook(p, g, c) => AtHook(p, g, c)')
  BY DEF AloneAt, Grounded, AtHook, MovedTo, PairIsGround, At
<1>2. Wrote(p)' = Wrote(p)
  BY DEF Wrote
<1>3. \A b, a : McpOnly(p, g, b, a) => McpOnly(p, g, b, a)'
  BY <1>2 DEF McpOnly, PairIsGround
<1>4. \A h, b : PairWritten(p, h, b) => PairWritten(p, h, b)'
  BY <1>2 DEF PairWritten
<1>5. InConnect(p, g, c) => InConnect(p, g, c)'
  BY <1>3 DEF InConnect
<1>6. InCleanup(p, g, c) => InCleanup(p, g, c)'
  BY <1>3 DEF InCleanup, MovedTo
<1>7. InLifecycle(p, g, c) => InLifecycle(p, g, c)'
  BY <1>4 DEF InLifecycle, MovedTo
<1>8. InRestore(p, g) => InRestore(p, g)'
  <2>1. PICK m : m = moved[p].after
    OBVIOUS
  <2> QED
    BY <1>3, <2>1 DEF InRestore, McpOnly, PairIsGround
<1> QED
  BY <1>1, <1>5, <1>6, <1>7, <1>8 DEF AloneAt, At

LEMMA StepAlone ==
  ASSUME TypeInv, KeepInv, PlainInv, AloneInv, [Next]_vars
  PROVE  AloneInv'
<1>1. ASSUME NEW p \in Proc, CommandStep(p) \/ Die(p) PROVE AloneInv'
  <2>1. ASSUME ~ torn', NEW q \in Proc, NEW g \in Disks, NEW c \in Command,
               ground'[q] = g, g # Touched, cmd'[q] = c, pc'[q] # "idle"
        PROVE  AloneAt(q, g, c)'
    <3>1. ~ torn
      BY <1>1, <2>1, GroundStep DEF AloneInv
    <3>2. CASE q = p /\ Begin(p)
      BY <2>1, <3>2, BeginAlone
    <3>3. CASE q = p /\ ~ Begin(p)
      <4>1. ground[p] = g
        BY <1>1, <2>1, <3>3, GroundStep DEF AloneInv
      <4>2. pc[p] # "idle" /\ cmd[p] = c
        BY <1>1, <2>1, <3>3, CommandKept
      <4>3. AloneAt(p, g, c)
        BY <2>1, <3>1, <4>1, <4>2 DEF AloneInv
      <4> QED
        BY <1>1, <2>1, <3>3, <4>2, <4>3, OwnAlone
    <3>4. CASE q # p
      <4>1. ground[q] = g /\ disk' = disk
        BY <1>1, <2>1, <3>4, GroundStep DEF AloneInv
      <4>2. /\ pc'[q] = pc[q] /\ job'[q] = job[q] /\ changes'[q] = changes[q]
            /\ moved'[q] = moved[q] /\ seen'[q] = seen[q] /\ owned'[q] = owned[q]
            /\ done'[q] = done[q] /\ cmd'[q] = cmd[q]
        BY <1>1, <3>4, StepOthers, StepMemory
      <4>3. AloneAt(q, g, c)
        BY <2>1, <3>1, <4>1, <4>2 DEF AloneInv
      <4> QED
        BY <4>1, <4>2, <4>3, AloneFrame
    <3> QED
      BY <3>2, <3>3, <3>4
  <2>2. ground' \in [Proc -> Disks \cup {Touched}]
    BY <1>1, GroundStep DEF AloneInv
  <2> QED
    BY <2>1, <2>2 DEF AloneInv
<1>2. ASSUME NEW f \in HostFile, NEW e \in Edit, EditFile(f, e) PROVE AloneInv'
  <2>1. /\ ground' = [q \in Proc |-> IF q = NoProc \/ disk' = disk THEN ground[q] ELSE Touched]
        /\ UNCHANGED <<pc, cmd, job, changes, done, moved, seen, owned, torn>>
    BY <1>2 DEF EditFile, Put
  <2>2. ground' \in [Proc -> Disks \cup {Touched}]
    BY <2>1 DEF AloneInv
  <2>3. ASSUME ~ torn', NEW q \in Proc, NEW g \in Disks, NEW c \in Command,
               ground'[q] = g, g # Touched, cmd'[q] = c, pc'[q] # "idle"
        PROVE  AloneAt(q, g, c)'
    <3>1. q # NoProc
      BY ConnectionAssumption
    <3>2. disk' = disk /\ ground[q] = g
      BY <2>1, <2>3, <3>1
    <3>3. AloneAt(q, g, c)
      BY <2>1, <2>3, <3>2 DEF AloneInv
    <3> QED
      BY <2>1, <3>2, <3>3, AloneFrame
  <2> QED
    BY <2>2, <2>3 DEF AloneInv
<1>3. CASE UNCHANGED vars
  <2>1. UNCHANGED <<disk, pc, cmd, job, changes, done, moved, seen, owned, torn, ground>>
    BY <1>3 DEF vars, history
  <2>2. ASSUME NEW q \in Proc, NEW g \in Disks, NEW c \in Command, AloneAt(q, g, c)
        PROVE  AloneAt(q, g, c)'
    BY <2>1, <2>2, AloneFrame
  <2> QED
    BY <2>1, <2>2 DEF AloneInv
<1> QED
  BY <1>1, <1>2, <1>3 DEF Next

(* For any processes, versions, edits and faults: a command that has the    *)
(* three files to itself changes all of them as it should, or fails and     *)
(* leaves them as it found them, whatever write fails on the way.           *)
THEOREM AllOrNothingHolds == Spec => []AllOrNothing
<1> DEFINE I == TypeInv /\ KeepInv /\ PlainInv /\ AloneInv
<1>1. Init => I
  <2> SUFFICES ASSUME Init PROVE KeepInv /\ PlainInv /\ AloneInv
    BY InitTypeInv
  <2>1. KeepInv
    BY DEF Init, KeepInv, Keep, NoMove, Planned, InTransaction
  <2>2. PlainInv
    BY DEF Init, PlainInv, Planned, InTransaction, At, Created, File
  <2>3. AloneInv
    BY DEF Init, AloneInv
  <2> QED
    BY <2>1, <2>2, <2>3
<1>2. I /\ [Next]_vars => I'
  BY StepTypeInv, StepKeep, StepPlain, StepAlone
<1>3. I => AllOrNothing
  <2> SUFFICES ASSUME I, NEW p \in Proc, ground[p] # Touched, ~ torn,
                      pc[p] \in {"success", "failure"}
               PROVE  /\ pc[p] = "success" => disk = Goal(cmd[p], ground[p])
                      /\ pc[p] = "failure" => disk = ground[p]
    BY DEF AllOrNothing, At
  <2>1. ground[p] \in Disks /\ cmd[p] \in Command
    BY DEF AloneInv, TypeInv, ProcInv
  <2>2. AloneAt(p, ground[p], cmd[p])
    BY <2>1 DEF AloneInv
  <2> QED
    BY <2>2 DEF AloneAt, At
<1> QED
  BY <1>1, <1>2, <1>3, PTL DEF Spec
=============================================================================
