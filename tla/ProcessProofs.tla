---------------------------- MODULE ProcessProofs ---------------------------
(***************************************************************************)
(* Proofs about the process table (ProcessTable.tla), which keeps its      *)
(* invariants for every capacity and every generation width, and about the *)
(* process runtime (ProcessRuntime.tla), for every capacity of the tables  *)
(* and every number of launches that the generations allow: the table and  *)
(* the runtime's current pair stay in step, and an image that does not     *)
(* sleep always comes back.                                                *)
(***************************************************************************)
EXTENDS ProcessRuntime, WellFoundedInduction, TLAPS

-----------------------------------------------------------------------------
(* The tables *)

\* A nonempty set of numbers has a least element, which CHOOSE in FirstFree finds.
LEMMA LeastExists ==
    ASSUME NEW F \in SUBSET Nat, F # {}
    PROVE  \E s \in F : \A x \in F : s <= x
<1> DEFINE R == OpToRel(<, Nat)
<1>1. \E s \in F : \A x \in F : ~ (<<x, s>> \in R)
  <2> HIDE DEF R
  <2>1. IsWellFoundedOn(R, Nat)
    BY Zenon, NatLessThanWellFounded DEF R
  <2> QED
    BY Zenon, <2>1, WFMin
<1>2. PICK s \in F : \A x \in F : ~ (<<x, s>> \in R)
  BY Zenon, <1>1
<1>3. \A x \in F : ~ (x < s)
  <2> TAKE x \in F
  <2>1. <<x, s>> \in Nat \X Nat
    BY Zenon
  <2> QED
    BY Zenon, <1>2, <2>1 DEF OpToRel
<1> QED
  BY <1>3

\* The slot that the creating operations take is one of the free ones.
LEMMA FirstFreeIsFree ==
    ASSUME NEW slots \in SUBSET Nat, NEW used, slots \ used # {}
    PROVE  FirstFree(slots, used) \in slots \ used
BY Zenon, LeastExists DEF FirstFree

-----------------------------------------------------------------------------
(* The inductive invariant *)

IInv == TypeOK /\ TableInv /\ ParentRunning /\ ThreadsOwned /\ ThreadKept

\* The empty tables satisfy the inductive invariant.
LEMMA InitIInv == Init => IInv
BY TableAssumption
   DEF Init, IInv, TypeOK, TableInv, ParentRunning, ThreadsOwned, ThreadKept,
       PSlots, TSlots

\* A step that only changes the descriptors or the pending bits of a process.
LEMMA RecordStep ==
    ASSUME IInv, NEW p \in ProcessId, IsProcess(p), NEW r \in ProcessRecord,
           r.id = processes[p.slot].id, r.parent = processes[p.slot].parent,
           r.state = processes[p.slot].state, r.thread = processes[p.slot].thread,
           processes' = [processes EXCEPT ![p.slot] = r],
           UNCHANGED <<threads, idVars>>
    PROVE  IInv'
<1>1. DOMAIN processes' = DOMAIN processes
  BY Zenon DEF IInv, TypeOK
<1>2. \A s \in DOMAIN processes :
        /\ processes'[s] \in ProcessRecord
        /\ processes'[s].id = processes[s].id
        /\ processes'[s].parent = processes[s].parent
        /\ processes'[s].state = processes[s].state
        /\ processes'[s].thread = processes[s].thread
  BY Zenon DEF IInv, TypeOK
<1>3. TypeOK'
  BY Zenon, <1>1, <1>2 DEF IInv, TypeOK, idVars
<1>4. TableInv'
  BY <1>1, <1>2 DEF IInv, TableInv, ProcessIn, IsProcess, idVars
<1>5. ParentRunning'
  BY <1>1, <1>2 DEF IInv, ParentRunning, ProcessIn, IsProcess, idVars
<1>6. ThreadsOwned'
  BY <1>1, <1>2 DEF IInv, ThreadsOwned, IsProcess, idVars
<1>7. ThreadKept'
  BY <1>1, <1>2 DEF IInv, ThreadKept, IsThread, idVars
<1> QED
  BY Zenon, <1>3, <1>4, <1>5, <1>6, <1>7 DEF IInv

\* A step that only changes the states of threads.
LEMMA ThreadStateStep ==
    ASSUME IInv, UNCHANGED <<processes, idVars>>,
           threads' = [s \in DOMAIN threads |-> threads'[s]],
           \A s \in DOMAIN threads :
              /\ threads'[s] \in ThreadRecord
              /\ threads'[s].id = threads[s].id
              /\ threads'[s].process = threads[s].process
    PROVE  IInv'
<1>1. DOMAIN threads' = DOMAIN threads
  BY Zenon
<1>2. TypeOK'
  BY Zenon, <1>1 DEF IInv, TypeOK, idVars
<1>3. TableInv'
  BY Zenon, <1>1 DEF IInv, TableInv, ProcessIn, IsProcess, idVars
<1>4. ParentRunning'
  BY Zenon DEF IInv, ParentRunning, ProcessIn, IsProcess, idVars
<1>5. ThreadsOwned'
  BY <1>1 DEF IInv, ThreadsOwned, IsProcess, idVars
<1>6. ThreadKept'
  BY <1>1 DEF IInv, ThreadKept, IsThread, idVars
<1> QED
  BY Zenon, <1>2, <1>3, <1>4, <1>5, <1>6 DEF IInv

-----------------------------------------------------------------------------
(* Creation *)

\* The record that spawn_in writes has the type of a process record.
LEMMA NewProcessType ==
    ASSUME NEW p \in ProcessId, NEW parent \in ProcessId \cup {NoPid},
           NEW t \in ThreadId
    PROVE  NewProcess(p, parent, t) \in ProcessRecord
BY Zenon, TableAssumption DEF NewProcess, ProcessRecord, FdSlots

\* spawn_in into a free process slot and a free thread slot: the new process has
\* its thread and a running parent, and nothing else changes.
LEMMA SpawnInStep ==
    ASSUME IInv, NEW ps \in PSlots, ps \notin DOMAIN processes,
           NEW parent, SpawnIn(ps, parent),
           \/ ps = 0 /\ parent = NoPid /\ DOMAIN processes = {}
           \/ ps # 0 /\ ProcessIn(parent, "Running")
    PROVE  IInv'
<1> DEFINE ts == FirstFree(TSlots, DOMAIN threads)
           p == [slot |-> ps, gen |-> processGen[ps]]
           t == [slot |-> ts, gen |-> threadGen[ts]]
<1>1. ts \in TSlots \ DOMAIN threads
  BY FirstFreeIsFree, TableAssumption DEF SpawnIn, TSlots
<1>2. /\ processes' = Occupy(processes, ps, NewProcess(p, parent, t))
      /\ threads' = Occupy(threads, ts, NewThread(t, p))
      /\ UNCHANGED idVars
  BY Zenon DEF SpawnIn
<1>3. p \in ProcessId /\ t \in ThreadId
  BY Zenon, <1>1, TableAssumption DEF IInv, TypeOK, ProcessId, ThreadId
<1>4. parent \in ProcessId \cup {NoPid}
  BY Zenon DEF ProcessIn, IsProcess
<1>5. NewProcess(p, parent, t) \in ProcessRecord
  BY Zenon, <1>3, <1>4, NewProcessType
<1>6. NewThread(t, p) \in ThreadRecord
  BY Zenon, <1>3 DEF NewThread, ThreadRecord
<1> HIDE DEF ts, p, t
<1>7. /\ DOMAIN processes' = DOMAIN processes \cup {ps}
      /\ \A s \in DOMAIN processes : processes'[s] = processes[s]
      /\ processes'[ps] = NewProcess(p, parent, t)
  BY Zenon, <1>2 DEF Occupy
<1>8. /\ DOMAIN threads' = DOMAIN threads \cup {ts}
      /\ \A s \in DOMAIN threads : threads'[s] = threads[s]
      /\ threads'[ts] = NewThread(t, p)
  BY Zenon, <1>1, <1>2 DEF Occupy
<1>9. p.slot = ps /\ p.gen = processGen[ps] /\ t.slot = ts /\ t.gen = threadGen[ts]
  BY Zenon DEF p, t
<1>10. /\ processes'[ps].id = p /\ processes'[ps].parent = parent
       /\ processes'[ps].thread = t /\ processes'[ps].state = "Running"
       /\ threads'[ts].id = t /\ threads'[ts].process = p
  BY <1>7, <1>8 DEF NewProcess, NewThread
<1>11. TypeOK'
  <2>1. /\ processes' = [s \in DOMAIN processes' |-> processes'[s]]
        /\ threads' = [s \in DOMAIN threads' |-> threads'[s]]
    BY Zenon, <1>2 DEF Occupy
  <2> QED
    BY Zenon, <1>1, <1>2, <1>5, <1>6, <1>7, <1>8, <2>1 DEF IInv, TypeOK, idVars
<1>12. TableInv'
  <2>1. \A s \in DOMAIN processes' :
          processes'[s].id = [slot |-> s, gen |-> processGen'[s]]
    BY Zenon, <1>2, <1>7, <1>10 DEF IInv, TableInv, idVars, p
  <2>2. \A s \in DOMAIN threads' :
          threads'[s].id = [slot |-> s, gen |-> threadGen'[s]]
    BY Zenon, <1>2, <1>8, <1>10 DEF IInv, TableInv, idVars, t
  <2>3. ProcessIn(INIT, "Running")'
    <3>1. CASE ps = 0
      BY Zenon, <3>1, <1>2, <1>3, <1>7, <1>10
         DEF ProcessIn, IsProcess, INIT, IInv, TableInv, idVars, p
    <3>2. CASE ps # 0
      <4>1. DOMAIN processes # {}
        BY Zenon, <3>2 DEF ProcessIn, IsProcess
      <4> QED
        BY Zenon, <4>1, <3>2, <1>2, <1>7 DEF ProcessIn, IsProcess, IInv, TableInv, idVars
    <3> QED BY Zenon, <3>1, <3>2
  <2> QED
    BY Zenon, <2>1, <2>2, <2>3, <1>2 DEF IInv, TableInv, idVars
<1>13. ParentRunning'
  <2>1. ASSUME NEW q, ProcessIn(q, "Running")
        PROVE  ProcessIn(q, "Running")'
    BY Zenon, <2>1, <1>2, <1>7 DEF ProcessIn, IsProcess, idVars
  <2>2. ps = 0 => p = INIT
    BY Zenon DEF IInv, TableInv, INIT, p
  <2> QED
    BY Zenon, <2>1, <2>2, <1>7, <1>10 DEF IInv, ParentRunning
<1>14. ThreadsOwned'
  BY <1>2, <1>3, <1>7, <1>8, <1>9, <1>10
     DEF IInv, ThreadsOwned, IsProcess, idVars
<1>15. ThreadKept'
  BY <1>1, <1>2, <1>3, <1>7, <1>8, <1>9, <1>10
     DEF IInv, ThreadKept, IsThread, idVars
<1> QED
  BY Zenon, <1>11, <1>12, <1>13, <1>14, <1>15 DEF IInv

\* create_init is spawn_in without a parent into empty tables.
LEMMA CreateInitStep == ASSUME IInv, CreateInit PROVE IInv'
<1>1. DOMAIN processes = {}
  BY Zenon DEF CreateInit, IInv, TableInv, ProcessIn, IsProcess, INIT
<1>2. 0 \in PSlots
  BY TableAssumption DEF PSlots
<1> QED
  BY Zenon, <1>1, <1>2, SpawnInStep DEF CreateInit

\* spawn_child is spawn_in with a running caller as the parent.
LEMMA SpawnChildStep ==
    ASSUME IInv, NEW parent \in ProcessId, SpawnChild(parent) PROVE IInv'
<1> DEFINE ps == FirstFree(PSlots, DOMAIN processes)
<1>1. ps \in PSlots \ DOMAIN processes
  BY FirstFreeIsFree, TableAssumption DEF SpawnChild, PSlots
<1>2. SpawnIn(ps, parent) /\ ProcessIn(parent, "Running")
  BY Zenon DEF SpawnChild
<1> HIDE DEF ps
<1>3. ps # 0
  BY Zenon, <1>1, <1>2 DEF IInv, TableInv, ProcessIn, IsProcess, INIT
<1> QED
  BY Zenon, <1>1, <1>2, <1>3, SpawnInStep

\* A kernel thread takes a thread slot and belongs to no process.
LEMMA SpawnKernelThreadStep == ASSUME IInv, SpawnKernelThread PROVE IInv'
<1> DEFINE ts == FirstFree(TSlots, DOMAIN threads)
           t == [slot |-> ts, gen |-> threadGen[ts]]
<1>1. ts \in TSlots \ DOMAIN threads
  BY FirstFreeIsFree, TableAssumption DEF SpawnKernelThread, TSlots
<1>2. /\ threads' = Occupy(threads, ts, NewThread(t, NoPid))
      /\ UNCHANGED <<processes, idVars>>
  BY Zenon DEF SpawnKernelThread
<1>3. t \in ThreadId
  BY Zenon, <1>1 DEF IInv, TypeOK, ThreadId
<1>4. NewThread(t, NoPid) \in ThreadRecord
  BY Zenon, <1>3 DEF NewThread, ThreadRecord
<1> HIDE DEF ts, t
<1>5. /\ DOMAIN threads' = DOMAIN threads \cup {ts}
      /\ \A s \in DOMAIN threads : threads'[s] = threads[s]
      /\ threads'[ts] = NewThread(t, NoPid)
      /\ threads' = [s \in DOMAIN threads' |-> threads'[s]]
  BY Zenon, <1>1, <1>2 DEF Occupy
<1>6. threads'[ts].id = t /\ threads'[ts].process = NoPid
  BY <1>5 DEF NewThread
<1>7. TypeOK'
  BY Zenon, <1>1, <1>2, <1>4, <1>5 DEF IInv, TypeOK, idVars
<1>8. TableInv'
  <2>1. t = [slot |-> ts, gen |-> threadGen[ts]]
    BY Zenon DEF t
  <2> QED
    BY <2>1, <1>2, <1>5, <1>6 DEF IInv, TableInv, ProcessIn, IsProcess, idVars
<1>9. ParentRunning'
  BY Zenon, <1>2 DEF IInv, ParentRunning, ProcessIn, IsProcess, idVars
<1>10. ThreadsOwned'
  BY <1>2, <1>5, <1>6 DEF IInv, ThreadsOwned, IsProcess, idVars
<1>11. ThreadKept'
  BY <1>1, <1>2, <1>5 DEF IInv, ThreadKept, IsThread, idVars
<1> QED
  BY Zenon, <1>7, <1>8, <1>9, <1>10, <1>11 DEF IInv

-----------------------------------------------------------------------------
(* Exit and reap *)

\* exit makes a zombie, terminates its thread and gives its children to INIT,
\* which is running.
LEMMA ExitStep == ASSUME IInv, NEW p \in ProcessId, Exit(p) PROVE IInv'
<1>1. /\ DOMAIN threads' = DOMAIN threads
      /\ threads' = [s \in DOMAIN threads' |-> threads'[s]]
      /\ DOMAIN processes' = DOMAIN processes
      /\ processes' = [s \in DOMAIN processes' |-> processes'[s]]
      /\ UNCHANGED idVars
  BY Zenon DEF Exit
<1>2. \A s \in DOMAIN threads :
        /\ threads'[s] \in ThreadRecord
        /\ threads'[s].id = threads[s].id
        /\ threads'[s].process = threads[s].process
  BY Zenon DEF Exit, IInv, TypeOK, ThreadRecord
<1>3. INIT \in ProcessId
  BY TableAssumption DEF INIT, ProcessId, PSlots
<1>4. ASSUME NEW s \in DOMAIN processes
      PROVE  /\ processes'[s] \in ProcessRecord
             /\ processes'[s].id = processes[s].id
             /\ processes'[s].thread = processes[s].thread
             /\ processes'[s].parent =
                  IF processes[s].parent = p THEN INIT ELSE processes[s].parent
             /\ processes'[s].state =
                  IF s = p.slot THEN "Zombie" ELSE processes[s].state
  <2>1. processes[s] \in ProcessRecord
    BY Zenon DEF IInv, TypeOK
  <2>2. [f \in FdSlots |-> "closed"] \in [FdSlots -> {"closed", "open", "cloexec"}]
    BY Zenon
  <2>3. processes'[s] =
          [processes[s] EXCEPT
             !.parent = IF @ = p THEN INIT ELSE @,
             !.state = IF s = p.slot THEN "Zombie" ELSE @,
             !.fds = IF s = p.slot THEN [f \in FdSlots |-> "closed"] ELSE @]
    BY Zenon DEF Exit
  <2> QED
    BY ZenonT(40), <2>1, <2>2, <2>3, <1>3 DEF ProcessRecord
<1>5. TypeOK'
  BY Zenon, <1>1, <1>2, <1>4 DEF IInv, TypeOK, idVars
<1>6. ASSUME NEW q, ProcessIn(q, "Running"), q # p
      PROVE  ProcessIn(q, "Running")'
  <2>1. IsProcess(q) /\ IsProcess(p)
    BY Zenon, <1>6 DEF Exit, ProcessIn
  <2>2. q.slot # p.slot
    BY Zenon, <2>1, <1>6 DEF IsProcess
  <2> QED
    BY Zenon, <2>1, <2>2, <1>1, <1>4, <1>6 DEF ProcessIn, IsProcess, idVars
<1>7. ProcessIn(INIT, "Running")'
  BY Zenon, <1>6 DEF Exit, IInv, TableInv, ProcessIn, IsProcess
<1>8. TableInv'
  BY <1>1, <1>2, <1>4, <1>7 DEF IInv, TableInv, idVars
<1>9. ParentRunning'
  BY Zenon, <1>1, <1>4, <1>6, <1>7 DEF IInv, ParentRunning
<1>10. ThreadsOwned'
  BY <1>1, <1>2, <1>4 DEF IInv, ThreadsOwned, IsProcess, idVars
<1>11. ThreadKept'
  BY <1>1, <1>2, <1>4 DEF IInv, ThreadKept, IsThread, idVars
<1> QED
  BY Zenon, <1>5, <1>8, <1>9, <1>10, <1>11 DEF IInv

\* Reaping a zombie other than INIT: the thread slot goes, and the process
\* slot with it unless the thread slot's generation is used up.
LEMMA ReapStep ==
    ASSUME IInv, NEW z \in DOMAIN processes, processes[z].state = "Zombie", Reap(z)
    PROVE  IInv'
<1> DEFINE t == processes[z].thread
           p == processes[z].id
<1>1. /\ t.slot \in DOMAIN threads
      /\ threads[t.slot].id = t
      /\ threads' = Release(threads, t.slot)
      /\ threadGen' = Bump(threadGen, t.slot)
      /\ retiredT' = retiredT \cup {t}
      /\ \/ /\ threadGen[t.slot] < MaxGen
            /\ processes' = Release(processes, z)
            /\ processGen' = Bump(processGen, z)
            /\ retiredP' = retiredP \cup {p}
         \/ /\ threadGen[t.slot] = MaxGen
            /\ UNCHANGED <<processes, processGen, retiredP>>
  BY Zenon DEF Reap
<1>2. t \in ThreadId /\ p \in ProcessId /\ p = [slot |-> z, gen |-> processGen[z]]
  BY Zenon DEF IInv, TypeOK, TableInv, ProcessRecord
<1>3. t.slot \in TSlots /\ t.gen \in 0 .. MaxGen /\ t.gen = threadGen[t.slot]
  <2>1. threads[t.slot].id = [slot |-> t.slot, gen |-> threadGen[t.slot]]
    BY Zenon, <1>1 DEF IInv, TableInv
  <2> HIDE DEF t
  <2> QED BY <2>1, <1>1, <1>2 DEF ThreadId
<1>4. z # 0
  BY Zenon DEF IInv, TableInv, ProcessIn, IsProcess, INIT
<1>5. z \in PSlots
  BY Zenon DEF IInv, TypeOK
<1> HIDE DEF t, p
<1>6. /\ DOMAIN threads' = DOMAIN threads \ {t.slot}
      /\ \A s \in DOMAIN threads' : threads'[s] = threads[s]
      /\ threads' = [s \in DOMAIN threads' |-> threads'[s]]
  BY Zenon, <1>1 DEF Release
<1>7. /\ threadGen' \in [TSlots -> 0 .. MaxGen]
      /\ \A s \in TSlots : s # t.slot => threadGen'[s] = threadGen[s]
      /\ t.gen < MaxGen => threadGen'[t.slot] = t.gen + 1
      /\ t.gen = MaxGen => threadGen'[t.slot] = t.gen
  BY <1>1, <1>3, TableAssumption DEF Bump, IInv, TypeOK
<1>8. /\ DOMAIN processes' \subseteq DOMAIN processes
      /\ \A s \in DOMAIN processes' : processes'[s] = processes[s]
      /\ processes' = [s \in DOMAIN processes' |-> processes'[s]]
      /\ \A s \in DOMAIN processes : s # z => s \in DOMAIN processes'
      /\ z \in DOMAIN processes' => processes' = processes /\ t.gen = MaxGen
  BY Zenon, <1>1, <1>3 DEF Release, IInv, TypeOK
<1>9. /\ processGen' \in [PSlots -> 0 .. MaxGen]
      /\ \A s \in PSlots : s # z => processGen'[s] = processGen[s]
      /\ z \in DOMAIN processes' => processGen' = processGen
      /\ processGen'[z] = processGen[z] \/ processGen'[z] = processGen[z] + 1
      /\ processGen'[z] = processGen[z] => retiredP' = retiredP \/ processGen[z] = MaxGen
      /\ retiredP' = retiredP \/ retiredP' = retiredP \cup {p}
  <2>1. processGen \in [PSlots -> 0 .. MaxGen]
    BY Zenon DEF IInv, TypeOK
  <2>2. CASE UNCHANGED <<processes, processGen, retiredP>>
    BY Zenon, <2>1, <2>2
  <2>3. CASE /\ processes' = Release(processes, z)
             /\ processGen' = Bump(processGen, z)
             /\ retiredP' = retiredP \cup {p}
    <3>1. z \notin DOMAIN processes'
      BY Zenon, <2>3 DEF Release
    <3> QED
      BY <2>1, <2>3, <3>1, <1>5, TableAssumption DEF Bump
  <2> QED BY Zenon, <1>1, <2>2, <2>3
<1>10. TypeOK'
  BY <1>1, <1>2, <1>6, <1>7, <1>8, <1>9 DEF IInv, TypeOK
<1>11. ASSUME NEW q, ProcessIn(q, "Running")
       PROVE  ProcessIn(q, "Running")'
  <2>1. q.slot # z
    BY Zenon, <1>11 DEF ProcessIn, IsProcess
  <2> QED
    BY Zenon, <2>1, <1>8, <1>9, <1>11 DEF ProcessIn, IsProcess, ProcessId
<1>12. TableInv'
  <2>1. \A s \in DOMAIN processes' :
          processes'[s].id = [slot |-> s, gen |-> processGen'[s]]
    BY <1>8, <1>9 DEF IInv, TypeOK, TableInv
  <2>2. \A s \in DOMAIN threads' :
          threads'[s].id = [slot |-> s, gen |-> threadGen'[s]]
    BY Zenon, <1>6, <1>7 DEF IInv, TypeOK, TableInv
  <2>3. \A q \in retiredP' : q.gen < processGen'[q.slot] \/ q.gen = MaxGen
    <3> SUFFICES ASSUME NEW q \in retiredP'
                 PROVE  q.gen < processGen'[q.slot] \/ q.gen = MaxGen
      BY Zenon
    <3>0. processGen \in [PSlots -> 0 .. MaxGen] /\ retiredP \subseteq ProcessId
      BY Zenon DEF IInv, TypeOK
    <3>1. CASE q \in retiredP
      <4>1. /\ q.slot \in PSlots /\ q.gen \in 0 .. MaxGen
            /\ q.gen < processGen[q.slot] \/ q.gen = MaxGen
        BY Zenon, <3>0, <3>1 DEF ProcessId, IInv, TableInv
      <4> QED
        BY <4>1, <3>0, <1>9, TableAssumption
    <3>2. CASE q = p /\ retiredP' # retiredP
      <4>1. q.slot = z /\ q.gen = processGen[z] /\ processGen[z] \in 0 .. MaxGen
        BY Zenon, <3>0, <3>2, <1>2, <1>5
      <4> QED
        BY <4>1, <3>2, <1>9, TableAssumption
    <3> QED BY Zenon, <3>1, <3>2, <1>9
  <2>4. \A q \in retiredT' : q.gen < threadGen'[q.slot] \/ q.gen = MaxGen
    <3> SUFFICES ASSUME NEW q \in retiredT'
                 PROVE  q.gen < threadGen'[q.slot] \/ q.gen = MaxGen
      BY Zenon
    <3>0. threadGen \in [TSlots -> 0 .. MaxGen] /\ retiredT \subseteq ThreadId
      BY Zenon DEF IInv, TypeOK
    <3>1. CASE q \in retiredT
      <4>1. /\ q.slot \in TSlots /\ q.gen \in 0 .. MaxGen
            /\ q.gen < threadGen[q.slot] \/ q.gen = MaxGen
        BY Zenon, <3>0, <3>1 DEF ThreadId, IInv, TableInv
      <4> QED
        BY <4>1, <3>0, <1>3, <1>7, TableAssumption
    <3>2. CASE q = t
      BY <3>2, <1>3, <1>7, TableAssumption
    <3> QED BY Zenon, <3>1, <3>2, <1>1
  <2>5. processGen'[0] = 0
    BY <1>4, <1>9, TableAssumption DEF IInv, TableInv, PSlots
  <2>6. DOMAIN processes' # {} => ProcessIn(INIT, "Running")'
    BY Zenon, <1>8, <1>11 DEF IInv, TableInv
  <2> QED
    BY Zenon, <2>1, <2>2, <2>3, <2>4, <2>5, <2>6 DEF TableInv
<1>13. ParentRunning'
  BY Zenon, <1>8, <1>11 DEF IInv, ParentRunning
<1>14. ThreadsOwned'
  <2>1. ASSUME NEW s \in DOMAIN threads', NEW o, o = threads'[s].process, o # NoPid
        PROVE  IsProcess(o)' /\ processes'[o.slot].thread = threads'[s].id
    <3>1. s \in DOMAIN threads /\ s # t.slot /\ threads'[s] = threads[s]
      BY Zenon, <1>6
    <3>2. IsProcess(o) /\ processes[o.slot].thread = threads[s].id
      BY Zenon, <2>1, <3>1 DEF IInv, ThreadsOwned
    <3>3. threads[s].id = [slot |-> s, gen |-> threadGen[s]]
      BY Zenon, <3>1 DEF IInv, TableInv
    <3>4. o.slot # z
      BY <3>1, <3>2, <3>3 DEF t
    <3>5. o.slot \in DOMAIN processes /\ o.slot \in PSlots
      BY Zenon, <3>2 DEF IsProcess, ProcessId
    <3> QED
      BY Zenon, <3>1, <3>2, <3>4, <3>5, <1>8, <1>9 DEF IsProcess
  <2> QED
    BY Zenon, <2>1 DEF ThreadsOwned, IsProcess
<1>15. ThreadKept'
  <2>1. ASSUME NEW s \in DOMAIN processes', NEW u, u = processes'[s].thread,
               u.gen < MaxGen
        PROVE  IsThread(u)' /\ threads'[u.slot].process = processes'[s].id
    <3>1. s \in DOMAIN processes /\ processes'[s] = processes[s]
      BY Zenon, <1>8
    <3>2. IsThread(u) /\ threads[u.slot].process = processes[s].id
      BY Zenon, <2>1, <3>1 DEF IInv, ThreadKept
    <3>3. MaxGen \in Nat
      BY Zenon, TableAssumption
    <3>4. s # z
      BY <1>3, <1>8, <2>1, <3>1, <3>3 DEF t
    <3>5. u.slot # t.slot
      <4>1. SUFFICES ASSUME u.slot = t.slot PROVE FALSE
        BY Zenon
      <4>2. u = t
        BY Zenon, <4>1, <3>2, <1>1 DEF IsThread
      <4>3. threads[t.slot].process = p
        BY Zenon, <4>2, <2>1 DEF IInv, ThreadKept, t, p
      <4>4. processes[s].id = p
        BY Zenon, <4>1, <4>3, <3>2
      <4>5. processes[s].id = [slot |-> s, gen |-> processGen[s]]
        BY Zenon, <3>1 DEF IInv, TableInv
      <4>6. [slot |-> s, gen |-> processGen[s]] = [slot |-> z, gen |-> processGen[z]]
        BY Zenon, <4>4, <4>5, <1>2
      <4> QED
        BY Zenon, <4>6, <3>4
    <3>6. u.slot \in DOMAIN threads' /\ u.slot \in TSlots
      BY Zenon, <3>2, <3>5, <1>6 DEF IsThread, ThreadId
    <3> QED
      BY Zenon, <3>1, <3>2, <3>5, <3>6, <1>6, <1>7 DEF IsThread
  <2> QED
    BY Zenon, <2>1 DEF ThreadKept, IsThread
<1> QED
  BY Zenon, <1>10, <1>12, <1>13, <1>14, <1>15 DEF IInv

\* Both forms of wait reap a zombie child.
LEMMA WaitStep ==
    ASSUME IInv, NEW parent \in ProcessId,
           WaitAny(parent) \/ \E child \in ProcessId : WaitChild(parent, child)
    PROVE  IInv'
<1>1. CASE WaitAny(parent)
  <2> DEFINE Z == ZombieChildren(parent)
             z == CHOOSE s \in Z : \A x \in Z : s <= x
  <2>1. Z \in SUBSET Nat /\ Z # {}
    <3>1. DOMAIN processes \subseteq Nat
      BY TableAssumption DEF IInv, TypeOK, PSlots
    <3> QED
      BY Zenon, <1>1, <3>1 DEF WaitAny, ZombieChildren
  <2>2. z \in Z
    <3> HIDE DEF Z
    <3> QED BY Zenon, <2>1, LeastExists
  <2>3. Reap(z)
    BY Zenon, <1>1 DEF WaitAny
  <2>4. z \in DOMAIN processes /\ processes[z].state = "Zombie"
    <3> HIDE DEF z
    <3> QED BY Zenon, <2>2 DEF ZombieChildren
  <2> HIDE DEF z, Z
  <2> QED
    BY Zenon, <2>3, <2>4, ReapStep
<1>2. CASE \E child \in ProcessId : WaitChild(parent, child)
  <2>1. PICK child \in ProcessId : WaitChild(parent, child)
    BY Zenon, <1>2
  <2>2. Reap(child.slot) /\ child.slot \in DOMAIN processes
        /\ processes[child.slot].state = "Zombie"
    BY Zenon, <2>1 DEF WaitChild, ZombieChildren
  <2> QED
    BY Zenon, <2>2, ReapStep
<1> QED
  BY Zenon, <1>1, <1>2

-----------------------------------------------------------------------------
(* Descriptors, signals and thread states *)

\* A step of SetFds.
LEMMA SetFdsStep ==
    ASSUME IInv, NEW p \in ProcessId, IsProcess(p),
           NEW fds \in [FdSlots -> {"closed", "open", "cloexec"}], SetFds(p, fds)
    PROVE  IInv'
<1> DEFINE r == [processes[p.slot] EXCEPT !.fds = fds]
<1>1. processes[p.slot] \in ProcessRecord
  BY Zenon DEF IInv, TypeOK, IsProcess
<1>2. /\ r \in ProcessRecord
      /\ r.id = processes[p.slot].id /\ r.parent = processes[p.slot].parent
      /\ r.state = processes[p.slot].state /\ r.thread = processes[p.slot].thread
  BY Zenon, <1>1 DEF ProcessRecord
<1>3. processes' = [processes EXCEPT ![p.slot] = r] /\ UNCHANGED <<threads, idVars>>
  BY Zenon DEF SetFds
<1> HIDE DEF r
<1> QED
  BY Zenon, <1>2, <1>3, RecordStep

\* The descriptor operations go through SetFds.
LEMMA DescriptorStep ==
    ASSUME IInv, NEW p \in ProcessId,
           \/ OpenFd(p)
           \/ \E f \in FdSlots : CloseFd(p, f)
           \/ \E f \in FdSlots, enabled \in BOOLEAN : SetCloseOnExec(p, f, enabled)
           \/ CloseOnExec(p)
    PROVE  IInv'
<1>1. IsProcess(p)
  BY Zenon DEF OpenFd, CloseFd, SetCloseOnExec, CloseOnExec, ProcessIn
<1>2. processes[p.slot].fds \in [FdSlots -> {"closed", "open", "cloexec"}]
  BY Zenon, <1>1 DEF IInv, TypeOK, IsProcess, ProcessRecord
<1>3. PICK fds \in [FdSlots -> {"closed", "open", "cloexec"}] : SetFds(p, fds)
  BY Zenon, <1>2 DEF OpenFd, CloseFd, SetCloseOnExec, CloseOnExec
<1> QED
  BY Zenon, <1>1, <1>3, SetFdsStep

\* raise_signal only sets pending bits.
LEMMA RaiseSignalStep ==
    ASSUME IInv, NEW p \in ProcessId, NEW n \in Signals, RaiseSignal(p, n)
    PROVE  IInv'
<1> DEFINE r == [processes[p.slot] EXCEPT !.pending = @ \cup {n}]
<1>1. processes[p.slot] \in ProcessRecord /\ IsProcess(p)
  BY Zenon DEF IInv, TypeOK, IsProcess, RaiseSignal
<1>2. /\ r \in ProcessRecord
      /\ r.id = processes[p.slot].id /\ r.parent = processes[p.slot].parent
      /\ r.state = processes[p.slot].state /\ r.thread = processes[p.slot].thread
  BY Zenon, <1>1 DEF ProcessRecord
<1>3. processes' = [processes EXCEPT ![p.slot] = r] /\ UNCHANGED <<threads, idVars>>
  BY Zenon DEF RaiseSignal
<1> HIDE DEF r
<1> QED
  BY Zenon, <1>1, <1>2, <1>3, RecordStep

\* Making a thread ready, blocked or sleeping changes its state only.
LEMMA ThreadStepStep ==
    ASSUME IInv, NEW t \in ThreadId, ThreadStep(t) PROVE IInv'
<1>1. \A s \in DOMAIN threads : threads[s] \in ThreadRecord
  BY Zenon DEF IInv, TypeOK
<1>2. ASSUME NEW state \in {"Ready", "Blocked", "Sleeping"}, SetThread(t, state)
      PROVE  IInv'
  <2>1. threads' = [threads EXCEPT ![t.slot].state = state]
    BY Zenon, <1>2 DEF SetThread
  <2>2. \A s \in DOMAIN threads :
          /\ threads'[s] \in ThreadRecord
          /\ threads'[s].id = threads[s].id
          /\ threads'[s].process = threads[s].process
    BY Zenon, <1>1, <2>1 DEF ThreadRecord
  <2>3. threads' = [s \in DOMAIN threads |-> threads'[s]]
    BY Zenon, <2>1
  <2> QED
    BY Zenon, <1>2, <2>2, <2>3, ThreadStateStep DEF SetThread
<1>3. ASSUME NEW from \in ThreadId \cup {NoTid}, SwitchTo(from, t) PROVE IInv'
  <2>1. \A s \in DOMAIN threads :
          threads'[s] \in {threads[s], [threads[s] EXCEPT !.state = "Running"],
                           [threads[s] EXCEPT !.state = "Ready"]}
    BY Zenon, <1>3 DEF SwitchTo
  <2>2. \A s \in DOMAIN threads :
          /\ threads'[s] \in ThreadRecord
          /\ threads'[s].id = threads[s].id
          /\ threads'[s].process = threads[s].process
    BY <1>1, <2>1 DEF ThreadRecord
  <2>3. threads' = [s \in DOMAIN threads |-> threads'[s]]
    BY <1>3 DEF SwitchTo
  <2> QED
    BY Zenon, <1>3, <2>2, <2>3, ThreadStateStep DEF SwitchTo
<1> QED
  BY Zenon, <1>2, <1>3 DEF ThreadStep, BlockThread, WakeThread, PreemptThread

-----------------------------------------------------------------------------
(* The theorems *)

\* Every step preserves the inductive invariant.
LEMMA NextIInv == IInv /\ [Next]_tableVars => IInv'
<1> SUFFICES ASSUME IInv, [Next]_tableVars PROVE IInv'
  BY Zenon
<1>1. CASE UNCHANGED tableVars
  BY <1>1 DEF tableVars, idVars, IInv, TypeOK, TableInv, ParentRunning,
     ThreadsOwned, ThreadKept, ProcessIn, IsProcess, IsThread
<1>2. ASSUME NEW p \in ProcessId, ProcessStep(p) PROVE IInv'
  BY Zenon, <1>2, SpawnChildStep, ExitStep, WaitStep, DescriptorStep, RaiseSignalStep
     DEF ProcessStep
<1> QED
  BY Zenon, <1>1, <1>2, CreateInitStep, SpawnKernelThreadStep, ThreadStepStep DEF Next

\* The inductive invariant holds in every reachable state.
LEMMA IInvHolds == Spec => []IInv
BY InitIInv, NextIInv, PTL DEF Spec

\* The tables stay well formed and within their capacities under any sequence
\* of the operations of process.rs.
THEOREM TypeCorrect == Spec => []TypeOK
<1>1. IInv => TypeOK
  BY Zenon DEF IInv
<1> QED
  BY IInvHolds, <1>1, PTL

\* No process is ever orphaned: exit gives the children of the exiting process
\* to INIT, which never leaves, before the parent can be reaped.
THEOREM NoOrphans == Spec => []ParentRunning
<1>1. IInv => ParentRunning
  BY Zenon DEF IInv
<1> QED
  BY IInvHolds, <1>1, PTL

\* reap and the rollback of spawn_child never leave a user thread behind whose
\* process is gone.
THEOREM NoThreadLeaked == Spec => []ThreadsOwned
<1>1. IInv => ThreadsOwned
  BY Zenon DEF IInv
<1> QED
  BY IInvHolds, <1>1, PTL

\* Below the last generation of its thread slot, a process keeps its thread
\* until reap removes both.
THEOREM ThreadOutlivesProcess == Spec => []ThreadKept
<1>1. IInv => ThreadKept
  BY Zenon DEF IInv
<1> QED
  BY IInvHolds, <1>1, PTL

\* A released identity below the last generation never names a later occupant
\* of its slot: the check in process() and thread() rejects it for good.
THEOREM NoStaleIdentity == Spec => []StaleIdsRejected
<1>1. IInv => StaleIdsRejected
  <2> SUFFICES ASSUME IInv PROVE StaleIdsRejected
    BY Zenon
  <2>1. MaxGen \in Nat /\ retiredP \subseteq ProcessId /\ retiredT \subseteq ThreadId
    BY Zenon, TableAssumption DEF IInv, TypeOK
  <2>2. ASSUME NEW p \in retiredP, p.gen < MaxGen PROVE ~IsProcess(p)
    <3>1. p.gen \in Nat /\ p.gen < processGen[p.slot]
      BY <2>1, <2>2 DEF ProcessId, IInv, TableInv
    <3> QED
      BY <3>1 DEF IsProcess
  <2>3. ASSUME NEW t \in retiredT, t.gen < MaxGen PROVE ~IsThread(t)
    <3>1. t.gen \in Nat /\ t.gen < threadGen[t.slot]
      BY <2>1, <2>3 DEF ThreadId, IInv, TableInv
    <3> QED
      BY <3>1 DEF IsThread
  <2> QED
    BY Zenon, <2>2, <2>3 DEF StaleIdsRejected
<1> QED
  BY IInvHolds, <1>1, PTL

-----------------------------------------------------------------------------
(* The runtime *)

Stages == {"kernel", "spawned", "user", "aborted", "exited", "restored", "panic"}

\* The thread of a process that is in the table.
ThreadOf(s) == threads[processes[s].thread.slot]

\* A thread slot has had at most as many occupants as images were launched,
\* so that no reap finds its generation used up.
Generations ==
    /\ launches \in 0 .. MaxLaunches
    /\ \A s \in TSlots : threadGen[s] <= launches
    /\ \A s \in DOMAIN threads : s # 0 => threadGen[s] < launches
    /\ \A s \in DOMAIN processes : processes[s].thread.gen < MaxGen

\* INIT and its thread never leave the table.
InitOK ==
    /\ initThread = [slot |-> 0, gen |-> 0]
    /\ IsThread(initThread) /\ threads[0].process = INIT
    /\ ProcessIn(INIT, "Running")

ZombiesExited ==
    \A s \in DOMAIN processes :
        processes[s].state = "Zombie" => ThreadOf(s).state = "Exited"
RunningLive ==
    \A s \in DOMAIN processes :
        processes[s].state = "Running" => ThreadOf(s).state # "Exited"

\* The runtime's current pair, by what executes.
CurrentOK ==
    /\ pc \in Stages
    /\ pc \in {"kernel", "spawned", "restored"} =>
          currentThread = initThread /\ currentProcess = INIT
    /\ pc = "user" => currentThread # NoTid
    /\ pc = "exited" => currentThread = NoTid

\* The launched image is a child of INIT, in one of the states.
ImageIn(state) ==
    /\ ProcessIn(image.process, state) /\ image.process # INIT
    /\ processes[image.process.slot].parent = INIT
    /\ processes[image.process.slot].thread = image.thread

\* What holds as long as no image has slept.
Awake ==
    /\ RunningLive
    /\ pc # "panic"
    /\ pc = "spawned" => ImageIn("Running") /\ threads[image.thread.slot].state = "Ready"
    /\ pc = "user" => /\ ImageIn("Running") /\ currentThread = image.thread
                      /\ threads[0].state = "Ready"
    /\ pc = "exited" => ImageIn("Zombie") /\ threads[0].state = "Ready"
    /\ pc = "restored" => ImageIn("Zombie")

\* The inductive invariant.
RuntimeInv ==
    /\ IInv /\ Generations /\ InitOK /\ ZombiesExited /\ CurrentOK /\ OneRunning
    /\ slept \in BOOLEAN
    /\ ~slept => Awake

-----------------------------------------------------------------------------
(* The table under the runtime *)

\* The constants: a launch never reaches the last generation.
LEMMA Bounds == /\ MaxGen \in Nat \ {0} /\ MaxLaunches \in Nat /\ MaxLaunches <= MaxGen
                /\ MaxProcesses \in Nat \ {0} /\ MaxThreads \in Nat \ {0}
                /\ 0 \in PSlots /\ 0 \in TSlots
  BY TableAssumption, RuntimeAssumption DEF PSlots, TSlots

\* Every process in the table has its thread in the table.
LEMMA Kept ==
    ASSUME IInv, Generations, NEW s \in DOMAIN processes
    PROVE  /\ processes[s] \in ProcessRecord /\ s \in PSlots
           /\ processes[s].id \in ProcessId /\ processes[s].id.slot = s
           /\ processes[s].id = [slot |-> s, gen |-> processGen[s]]
           /\ IsProcess(processes[s].id)
           /\ processes[s].thread \in ThreadId
           /\ IsThread(processes[s].thread)
           /\ processes[s].thread.slot \in DOMAIN threads
           /\ ThreadOf(s) \in ThreadRecord
           /\ ThreadOf(s).process = processes[s].id
  <1>1. processes[s] \in ProcessRecord /\ s \in PSlots
    BY Zenon DEF IInv, TypeOK
  <1>2. processes[s].id \in ProcessId /\ processes[s].thread \in ThreadId
    BY Zenon, <1>1 DEF ProcessRecord
  <1>3. processes[s].id = [slot |-> s, gen |-> processGen[s]]
    BY Zenon DEF IInv, TableInv
  <1>4. IsThread(processes[s].thread) /\ ThreadOf(s).process = processes[s].id
    BY Zenon DEF IInv, ThreadKept, Generations, ThreadOf
  <1>5. ThreadOf(s) \in ThreadRecord
    BY Zenon, <1>4 DEF IInv, TypeOK, ThreadOf, IsThread
  <1> QED
    BY <1>1, <1>2, <1>3, <1>4, <1>5 DEF IsThread, IsProcess

\* Two processes have two threads.
LEMMA OwnThread ==
    ASSUME IInv, Generations, NEW s \in DOMAIN processes, NEW x \in DOMAIN processes,
           processes[s].thread.slot = processes[x].thread.slot
    PROVE  s = x
  <1>1. processes[s].id = processes[x].id
    BY ZenonT(40), Kept DEF ThreadOf
  <1> QED
    BY Zenon, <1>1, Kept

\* The thread of the process named by a running or ready thread.
LEMMA ThreadProcess ==
    ASSUME IInv, Generations, NEW p, IsProcess(p), NEW s \in DOMAIN threads,
           threads[s].process = p
    PROVE  processes[p.slot].thread.slot = s
  <1>1. p # NoPid
    BY Bounds DEF IsProcess, ProcessId, NoPid, PSlots
  <1>2. processes[p.slot].thread = threads[s].id
    BY Zenon, <1>1 DEF IInv, ThreadsOwned
  <1>3. threads[s].id = [slot |-> s, gen |-> threadGen[s]]
    BY Zenon DEF IInv, TableInv
  <1> QED
    BY <1>2, <1>3

\* A step that changes nothing but states of threads.
LEMMA StateChange ==
    ASSUME RuntimeInv, UNCHANGED <<processes, idVars, initThread, launches>>,
           threads' = [s \in DOMAIN threads |-> threads'[s]],
           \A s \in DOMAIN threads : /\ threads'[s] \in ThreadRecord
                                     /\ threads'[s].id = threads[s].id
                                     /\ threads'[s].process = threads[s].process
    PROVE  /\ IInv' /\ Generations' /\ InitOK' /\ DOMAIN threads' = DOMAIN threads
           /\ \A t : IsThread(t)' <=> IsThread(t)
           /\ \A p, state : ProcessIn(p, state)' <=> ProcessIn(p, state)
  <1>1. IInv'
    BY Zenon, ThreadStateStep DEF RuntimeInv
  <1>2. DOMAIN threads' = DOMAIN threads
    BY Zenon
  <1>3. Generations'
    BY Zenon, <1>2 DEF RuntimeInv, Generations, idVars
  <1>4. \A t : IsThread(t)' <=> IsThread(t)
    BY Zenon, <1>2 DEF IsThread, idVars
  <1>5. \A p, state : ProcessIn(p, state)' <=> ProcessIn(p, state)
    BY Zenon DEF ProcessIn, IsProcess, idVars
  <1>6. InitOK'
    <2>1. 0 \in DOMAIN threads
      BY Zenon DEF RuntimeInv, InitOK, IsThread
    <2> QED
      BY Zenon, <1>4, <1>5, <2>1 DEF RuntimeInv, InitOK
  <1> QED
    BY Zenon, <1>1, <1>2, <1>3, <1>4, <1>5, <1>6

\* switch_to, thread by thread.
LEMMA SwitchIs ==
    ASSUME IInv, NEW from, NEW to, SwitchTo(from, to)
    PROVE  /\ threads' = [s \in DOMAIN threads |-> threads'[s]]
           /\ \A s \in DOMAIN threads :
                 /\ threads'[s] \in ThreadRecord
                 /\ threads'[s].id = threads[s].id
                 /\ threads'[s].process = threads[s].process
                 /\ threads'[s].state = IF s = to.slot THEN "Running"
                                        ELSE IF s = from.slot THEN "Ready"
                                        ELSE threads[s].state
           /\ UNCHANGED <<processes, idVars>>
           /\ IsThread(to) /\ to.slot \in DOMAIN threads /\ threads[to.slot].state = "Ready"
  <1>0. from.slot # to.slot
    <2>1. CASE from = NoTid
      BY <2>1, Bounds DEF SwitchTo, ThreadIn, IsThread, ThreadId, TSlots, NoTid
    <2>2. CASE ThreadIn(from, {"Running"})
      BY Zenon, <2>2 DEF SwitchTo, ThreadIn
    <2> QED
      BY Zenon, <2>1, <2>2 DEF SwitchTo
  <1>1. threads' = [s \in DOMAIN threads |->
                     CASE s = to.slot -> [threads[s] EXCEPT !.state = "Running"]
                       [] s = from.slot -> [threads[s] EXCEPT !.state = "Ready"]
                       [] OTHER -> threads[s]]
    BY Zenon DEF SwitchTo
  <1>2. \A s \in DOMAIN threads : threads[s] \in ThreadRecord
    BY Zenon DEF IInv, TypeOK
  <1>3. ASSUME NEW s \in DOMAIN threads
        PROVE  /\ threads'[s] \in ThreadRecord
               /\ threads'[s].id = threads[s].id
               /\ threads'[s].process = threads[s].process
               /\ threads'[s].state = IF s = to.slot THEN "Running"
                                      ELSE IF s = from.slot THEN "Ready"
                                      ELSE threads[s].state
    <2>1. CASE s = to.slot
      BY Zenon, <1>0, <1>1, <1>2, <2>1 DEF ThreadRecord
    <2>2. CASE s # to.slot /\ s = from.slot
      BY Zenon, <1>1, <1>2, <2>2 DEF ThreadRecord
    <2>3. CASE s # to.slot /\ s # from.slot
      BY Zenon, <1>1, <1>2, <2>3 DEF ThreadRecord
    <2> QED
      BY Zenon, <2>1, <2>2, <2>3
  <1> QED
    BY Zenon, <1>1, <1>3 DEF SwitchTo, ThreadIn, IsThread

\* switch_to away from the runtime's current thread, or from none: the thread
\* switched to is the one that runs.
LEMMA SwitchCurrent ==
    ASSUME RuntimeInv, NEW to, SwitchTo(currentThread, to), UNCHANGED <<initThread, launches>>
    PROVE  /\ IInv' /\ Generations' /\ InitOK' /\ ZombiesExited'
           /\ RunningLive => RunningLive'
           /\ {s \in DOMAIN threads' : threads'[s].state = "Running"} = {to.slot}
           /\ IsThread(to)' /\ to # NoTid
           /\ threads'[to.slot].process = threads[to.slot].process
           /\ \A p, state : ProcessIn(p, state)' <=> ProcessIn(p, state)
  <1>1. /\ IInv /\ Generations /\ InitOK /\ ZombiesExited /\ OneRunning
    BY Zenon DEF RuntimeInv
  <1>2. /\ threads' = [s \in DOMAIN threads |-> threads'[s]]
        /\ \A s \in DOMAIN threads :
              /\ threads'[s] \in ThreadRecord
              /\ threads'[s].id = threads[s].id
              /\ threads'[s].process = threads[s].process
              /\ threads'[s].state = IF s = to.slot THEN "Running"
                                     ELSE IF s = currentThread.slot THEN "Ready"
                                     ELSE threads[s].state
        /\ UNCHANGED <<processes, idVars>>
        /\ IsThread(to) /\ to.slot \in DOMAIN threads /\ threads[to.slot].state = "Ready"
    BY Zenon, <1>1, SwitchIs
  <1>3. /\ IInv' /\ Generations' /\ InitOK' /\ DOMAIN threads' = DOMAIN threads
        /\ \A t : IsThread(t)' <=> IsThread(t)
        /\ \A p, state : ProcessIn(p, state)' <=> ProcessIn(p, state)
    BY Zenon, <1>2, StateChange
  <1>4. \A s \in DOMAIN threads : threads[s].state = "Running" <=> s = currentThread.slot
    <2>1. CASE currentThread = NoTid
      <3>1. currentThread.slot \notin DOMAIN threads
        BY <1>1, <2>1, Bounds DEF NoTid, IInv, TypeOK, TSlots
      <3> QED
        BY Zenon, <1>1, <2>1, <3>1 DEF OneRunning
    <2>2. CASE currentThread # NoTid
      BY Zenon, <1>1, <2>2 DEF OneRunning
    <2> QED
      BY Zenon, <2>1, <2>2
  <1>5. {s \in DOMAIN threads' : threads'[s].state = "Running"} = {to.slot}
    BY <1>2, <1>3, <1>4
  <1>6. \A s \in DOMAIN processes : /\ processes[s].thread.slot \in DOMAIN threads
                                    /\ ThreadOf(s)' = threads'[processes[s].thread.slot]
    BY Zenon, <1>1, <1>2, Kept DEF ThreadOf
  <1>7. ZombiesExited'
    BY <1>1, <1>2, <1>4, <1>6 DEF ZombiesExited, ThreadOf
  <1>8. RunningLive => RunningLive'
    BY <1>2, <1>6 DEF RunningLive, ThreadOf
  <1>9. to # NoTid
    BY <1>2, Bounds DEF IsThread, ThreadId, TSlots, NoTid
  <1> QED
    BY Zenon, <1>2, <1>3, <1>5, <1>7, <1>8, <1>9

\* The thread that yield and sleep choose.
LEMMA PickReadyIs ==
    ASSUME IInv, ReadySlots # {}
    PROVE  /\ PickReady.slot \in ReadySlots /\ IsThread(PickReady)
           /\ \A x \in ReadySlots : PickReady.slot <= x
           /\ threads[PickReady.slot].id = PickReady
  <1> DEFINE c == CHOOSE s \in ReadySlots : \A x \in ReadySlots : s <= x
  <1>1. ReadySlots \in SUBSET Nat
    BY Bounds DEF ReadySlots, IInv, TypeOK, TSlots
  <1>2. c \in ReadySlots /\ \A x \in ReadySlots : c <= x
    BY Zenon, <1>1, LeastExists
  <1>3. PickReady = threads[c].id
    BY Zenon DEF PickReady
  <1> HIDE DEF c
  <1>4. c \in DOMAIN threads /\ threads[c].id = [slot |-> c, gen |-> threadGen[c]]
    BY Zenon, <1>2 DEF ReadySlots, IInv, TableInv
  <1>5. threads[c].id \in ThreadId
    BY Zenon, <1>4 DEF IInv, TypeOK, ThreadRecord
  <1> QED
    BY <1>2, <1>3, <1>4, <1>5 DEF IsThread

-----------------------------------------------------------------------------
(* One step per action *)

\* switch_to_user.
LEMMA EnterUserStep ==
    ASSUME RuntimeInv, EnterUser
    PROVE  RuntimeInv'
  <1>0. PICK to : to = image.thread
    BY Zenon
  <1>1. /\ pc = "spawned" /\ SwitchTo(currentThread, to)
        /\ currentThread' = to /\ currentProcess' = threads[to.slot].process
        /\ pc' \in {"user", "aborted"}
        /\ UNCHANGED <<initThread, image, launches, slept>>
    BY Zenon, <1>0 DEF EnterUser, SetCurrent, launchVars
  <1>2. /\ IInv /\ Generations /\ InitOK /\ CurrentOK /\ currentThread = initThread
    BY Zenon, <1>1 DEF RuntimeInv, CurrentOK
  <1>3. /\ IInv' /\ Generations' /\ InitOK' /\ ZombiesExited'
        /\ RunningLive => RunningLive'
        /\ {s \in DOMAIN threads' : threads'[s].state = "Running"} = {to.slot}
        /\ IsThread(to)' /\ to # NoTid
        /\ threads'[to.slot].process = threads[to.slot].process
        /\ \A p, state : ProcessIn(p, state)' <=> ProcessIn(p, state)
    BY Zenon, <1>1, SwitchCurrent
  <1>4. OneRunning'
    BY Zenon, <1>1, <1>3 DEF OneRunning
  <1>5. CurrentOK'
    BY Zenon, <1>1, <1>3 DEF CurrentOK, Stages
  <1>6. ASSUME ~slept'
        PROVE  Awake'
    <2>1. Awake /\ ImageIn("Running") /\ ~slept
      BY Zenon, <1>1, <1>6 DEF RuntimeInv, Awake
    <2>2. UNCHANGED processes
      BY Zenon, <1>1, <1>2, SwitchIs
    <2>3. ImageIn("Running")'
      BY Zenon, <1>1, <1>3, <2>1, <2>2 DEF ImageIn
    <2>4. threads'[0].state = "Ready"
      <3>1. /\ currentThread.slot = 0 /\ 0 \in DOMAIN threads
            /\ threads[0].state = "Running"
        BY Zenon, <1>1, <1>2, Bounds DEF InitOK, IsThread, SwitchTo, ThreadIn, NoTid
      <3>2. /\ threads[to.slot].state = "Ready"
            /\ threads'[0].state = IF 0 = to.slot THEN "Running"
                                   ELSE IF 0 = currentThread.slot THEN "Ready"
                                   ELSE threads[0].state
        BY <1>1, <1>2, <3>1, SwitchIs
      <3> QED
        BY Zenon, <3>1, <3>2
    <2> QED
      BY Zenon, <1>0, <1>1, <1>3, <2>1, <2>3, <2>4 DEF Awake
  <1>7. slept' \in BOOLEAN
    BY Zenon, <1>1 DEF RuntimeInv
  <1> QED
    BY Zenon, <1>3, <1>4, <1>5, <1>6, <1>7 DEF RuntimeInv

\* restore_init, which does not panic as long as no image has slept.
LEMMA RestoreInitStep ==
    ASSUME RuntimeInv, RestoreInit
    PROVE  RuntimeInv'
  <1>1. /\ IInv /\ Generations /\ InitOK /\ CurrentOK /\ pc = "exited" /\ currentThread = NoTid
        /\ UNCHANGED <<initThread, image, launches, slept>> /\ slept' \in BOOLEAN
    BY Zenon DEF RestoreInit, RuntimeInv, CurrentOK, launchVars
  <1>2. CASE /\ SwitchTo(NoTid, initThread)
             /\ currentThread' = initThread /\ currentProcess' = INIT /\ pc' = "restored"
    <2>1. /\ IInv' /\ Generations' /\ InitOK' /\ ZombiesExited'
          /\ RunningLive => RunningLive'
          /\ {s \in DOMAIN threads' : threads'[s].state = "Running"} = {initThread.slot}
          /\ IsThread(initThread)' /\ initThread # NoTid
          /\ \A p, state : ProcessIn(p, state)' <=> ProcessIn(p, state)
      BY Zenon, <1>1, <1>2, SwitchCurrent
    <2>2. OneRunning'
      BY Zenon, <1>1, <1>2, <2>1 DEF OneRunning, InitOK
    <2>3. CurrentOK'
      BY Zenon, <1>1, <1>2, <2>1 DEF CurrentOK, Stages
    <2>4. ASSUME ~slept'
          PROVE  Awake'
      <3>1. Awake /\ ImageIn("Zombie")
        BY Zenon, <1>1, <2>4 DEF RuntimeInv, Awake
      <3>2. UNCHANGED processes
        BY Zenon, <1>1, <1>2, SwitchIs
      <3>3. ImageIn("Zombie")'
        BY Zenon, <1>1, <2>1, <3>1, <3>2 DEF ImageIn
      <3> QED
        BY Zenon, <1>2, <2>1, <3>1, <3>3 DEF Awake
    <2> QED
      BY Zenon, <1>1, <2>1, <2>2, <2>3, <2>4 DEF RuntimeInv
  <1>3. CASE /\ ~ThreadIn(initThread, {"Ready"})
             /\ pc' = "panic" /\ UNCHANGED <<tableVars, current>>
    <2>1. slept
      <3> SUFFICES ASSUME ~slept PROVE FALSE
        BY Zenon DEF RuntimeInv
      <3>1. threads[0].state = "Ready"
        BY Zenon, <1>1 DEF RuntimeInv, Awake
      <3> QED
        BY Zenon, <1>1, <1>3, <3>1 DEF InitOK, ThreadIn
    <2>2. (IInv /\ Generations /\ InitOK /\ ZombiesExited /\ OneRunning)'
      <3>1. IInv'
        BY Zenon, <1>1, <1>3, NextIInv
      <3>2. Generations' /\ InitOK'
        BY Zenon, <1>1, <1>3 DEF Generations, InitOK, ProcessIn, IsProcess, IsThread, tableVars, idVars
      <3>3. ZombiesExited' /\ OneRunning'
        BY Zenon, <1>3 DEF RuntimeInv, ZombiesExited, OneRunning, ThreadOf, IsThread, tableVars,
                    idVars, current
      <3> QED
        BY Zenon, <3>1, <3>2, <3>3
    <2>3. CurrentOK'
      BY Zenon, <1>3 DEF CurrentOK, Stages
    <2> QED
      BY Zenon, <1>1, <2>1, <2>2, <2>3 DEF RuntimeInv
  <1> QED
    BY Zenon, <1>1, <1>2, <1>3 DEF RestoreInit

\* yield_current: refused as long as no image has slept, since the thread of
\* INIT is Ready in the lowest slot.
LEMMA YieldStep ==
    ASSUME RuntimeInv, pc = "user", UserYield, UNCHANGED launchVars
    PROVE  RuntimeInv'
  <1>1. /\ IInv /\ Generations /\ InitOK /\ CurrentOK /\ OneRunning /\ ReadySlots # {}
        /\ ~(currentProcess # INIT /\ PickReady = initThread)
        /\ UNCHANGED <<initThread, image, launches, slept, pc>> /\ slept' \in BOOLEAN
    BY Zenon DEF UserYield, YieldCurrent, RuntimeInv, launchVars
  <1>2. PICK to : to = PickReady
    BY Zenon
  <1>3. /\ SwitchTo(currentThread, to) /\ currentThread' = to
        /\ currentProcess' = threads[to.slot].process
    BY Zenon, <1>2 DEF UserYield, YieldCurrent, SetCurrent
  <1>4. /\ IInv' /\ Generations' /\ InitOK' /\ ZombiesExited'
        /\ {s \in DOMAIN threads' : threads'[s].state = "Running"} = {to.slot}
        /\ IsThread(to)' /\ to # NoTid
        /\ threads'[to.slot].process = threads[to.slot].process
    BY Zenon, <1>1, <1>3, SwitchCurrent
  <1>5. OneRunning'
    BY Zenon, <1>3, <1>4 DEF OneRunning
  <1>6. CurrentOK'
    BY Zenon, <1>1, <1>3, <1>4 DEF CurrentOK
  <1>7. slept
    <2> SUFFICES ASSUME ~slept PROVE FALSE
      BY Zenon DEF RuntimeInv
    <2>1. ImageIn("Running") /\ currentThread = image.thread /\ threads[0].state = "Ready"
      BY Zenon DEF RuntimeInv, Awake
    <2>2. currentProcess # INIT
      <3>1. image.process.slot \in DOMAIN processes
            /\ processes[image.process.slot].id = image.process
        BY Zenon, <2>1 DEF ImageIn, ProcessIn, IsProcess
      <3>2. threads[image.thread.slot].process = image.process
        BY Zenon, <1>1, <2>1, <3>1, Kept DEF ThreadOf, ImageIn
      <3> QED
        BY Zenon, <1>1, <2>1, <3>2 DEF OneRunning, CurrentOK, ImageIn
    <2>3. 0 \in ReadySlots
      BY Zenon, <1>1, <2>1 DEF ReadySlots, InitOK, IsThread
    <2>4. PickReady.slot = 0
      <3>1. PickReady.slot <= 0 /\ PickReady.slot \in DOMAIN threads
        BY Zenon, <1>1, <2>3, PickReadyIs DEF ReadySlots
      <3>2. DOMAIN threads \subseteq Nat
        BY <1>1, Bounds DEF IInv, TypeOK, TSlots
      <3> QED
        BY <3>1, <3>2
    <2>5. PickReady = initThread
      BY Zenon, <1>1, <2>4, PickReadyIs DEF InitOK, IsThread
    <2> QED
      BY Zenon, <1>1, <2>2, <2>5
  <1> QED
    BY Zenon, <1>1, <1>4, <1>5, <1>6, <1>7 DEF RuntimeInv

\* sleep_current: the sleeper stops running before the next thread runs.
LEMMA SleepStep ==
    ASSUME RuntimeInv, pc = "user", UserSleep, UNCHANGED launchVars
    PROVE  RuntimeInv'
  <1>1. /\ IInv /\ Generations /\ InitOK /\ CurrentOK /\ OneRunning /\ ZombiesExited
        /\ ReadySlots # {} /\ currentThread # NoTid
        /\ slept' = TRUE /\ UNCHANGED <<initThread, image, launches, pc, processes, idVars>>
    BY Zenon DEF UserSleep, SleepCurrent, RuntimeInv, launchVars, CurrentOK
  <1>2. PICK to : to = PickReady
    BY Zenon
  <1>3. /\ threads' = [threads EXCEPT ![currentThread.slot].state = "Sleeping",
                                      ![to.slot].state = "Running"]
        /\ currentThread' = to /\ currentProcess' = threads[to.slot].process
    BY Zenon, <1>2 DEF UserSleep, SleepCurrent, SetCurrent
  <1>4. /\ to.slot \in DOMAIN threads /\ threads[to.slot].state = "Ready" /\ IsThread(to)
    BY Zenon, <1>1, <1>2, PickReadyIs DEF ReadySlots
  <1>5. \A s \in DOMAIN threads : threads[s].state = "Running" <=> s = currentThread.slot
    BY Zenon, <1>1 DEF OneRunning
  <1>6. to.slot # currentThread.slot /\ to # NoTid
    BY <1>4, <1>5, Bounds DEF IsThread, ThreadId, TSlots, NoTid
  <1>7. /\ threads' = [s \in DOMAIN threads |-> threads'[s]]
        /\ \A s \in DOMAIN threads :
              /\ threads'[s] \in ThreadRecord
              /\ threads'[s].id = threads[s].id
              /\ threads'[s].process = threads[s].process
              /\ threads'[s].state = IF s = to.slot THEN "Running"
                                     ELSE IF s = currentThread.slot THEN "Sleeping"
                                     ELSE threads[s].state
    <2>1. \A s \in DOMAIN threads : threads[s] \in ThreadRecord
      BY Zenon, <1>1 DEF IInv, TypeOK
    <2> QED
      BY Zenon, <1>3, <1>6, <2>1 DEF ThreadRecord
  <1>8. /\ IInv' /\ Generations' /\ InitOK' /\ DOMAIN threads' = DOMAIN threads
        /\ \A t : IsThread(t)' <=> IsThread(t)
    BY Zenon, <1>1, <1>7, StateChange
  <1>9. OneRunning'
    <2>1. {s \in DOMAIN threads' : threads'[s].state = "Running"} = {to.slot}
      BY <1>4, <1>5, <1>7, <1>8
    <2> QED
      BY Zenon, <1>3, <1>4, <1>6, <1>7, <1>8, <2>1 DEF OneRunning
  <1>10. ZombiesExited'
    <2>1. \A s \in DOMAIN processes : processes[s].thread.slot \in DOMAIN threads
      BY Zenon, <1>1, Kept
    <2> QED
      BY <1>1, <1>4, <1>5, <1>7, <2>1 DEF ZombiesExited, ThreadOf
  <1>11. CurrentOK'
    BY Zenon, <1>1, <1>3, <1>6 DEF CurrentOK
  <1> QED
    BY Zenon, <1>1, <1>8, <1>9, <1>10, <1>11 DEF RuntimeInv

\* exit of a process other than INIT, whose thread is the only one to change.
LEMMA ExitIs ==
    ASSUME RuntimeInv, NEW p \in ProcessId, Exit(p), UNCHANGED <<initThread, launches>>
    PROVE  /\ IInv' /\ Generations' /\ InitOK' /\ ZombiesExited'
           /\ RunningLive => RunningLive'
           /\ p # INIT /\ DOMAIN threads' = DOMAIN threads
           /\ \A t : IsThread(t)' <=> IsThread(t)
           /\ \A s \in DOMAIN threads :
                 /\ threads'[s].process = threads[s].process
                 /\ threads'[s].state = IF threads[s].process = p THEN "Exited"
                                        ELSE threads[s].state
           /\ p.slot \in DOMAIN processes' /\ ProcessIn(p, "Zombie")'
           /\ processes'[p.slot].thread = processes[p.slot].thread
           /\ processes[p.slot].parent = INIT => processes'[p.slot].parent = INIT
  <1>1. IInv /\ Generations /\ InitOK /\ ZombiesExited /\ IInv'
    BY Zenon, ExitStep DEF RuntimeInv
  <1>2. /\ p # INIT /\ ProcessIn(p, "Running")
        /\ DOMAIN threads' = DOMAIN threads /\ DOMAIN processes' = DOMAIN processes
        /\ UNCHANGED idVars
    BY Zenon DEF Exit
  <1>3. \A s \in DOMAIN threads : /\ threads'[s].id = threads[s].id
                                  /\ threads'[s].process = threads[s].process
                                  /\ threads'[s].state = IF threads[s].process = p THEN "Exited"
                                                         ELSE threads[s].state
    BY Zenon, <1>1 DEF Exit, IInv, TypeOK, ThreadRecord
  <1>4. ASSUME NEW s \in DOMAIN processes
        PROVE  /\ processes'[s].id = processes[s].id
               /\ processes'[s].thread = processes[s].thread
               /\ processes'[s].parent = IF processes[s].parent = p THEN INIT
                                         ELSE processes[s].parent
               /\ processes'[s].state = IF s = p.slot THEN "Zombie" ELSE processes[s].state
    <2>1. processes[s] \in ProcessRecord
      BY Zenon, <1>1 DEF IInv, TypeOK
    <2>2. processes'[s] =
            [processes[s] EXCEPT
               !.parent = IF @ = p THEN INIT ELSE @,
               !.state = IF s = p.slot THEN "Zombie" ELSE @,
               !.fds = IF s = p.slot THEN [f \in FdSlots |-> "closed"] ELSE @]
      BY Zenon DEF Exit
    <2> QED
      BY <2>1, <2>2 DEF ProcessRecord
  <1>5. \A t : IsThread(t)' <=> IsThread(t)
    BY Zenon, <1>2, <1>3 DEF IsThread, idVars
  <1>6. Generations'
    BY Zenon, <1>1, <1>2, <1>4 DEF Generations, idVars
  <1>7. /\ IsProcess(p) /\ p.slot \in DOMAIN processes /\ processes[p.slot].id = p
    BY Zenon, <1>2 DEF ProcessIn, IsProcess
  <1>8. ProcessIn(p, "Zombie")'
    BY Zenon, <1>2, <1>4, <1>7 DEF ProcessIn, IsProcess, idVars
  <1>9. InitOK'
    <2>1. 0 \in DOMAIN threads
      BY Zenon, <1>1 DEF InitOK, IsThread
    <2>2. INIT.slot # p.slot
      BY Zenon, <1>1, <1>2 DEF InitOK, ProcessIn, IsProcess
    <2>3. ProcessIn(INIT, "Running")'
      BY Zenon, <1>1, <1>2, <1>4, <2>2 DEF InitOK, ProcessIn, IsProcess, idVars
    <2> QED
      BY Zenon, <1>1, <1>3, <1>5, <2>1, <2>3 DEF InitOK
  <1>10. \A s \in DOMAIN processes : /\ processes[s].thread.slot \in DOMAIN threads
                                     /\ ThreadOf(s).process = processes[s].id
                                     /\ processes[s].id.slot = s
    BY Zenon, <1>1, Kept
  <1>11. \A s \in DOMAIN processes :
            ThreadOf(s)'.state = IF s = p.slot THEN "Exited" ELSE ThreadOf(s).state
    BY <1>3, <1>4, <1>7, <1>10 DEF ThreadOf
  <1>12. ZombiesExited' /\ (RunningLive => RunningLive')
    BY <1>1, <1>2, <1>4, <1>11 DEF ZombiesExited, RunningLive
  <1> QED
    BY Zenon, <1>1, <1>2, <1>3, <1>4, <1>5, <1>6, <1>7, <1>8, <1>9, <1>12

\* The supervisor ends a service process, never INIT, whose thread runs.
LEMMA KernelExitStep ==
    ASSUME RuntimeInv, KernelExit
    PROVE  RuntimeInv'
  <1>1. PICK p \in ProcessId : Exit(p)
    BY Zenon DEF KernelExit
  <1>2. /\ pc = "kernel" /\ UNCHANGED <<currentThread, currentProcess, pc, initThread, image,
                                        launches, slept>>
    BY Zenon DEF KernelExit, current, launchVars
  <1>3. /\ InitOK /\ CurrentOK /\ OneRunning /\ currentThread = initThread
        /\ currentProcess = INIT /\ slept \in BOOLEAN
    BY Zenon, <1>2 DEF RuntimeInv, CurrentOK
  <1>4. /\ IInv' /\ Generations' /\ InitOK' /\ ZombiesExited'
        /\ RunningLive => RunningLive'
        /\ p # INIT /\ DOMAIN threads' = DOMAIN threads
        /\ \A t : IsThread(t)' <=> IsThread(t)
        /\ \A s \in DOMAIN threads :
              /\ threads'[s].process = threads[s].process
              /\ threads'[s].state = IF threads[s].process = p THEN "Exited"
                                     ELSE threads[s].state
    BY Zenon, <1>1, <1>2, ExitIs
  <1>5. OneRunning'
    <2>1. currentThread # NoTid /\ currentThread.slot = 0
      BY Zenon, <1>3, Bounds DEF InitOK, NoTid
    <2>2. {s \in DOMAIN threads : threads[s].state = "Running"} = {0} /\ threads[0].process = INIT
      BY Zenon, <1>3, <2>1 DEF OneRunning, InitOK
    <2>3. {s \in DOMAIN threads' : threads'[s].state = "Running"} = {0}
      BY Zenon, <1>4, <2>2
    <2> QED
      BY Zenon, <1>2, <1>3, <1>4, <2>1, <2>2, <2>3 DEF OneRunning
  <1>6. CurrentOK'
    BY Zenon, <1>2, <1>3 DEF CurrentOK
  <1>7. ~slept' => Awake'
    BY Zenon, <1>2, <1>4 DEF RuntimeInv, Awake
  <1> QED
    BY Zenon, <1>2, <1>3, <1>4, <1>5, <1>6, <1>7 DEF RuntimeInv

\* exit_current: of the image, or, once an image has slept, of whatever the
\* runtime takes for current.
LEMMA UserExitStep ==
    ASSUME RuntimeInv, pc = "user", UserExit, UNCHANGED launchVars
    PROVE  RuntimeInv'
  <1>1. /\ IInv /\ Generations /\ InitOK /\ CurrentOK /\ OneRunning /\ ZombiesExited
        /\ currentThread # NoTid /\ slept \in BOOLEAN
        /\ UNCHANGED <<initThread, image, launches, slept>>
        /\ pc' = "exited" /\ currentThread' = NoTid
    BY Zenon DEF RuntimeInv, CurrentOK, UserExit, ExitCurrent, ClearCurrent, launchVars
  <1>2. /\ \A s \in DOMAIN threads : threads[s].state = "Running" <=> s = currentThread.slot
        /\ IsThread(currentThread) /\ threads[currentThread.slot].process = currentProcess
    BY Zenon, <1>1 DEF OneRunning
  <1>3. CurrentOK'
    BY Zenon, <1>1 DEF CurrentOK, Stages
  <1>4. ASSUME ~slept
        PROVE  /\ ImageIn("Running") /\ currentProcess = image.process /\ RunningLive
               /\ threads[0].state = "Ready"
    <2>1. Awake /\ ImageIn("Running") /\ currentThread = image.thread
      BY Zenon, <1>4 DEF RuntimeInv, Awake
    <2>2. /\ image.process.slot \in DOMAIN processes
          /\ processes[image.process.slot].id = image.process
          /\ processes[image.process.slot].thread = image.thread
      BY Zenon, <2>1 DEF ImageIn, ProcessIn, IsProcess
    <2>3. threads[image.thread.slot].process = image.process
      BY Zenon, <1>1, <2>2, Kept DEF ThreadOf
    <2> QED
      BY Zenon, <1>2, <2>1, <2>3 DEF Awake
  <1>5. CASE currentProcess = INIT /\ SetThread(currentThread, "Exited")
    <2>1. slept
      BY Zenon, <1>1, <1>4, <1>5 DEF ImageIn
    <2>2. /\ threads' = [s \in DOMAIN threads |-> threads'[s]]
          /\ \A s \in DOMAIN threads :
                /\ threads'[s] \in ThreadRecord
                /\ threads'[s].id = threads[s].id
                /\ threads'[s].process = threads[s].process
                /\ threads'[s].state = IF s = currentThread.slot THEN "Exited"
                                       ELSE threads[s].state
          /\ UNCHANGED <<processes, idVars>>
      <3>1. \A s \in DOMAIN threads : threads[s] \in ThreadRecord
        BY Zenon, <1>1 DEF IInv, TypeOK
      <3> QED
        BY Zenon, <1>5, <3>1 DEF SetThread, ThreadRecord
    <2>3. IInv' /\ Generations' /\ InitOK' /\ DOMAIN threads' = DOMAIN threads
      BY Zenon, <1>1, <2>2, StateChange
    <2>4. OneRunning'
      <3>1. {s \in DOMAIN threads' : threads'[s].state = "Running"} = {}
        BY <1>2, <2>2, <2>3
      <3> QED
        BY Zenon, <1>1, <3>1 DEF OneRunning
    <2>5. ZombiesExited'
      <3>1. \A s \in DOMAIN processes : processes[s].thread.slot \in DOMAIN threads
        BY Zenon, <1>1, Kept
      <3> QED
        BY <1>1, <2>2, <3>1 DEF ZombiesExited, ThreadOf
    <2> QED
      BY Zenon, <1>1, <1>3, <2>1, <2>3, <2>4, <2>5 DEF RuntimeInv
  <1>6. CASE Exit(currentProcess)
    <2>1. PICK p \in ProcessId : p = currentProcess
      BY Zenon, <1>6 DEF Exit, ProcessIn, IsProcess
    <2>2. /\ IInv' /\ Generations' /\ InitOK' /\ ZombiesExited'
          /\ RunningLive => RunningLive'
          /\ p # INIT /\ DOMAIN threads' = DOMAIN threads
          /\ \A s \in DOMAIN threads :
                /\ threads'[s].process = threads[s].process
                /\ threads'[s].state = IF threads[s].process = p THEN "Exited"
                                       ELSE threads[s].state
          /\ ProcessIn(p, "Zombie")'
          /\ processes'[p.slot].thread = processes[p.slot].thread
          /\ processes[p.slot].parent = INIT => processes'[p.slot].parent = INIT
      BY Zenon, <1>1, <1>6, <2>1, ExitIs
    <2>3. OneRunning'
      <3>1. {s \in DOMAIN threads' : threads'[s].state = "Running"} = {}
        BY <1>2, <2>1, <2>2
      <3> QED
        BY Zenon, <1>1, <3>1 DEF OneRunning
    <2>4. ASSUME ~slept'
          PROVE  Awake'
      <3>1. /\ ImageIn("Running") /\ p = image.process /\ RunningLive
            /\ threads[0].state = "Ready"
        BY Zenon, <1>1, <1>4, <2>1, <2>4
      <3>2. ImageIn("Zombie")'
        BY Zenon, <1>1, <2>2, <3>1 DEF ImageIn
      <3>3. threads'[0].state = "Ready"
        BY Zenon, <1>1, <2>2, <3>1 DEF InitOK, IsThread
      <3> QED
        BY Zenon, <1>1, <2>2, <3>1, <3>2, <3>3 DEF Awake
    <2> QED
      BY Zenon, <1>1, <1>3, <2>2, <2>3, <2>4 DEF RuntimeInv
  <1> QED
    BY Zenon, <1>5, <1>6 DEF UserExit, ExitCurrent

\* reap of a zombie takes its process and its thread, and nothing else.
LEMMA ReapIs ==
    ASSUME RuntimeInv, NEW z \in DOMAIN processes, processes[z].state = "Zombie", Reap(z),
           UNCHANGED <<initThread, launches>>
    PROVE  /\ IInv' /\ Generations' /\ InitOK' /\ ZombiesExited'
           /\ RunningLive => RunningLive'
           /\ DOMAIN processes' = DOMAIN processes \ {z}
           /\ \A s \in DOMAIN processes' : processes'[s] = processes[s]
           /\ \A p : IsProcess(p) /\ p.slot # z => IsProcess(p)'
           /\ \A t : IsThread(t) /\ t.slot # processes[z].thread.slot => IsThread(t)'
           /\ DOMAIN threads' = DOMAIN threads \ {processes[z].thread.slot}
           /\ \A s \in DOMAIN threads' : threads'[s] = threads[s]
           /\ ThreadOf(z).state = "Exited"
  <1> DEFINE ts == processes[z].thread.slot
  <1>1. IInv /\ Generations /\ InitOK /\ ZombiesExited /\ IInv'
    BY Zenon, ReapStep DEF RuntimeInv
  <1>2. /\ processes[z].thread.gen < MaxGen /\ IsThread(processes[z].thread)
        /\ ts \in DOMAIN threads /\ ts \in TSlots /\ z \in PSlots
    BY Zenon, <1>1, Kept DEF Generations, ThreadId
  <1>3. threadGen[ts] < MaxGen
    BY Zenon, <1>2 DEF IsThread
  <1>4. /\ threads' = Release(threads, ts) /\ threadGen' = Bump(threadGen, ts)
        /\ processes' = Release(processes, z) /\ processGen' = Bump(processGen, z)
    <2>1. threadGen[ts] # MaxGen
      BY <1>1, <1>2, <1>3, Bounds DEF IInv, TypeOK
    <2> QED
      BY Zenon, <1>3, <2>1 DEF Reap
  <1> HIDE DEF ts
  <1>5. /\ DOMAIN processes' = DOMAIN processes \ {z}
        /\ \A s \in DOMAIN processes' : processes'[s] = processes[s]
        /\ DOMAIN threads' = DOMAIN threads \ {ts}
        /\ \A s \in DOMAIN threads' : threads'[s] = threads[s]
    BY Zenon, <1>4 DEF Release
  <1>6. /\ \A s \in PSlots : s # z => processGen'[s] = processGen[s]
        /\ \A s \in TSlots : s # ts => threadGen'[s] = threadGen[s]
        /\ threadGen'[ts] = threadGen[ts] + 1
    BY Zenon, <1>1, <1>2, <1>3, <1>4 DEF Bump, IInv, TypeOK
  <1>7. \A p : IsProcess(p) /\ p.slot # z => IsProcess(p)'
    BY Zenon, <1>5, <1>6 DEF IsProcess, ProcessId
  <1>8. \A t : IsThread(t) /\ t.slot # ts => IsThread(t)'
    BY Zenon, <1>5, <1>6 DEF IsThread, ThreadId
  <1>9. ThreadOf(z).state = "Exited"
    BY Zenon, <1>1 DEF ZombiesExited
  <1>10. z # 0 /\ ts # 0
    <2>1. z # 0
      BY Zenon, <1>1 DEF InitOK, ProcessIn, IsProcess, INIT
    <2>2. ThreadOf(z).process = processes[z].id /\ processes[z].id.slot = z
      BY Zenon, <1>1, Kept
    <2>3. INIT.slot = 0 /\ threads[0].process = INIT
      BY Zenon, <1>1 DEF InitOK, INIT
    <2> QED
      BY Zenon, <2>1, <2>2, <2>3 DEF ThreadOf, ts
  <1>11. InitOK'
    <2>1. initThread.slot = 0 /\ INIT.slot = 0 /\ 0 \in DOMAIN threads' /\ 0 \in DOMAIN processes'
      BY Zenon, <1>1, <1>5, <1>10 DEF InitOK, IsThread, ProcessIn, IsProcess, INIT
    <2> QED
      BY Zenon, <1>1, <1>5, <1>7, <1>8, <1>10, <2>1 DEF InitOK, ProcessIn
  <1>12. Generations'
    <2>1. \A s \in TSlots : threadGen'[s] <= launches'
      <3>1. threadGen[ts] + 1 <= launches
        BY <1>1, <1>2, <1>10, Bounds DEF Generations, IInv, TypeOK
      <3> QED
        BY Zenon, <1>1, <1>6, <3>1 DEF Generations
    <2>2. \A s \in DOMAIN threads' : s # 0 => threadGen'[s] < launches'
      BY Zenon, <1>1, <1>5, <1>6 DEF Generations, IInv, TypeOK
    <2> QED
      BY Zenon, <1>1, <1>5, <2>1, <2>2 DEF Generations
  <1>13. \A s \in DOMAIN processes' : ThreadOf(s)' = ThreadOf(s)
    <2> SUFFICES ASSUME NEW s \in DOMAIN processes' PROVE ThreadOf(s)' = ThreadOf(s)
      BY Zenon
    <2>1. s \in DOMAIN processes /\ s # z /\ processes'[s] = processes[s]
      BY Zenon, <1>5
    <2>2. processes[s].thread.slot \in DOMAIN threads /\ processes[s].thread.slot # ts
      BY Zenon, <1>1, <2>1, Kept, OwnThread DEF ts
    <2> QED
      BY Zenon, <1>5, <2>1, <2>2 DEF ThreadOf
  <1>14. ZombiesExited' /\ (RunningLive => RunningLive')
    BY Zenon, <1>1, <1>5, <1>13 DEF ZombiesExited, RunningLive
  <1> QED
    BY Zenon, <1>1, <1>5, <1>7, <1>8, <1>9, <1>11, <1>12, <1>14 DEF ts

\* Both forms of wait reap a zombie.
LEMMA WaitReaps ==
    ASSUME IInv, NEW parent, WaitAny(parent) \/ \E child \in ProcessId : WaitChild(parent, child)
    PROVE  \E z \in DOMAIN processes : processes[z].state = "Zombie" /\ Reap(z)
  <1>1. CASE WaitAny(parent)
    <2> DEFINE Z == ZombieChildren(parent)
               z == CHOOSE s \in Z : \A x \in Z : s <= x
    <2>1. Z \in SUBSET Nat /\ Z # {}
      <3>1. DOMAIN processes \subseteq Nat
        BY TableAssumption DEF IInv, TypeOK, PSlots
      <3> QED
        BY Zenon, <1>1, <3>1 DEF WaitAny, ZombieChildren
    <2>2. z \in Z
      <3> HIDE DEF Z
      <3> QED
        BY Zenon, <2>1, LeastExists
    <2>3. Reap(z)
      BY Zenon, <1>1 DEF WaitAny
    <2>4. z \in DOMAIN processes /\ processes[z].state = "Zombie"
      <3> HIDE DEF z
      <3> QED
        BY Zenon, <2>2 DEF ZombieChildren
    <2> HIDE DEF z, Z
    <2> QED
      BY Zenon, <2>3, <2>4
  <1>2. CASE \E child \in ProcessId : WaitChild(parent, child)
    BY Zenon, <1>2 DEF WaitChild, ZombieChildren
  <1> QED
    BY Zenon, <1>1, <1>2

\* A reap leaves the current pair alone: its thread runs, the zombie's has exited.
LEMMA ReapKeeps ==
    ASSUME RuntimeInv, NEW z \in DOMAIN processes, processes[z].state = "Zombie", Reap(z),
           UNCHANGED <<current, launchVars, slept>>,
           \/ pc \in {"kernel", "user"} /\ pc' = pc
           \/ pc = "restored" /\ pc' = "kernel"
    PROVE  RuntimeInv'
  <1>1. /\ CurrentOK /\ OneRunning /\ InitOK /\ slept \in BOOLEAN
        /\ UNCHANGED <<currentThread, currentProcess, initThread, image, launches, slept>>
    BY Zenon DEF RuntimeInv, current, launchVars
  <1>2. /\ IInv' /\ Generations' /\ InitOK' /\ ZombiesExited'
        /\ RunningLive => RunningLive'
        /\ DOMAIN processes' = DOMAIN processes \ {z}
        /\ \A s \in DOMAIN processes' : processes'[s] = processes[s]
        /\ \A p : IsProcess(p) /\ p.slot # z => IsProcess(p)'
        /\ \A t : IsThread(t) /\ t.slot # processes[z].thread.slot => IsThread(t)'
        /\ DOMAIN threads' = DOMAIN threads \ {processes[z].thread.slot}
        /\ \A s \in DOMAIN threads' : threads'[s] = threads[s]
        /\ ThreadOf(z).state = "Exited"
    BY Zenon, <1>1, ReapIs
  <1>3. CurrentOK'
    BY Zenon, <1>1 DEF CurrentOK, Stages
  <1>4. OneRunning'
    <2>1. threads[processes[z].thread.slot].state # "Running"
      BY Zenon, <1>2 DEF ThreadOf
    <2>2. {s \in DOMAIN threads' : threads'[s].state = "Running"} =
          {s \in DOMAIN threads : threads[s].state = "Running"}
      BY Zenon, <1>2, <2>1
    <2>3. CASE currentThread = NoTid
      BY Zenon, <1>1, <2>2, <2>3 DEF OneRunning
    <2>4. CASE currentThread # NoTid
      <3>1. /\ currentThread.slot \in DOMAIN threads /\ IsThread(currentThread)
            /\ threads[currentThread.slot].state = "Running"
        BY Zenon, <1>1, <2>4 DEF OneRunning
      <3>2. PICK t : t = currentThread
        BY Zenon
      <3>3. IsThread(t)' /\ currentThread.slot \in DOMAIN threads'
        BY Zenon, <1>2, <2>1, <3>1, <3>2
      <3> QED
        BY Zenon, <1>1, <1>2, <2>2, <2>4, <3>1, <3>2, <3>3 DEF OneRunning
    <2> QED
      BY Zenon, <2>3, <2>4
  <1>5. ASSUME ~slept'
        PROVE  Awake'
    <2>1. Awake
      BY <1>1, <1>5 DEF RuntimeInv
    <2>2. 0 \in DOMAIN threads' /\ threads'[0] = threads[0]
      BY <1>1, <1>2 DEF InitOK, IsThread
    <2>3. CASE pc' = "user"
      <3>1. pc = "user" /\ ImageIn("Running") /\ currentThread = image.thread
        BY Zenon, <2>1, <2>3 DEF Awake
      <3>2. PICK p : p = image.process
        BY Zenon
      <3>3. IsProcess(p)' /\ p.slot \in DOMAIN processes'
        BY Zenon, <1>2, <3>1, <3>2 DEF ImageIn, ProcessIn, IsProcess
      <3>4. ImageIn("Running")'
        BY Zenon, <1>1, <1>2, <3>1, <3>2, <3>3 DEF ImageIn, ProcessIn
      <3> QED
        BY Zenon, <1>1, <1>2, <2>1, <2>2, <2>3, <3>1, <3>4 DEF Awake
    <2>4. CASE pc' = "kernel"
      BY Zenon, <1>2, <2>1, <2>4 DEF Awake
    <2> QED
      BY Zenon, <2>3, <2>4
  <1> QED
    BY Zenon, <1>1, <1>2, <1>3, <1>4, <1>5 DEF RuntimeInv

\* wait_current, from the image, from the kernel and to collect the image.
LEMMA WaitKeeps ==
    ASSUME RuntimeInv, KernelReap \/ (pc = "user" /\ UserWait /\ UNCHANGED launchVars)
    PROVE  RuntimeInv'
  <1>1. PICK parent : WaitAny(parent) \/ \E child \in ProcessId : WaitChild(parent, child)
    BY Zenon DEF KernelReap, UserWait
  <1>2. PICK z \in DOMAIN processes : processes[z].state = "Zombie" /\ Reap(z)
    BY Zenon, <1>1, WaitReaps DEF RuntimeInv
  <1>3. /\ UNCHANGED <<current, launchVars, slept>>
        /\ pc \in {"kernel", "user"} /\ pc' = pc
    BY Zenon DEF KernelReap, UserWait
  <1> QED
    BY Zenon, <1>2, <1>3, ReapKeeps

\* The image is collected; the unwrap does not fail as long as none has slept.
LEMMA CollectStep ==
    ASSUME RuntimeInv, Collect
    PROVE  RuntimeInv'
  <1>1. /\ pc = "restored" /\ UNCHANGED <<current, launchVars, slept>>
    BY Zenon DEF Collect
  <1>2. CASE WaitChild(currentProcess, image.process) /\ pc' = "kernel"
    <2>1. \E z \in DOMAIN processes : processes[z].state = "Zombie" /\ Reap(z)
      BY Zenon, <1>2 DEF WaitChild, ZombieChildren
    <2> QED
      BY Zenon, <1>1, <1>2, <2>1, ReapKeeps
  <1>3. CASE /\ ~(IsProcess(image.process)
                  /\ image.process.slot \in ZombieChildren(currentProcess))
             /\ pc' = "panic" /\ UNCHANGED tableVars
    <2>1. slept
      <3> SUFFICES ASSUME ~slept PROVE FALSE
        BY Zenon DEF RuntimeInv
      <3>1. ImageIn("Zombie") /\ currentProcess = INIT
        BY Zenon, <1>1 DEF RuntimeInv, Awake, CurrentOK
      <3> QED
        BY Zenon, <1>3, <3>1 DEF ImageIn, ProcessIn, IsProcess, ZombieChildren
    <2>2. IInv'
      BY Zenon, <1>3, NextIInv DEF RuntimeInv
    <2>3. Generations' /\ InitOK'
      BY Zenon, <1>1, <1>3 DEF RuntimeInv, Generations, InitOK, ProcessIn, IsProcess, IsThread,
                        tableVars, idVars, launchVars
    <2>4. ZombiesExited' /\ OneRunning'
      BY Zenon, <1>1, <1>3 DEF RuntimeInv, ZombiesExited, OneRunning, ThreadOf, IsThread, tableVars,
                        idVars, current
    <2>5. CurrentOK' /\ slept' = slept
      BY Zenon, <1>1, <1>3 DEF CurrentOK, Stages
    <2> QED
      BY Zenon, <2>1, <2>2, <2>3, <2>4, <2>5 DEF RuntimeInv
  <1> QED
    BY Zenon, <1>2, <1>3 DEF Collect

\* close changes one descriptor of the current process.
LEMMA CloseStep ==
    ASSUME RuntimeInv, pc = "user", UserClose, UNCHANGED launchVars
    PROVE  RuntimeInv'
  <1>0. PICK p : p = currentProcess
    BY Zenon
  <1>1. PICK f \in FdSlots : CloseFd(p, f)
    BY Zenon, <1>0 DEF UserClose
  <1>2. /\ CurrentOK /\ OneRunning /\ InitOK /\ slept \in BOOLEAN /\ IInv /\ Generations
        /\ UNCHANGED <<currentThread, currentProcess, initThread, image, launches, slept, pc>>
    BY Zenon DEF RuntimeInv, UserClose, current, launchVars
  <1>3. p \in ProcessId /\ p.slot \in DOMAIN processes /\ UNCHANGED <<threads, idVars>>
    BY Zenon, <1>1 DEF CloseFd, IsProcess, SetFds
  <1>4. IInv'
    BY Zenon, <1>1, <1>2, <1>3, DescriptorStep
  <1>5. /\ DOMAIN processes' = DOMAIN processes
        /\ \A s \in DOMAIN processes : /\ processes'[s].id = processes[s].id
                                       /\ processes'[s].parent = processes[s].parent
                                       /\ processes'[s].state = processes[s].state
                                       /\ processes'[s].thread = processes[s].thread
    <2>1. \A s \in DOMAIN processes : processes[s] \in ProcessRecord
      BY Zenon, <1>2 DEF IInv, TypeOK
    <2>2. PICK fds : processes' = [processes EXCEPT ![p.slot].fds = fds]
      BY Zenon, <1>1 DEF CloseFd, SetFds
    <2> QED
      BY <1>3, <2>1, <2>2 DEF ProcessRecord
  <1>6. \A q, state : ProcessIn(q, state)' <=> ProcessIn(q, state)
    BY Zenon, <1>3, <1>5 DEF ProcessIn, IsProcess, idVars
  <1>7. \A t : IsThread(t)' <=> IsThread(t)
    BY Zenon, <1>3 DEF IsThread, idVars
  <1>8. Generations'
    BY Zenon, <1>2, <1>3, <1>5 DEF Generations, idVars
  <1>9. InitOK'
    BY Zenon, <1>2, <1>3, <1>6, <1>7 DEF InitOK
  <1>10. CurrentOK' /\ OneRunning'
    BY Zenon, <1>2, <1>3, <1>7 DEF CurrentOK, OneRunning
  <1>11. ZombiesExited' /\ (RunningLive => RunningLive')
    BY <1>3, <1>5 DEF RuntimeInv, ZombiesExited, RunningLive, ThreadOf
  <1>12. ASSUME ~slept'
         PROVE  Awake'
    <2>1. /\ Awake /\ ImageIn("Running") /\ currentThread = image.thread
          /\ threads[0].state = "Ready"
      BY Zenon, <1>2, <1>12 DEF RuntimeInv, Awake
    <2>2. image.process.slot \in DOMAIN processes
      BY Zenon, <2>1 DEF ImageIn, ProcessIn, IsProcess
    <2>3. ImageIn("Running")'
      BY Zenon, <1>2, <1>5, <1>6, <2>1, <2>2 DEF ImageIn
    <2> QED
      BY Zenon, <1>2, <1>3, <1>11, <2>1, <2>3 DEF Awake
  <1> QED
    BY Zenon, <1>2, <1>4, <1>8, <1>9, <1>10, <1>11, <1>12 DEF RuntimeInv

\* spawn_child_current: the new process is a child of INIT with a Ready thread
\* in a slot that nobody has.
LEMMA LaunchStep ==
    ASSUME RuntimeInv, Launch
    PROVE  RuntimeInv'
  <1>a. PICK ps, ts : /\ ps = FirstFree(PSlots, DOMAIN processes)
                      /\ ts = FirstFree(TSlots, DOMAIN threads)
    BY Zenon
  <1>b. PICK p, t : /\ p = [slot |-> ps, gen |-> processGen[ps]]
                    /\ t = [slot |-> ts, gen |-> threadGen[ts]]
    BY Zenon
  <1>1. /\ pc = "kernel" /\ SpawnChild(currentProcess) /\ launches < MaxLaunches
        /\ launches' = launches + 1 /\ pc' \in {"spawned", "kernel"}
        /\ image' = [process |-> processes'[ps].id, thread |-> processes'[ps].thread]
        /\ UNCHANGED <<currentThread, currentProcess, initThread, slept>>
    BY Zenon, <1>a DEF Launch, current
  <1>2. /\ IInv /\ Generations /\ InitOK /\ ZombiesExited /\ CurrentOK /\ OneRunning
        /\ currentThread = initThread /\ currentProcess = INIT /\ slept \in BOOLEAN
    BY Zenon, <1>1 DEF RuntimeInv, CurrentOK
  <1>3. IInv'
    <2>1. INIT \in ProcessId
      BY Zenon, <1>2 DEF InitOK, ProcessIn, IsProcess
    <2> QED
      BY Zenon, <1>1, <1>2, <2>1, SpawnChildStep
  <1>4. ps \in PSlots \ DOMAIN processes /\ ts \in TSlots \ DOMAIN threads
    BY <1>1, <1>a, FirstFreeIsFree, TableAssumption DEF SpawnChild, SpawnIn, PSlots, TSlots
  <1>5. /\ processes' = Occupy(processes, ps, NewProcess(p, INIT, t))
        /\ threads' = Occupy(threads, ts, NewThread(t, p))
        /\ UNCHANGED idVars
    BY Zenon, <1>1, <1>2, <1>a, <1>b DEF SpawnChild, SpawnIn
  <1>6. /\ p.slot = ps /\ p.gen = processGen[ps] /\ t.slot = ts /\ t.gen = threadGen[ts]
        /\ p \in ProcessId /\ t \in ThreadId
    BY Zenon, <1>2, <1>4, <1>b DEF IInv, TypeOK, ProcessId, ThreadId
  <1>7. /\ DOMAIN processes' = DOMAIN processes \cup {ps}
        /\ \A s \in DOMAIN processes : processes'[s] = processes[s]
        /\ processes'[ps] = NewProcess(p, INIT, t)
    BY Zenon, <1>4, <1>5 DEF Occupy
  <1>8. /\ DOMAIN threads' = DOMAIN threads \cup {ts}
        /\ \A s \in DOMAIN threads : threads'[s] = threads[s]
        /\ threads'[ts] = NewThread(t, p)
    BY Zenon, <1>4, <1>5 DEF Occupy
  <1>9. /\ processes'[ps].id = p /\ processes'[ps].parent = INIT
        /\ processes'[ps].thread = t /\ processes'[ps].state = "Running"
        /\ threads'[ts].id = t /\ threads'[ts].process = p /\ threads'[ts].state = "Ready"
    <2>1. /\ NewProcess(p, INIT, t).id = p /\ NewProcess(p, INIT, t).parent = INIT
          /\ NewProcess(p, INIT, t).thread = t /\ NewProcess(p, INIT, t).state = "Running"
      BY Zenon DEF NewProcess
    <2>2. /\ NewThread(t, p).id = t /\ NewThread(t, p).process = p
          /\ NewThread(t, p).state = "Ready"
      BY Zenon DEF NewThread
    <2> QED
      BY Zenon, <1>7, <1>8, <2>1, <2>2
  <1>10. \A q : IsThread(q) => IsThread(q)'
    BY Zenon, <1>5, <1>8 DEF IsThread, idVars
  <1>11. \A q, state : ProcessIn(q, state) => ProcessIn(q, state)'
    BY Zenon, <1>5, <1>7 DEF ProcessIn, IsProcess, idVars
  <1>12. InitOK'
    <2>1. 0 \in DOMAIN threads
      BY Zenon, <1>2 DEF InitOK, IsThread
    <2> QED
      BY Zenon, <1>1, <1>2, <1>8, <1>10, <1>11, <2>1 DEF InitOK
  <1>13. Generations'
    <2>1. launches' \in 0 .. MaxLaunches /\ launches \in Nat
      BY <1>1, <1>2, Bounds DEF Generations
    <2>2. \A s \in TSlots : threadGen[s] \in Nat /\ threadGen'[s] = threadGen[s]
      BY <1>2, <1>5 DEF IInv, TypeOK, idVars
    <2>3. /\ \A s \in TSlots : threadGen[s] <= launches
          /\ launches' = launches + 1 /\ launches < MaxLaunches
      BY Zenon, <1>1, <1>2 DEF Generations
    <2>4. \A s \in TSlots : threadGen'[s] <= launches' /\ threadGen'[s] < launches'
      BY <2>3, <2>1, <2>2
    <2>5. \A s \in DOMAIN threads' : s # 0 => threadGen'[s] < launches'
      <3>1. DOMAIN threads' \subseteq TSlots
        BY Zenon, <1>2, <1>4, <1>8 DEF IInv, TypeOK
      <3> QED
        BY Zenon, <2>4, <3>1
    <2>6. t.gen < MaxGen
      <3>1. t.gen = threadGen[ts] /\ ts \in TSlots
        BY Zenon, <1>4, <1>6
      <3> QED
        BY <2>3, <2>1, <2>2, <3>1, Bounds
    <2>7. \A s \in DOMAIN processes' : processes'[s].thread.gen < MaxGen
      BY Zenon, <1>2, <1>7, <1>9, <2>6 DEF Generations
    <2> QED
      BY Zenon, <2>1, <2>4, <2>5, <2>7 DEF Generations
  <1>14. /\ ThreadOf(ps)'.state = "Ready"
         /\ \A s \in DOMAIN processes : ThreadOf(s)' = ThreadOf(s)
    <2>1. ThreadOf(ps)'.state = "Ready"
      BY Zenon, <1>6, <1>9 DEF ThreadOf
    <2>2. \A s \in DOMAIN processes : processes[s].thread.slot \in DOMAIN threads
      BY Zenon, <1>2, Kept
    <2> QED
      BY Zenon, <1>7, <1>8, <2>1, <2>2 DEF ThreadOf
  <1>15. ZombiesExited' /\ (RunningLive => RunningLive')
    BY Zenon, <1>2, <1>7, <1>9, <1>14 DEF ZombiesExited, RunningLive
  <1>16. OneRunning'
    <2>1. {s \in DOMAIN threads' : threads'[s].state = "Running"} =
          {s \in DOMAIN threads : threads[s].state = "Running"}
      BY Zenon, <1>4, <1>8, <1>9
    <2>2. initThread # NoTid /\ initThread.slot = 0 /\ 0 \in DOMAIN threads
      BY Zenon, <1>2, Bounds DEF InitOK, NoTid, IsThread
    <2> QED
      BY Zenon, <1>1, <1>2, <1>8, <1>12, <2>1, <2>2 DEF OneRunning, InitOK
  <1>17. CurrentOK'
    BY Zenon, <1>1, <1>2 DEF CurrentOK, Stages
  <1>18. ASSUME ~slept'
         PROVE  Awake'
    <2>1. RunningLive
      BY Zenon, <1>1, <1>18 DEF RuntimeInv, Awake
    <2>2. image'.process = p /\ image'.thread = t
      BY Zenon, <1>1, <1>9
    <2>3. ps # 0
      BY Zenon, <1>2, <1>4 DEF InitOK, ProcessIn, IsProcess, INIT
    <2>4. p # INIT
      BY <1>6, <2>3 DEF INIT
    <2>5. ProcessIn(p, "Running")'
      BY Zenon, <1>5, <1>6, <1>7, <1>9 DEF ProcessIn, IsProcess, idVars
    <2>6. ImageIn("Running")' /\ threads'[image'.thread.slot].state = "Ready"
      BY Zenon, <1>6, <1>9, <2>2, <2>4, <2>5 DEF ImageIn
    <2> QED
      BY Zenon, <1>1, <1>15, <2>1, <2>6 DEF Awake
  <1> QED
    BY Zenon, <1>1, <1>2, <1>3, <1>12, <1>13, <1>15, <1>16, <1>17, <1>18 DEF RuntimeInv

-----------------------------------------------------------------------------
(* The specification *)

\* init_runtime: INIT with its thread running.
LEMMA RuntimeInitInv == RuntimeInit => RuntimeInv
  <1> SUFFICES ASSUME RuntimeInit PROVE RuntimeInv
    BY Zenon
  <1> DEFINE t == [slot |-> 0, gen |-> 0]
  <1>1. /\ processes = [s \in {0} |-> NewProcess(INIT, NoPid, t)]
        /\ threads = [s \in {0} |-> [NewThread(t, INIT) EXCEPT !.state = "Running"]]
        /\ processGen = [s \in PSlots |-> 0] /\ threadGen = [s \in TSlots |-> 0]
        /\ retiredP = {} /\ retiredT = {}
        /\ currentProcess = INIT /\ currentThread = t /\ initThread = t
        /\ pc = "kernel" /\ launches = 0 /\ slept = FALSE
    BY Zenon DEF RuntimeInit
  <1>2. INIT \in ProcessId /\ t \in ThreadId /\ 0 \in PSlots /\ 0 \in TSlots
    BY Bounds DEF INIT, ProcessId, ThreadId
  <1>3. NewProcess(INIT, NoPid, t) \in ProcessRecord
    BY Zenon, <1>2, NewProcessType
  <1>4. /\ threads[0] = [id |-> t, process |-> INIT, state |-> "Running"]
        /\ DOMAIN threads = {0} /\ DOMAIN processes = {0}
        /\ processes[0] = NewProcess(INIT, NoPid, t)
    BY Zenon, <1>1 DEF NewThread
  <1>5. /\ processes[0].id = INIT /\ processes[0].thread = t
        /\ processes[0].state = "Running" /\ INIT = [slot |-> 0, gen |-> 0]
    BY <1>4 DEF NewProcess, INIT
  <1>6. TypeOK
    <2>1. threads[0] \in ThreadRecord /\ processes[0] \in ProcessRecord
      BY <1>2, <1>3, <1>4 DEF ThreadRecord
    <2>2. /\ processGen \in [PSlots -> 0 .. MaxGen] /\ threadGen \in [TSlots -> 0 .. MaxGen]
      BY <1>1, Bounds
    <2>3. /\ processes = [s \in DOMAIN processes |-> processes[s]]
          /\ threads = [s \in DOMAIN threads |-> threads[s]]
      BY Zenon, <1>1
    <2> QED
      BY Zenon, <1>1, <1>2, <1>4, <2>1, <2>2, <2>3 DEF TypeOK
  <1>7. ProcessIn(INIT, "Running") /\ IsThread(t)
    BY Zenon, <1>1, <1>2, <1>4, <1>5 DEF ProcessIn, IsProcess, IsThread
  <1>8. TableInv
    BY <1>1, <1>2, <1>4, <1>5, <1>7 DEF TableInv
  <1>9. ParentRunning /\ ThreadsOwned /\ ThreadKept
    BY <1>4, <1>5, <1>7 DEF ParentRunning, ThreadsOwned, ThreadKept, ProcessIn
  <1>10. Generations
    <2>1. \A s \in TSlots : threadGen[s] = 0
      BY Zenon, <1>1
    <2>2. processes[0].thread.gen < MaxGen /\ 0 \in 0 .. MaxLaunches
      BY <1>5, Bounds
    <2> QED
      BY <1>1, <1>4, <2>1, <2>2 DEF Generations
  <1>11. InitOK
    BY Zenon, <1>1, <1>4, <1>7 DEF InitOK
  <1>12. ZombiesExited /\ RunningLive
    BY <1>4, <1>5 DEF ZombiesExited, RunningLive, ThreadOf
  <1>13. t # NoTid
    BY Zenon, Bounds DEF NoTid
  <1>14. OneRunning
    BY Zenon, <1>1, <1>4, <1>7, <1>13 DEF OneRunning
  <1>15. CurrentOK
    BY Zenon, <1>1 DEF CurrentOK, Stages
  <1>16. Awake
    BY Zenon, <1>1, <1>12 DEF Awake
  <1> QED
    BY Zenon, <1>1, <1>6, <1>8, <1>9, <1>10, <1>11, <1>12, <1>14, <1>15, <1>16 DEF RuntimeInv, IInv

\* Every step of the kernel and of the image keeps the invariant.
LEMMA RuntimeNextInv == RuntimeInv /\ [RuntimeNext]_runtimeVars => RuntimeInv'
  <1> SUFFICES ASSUME RuntimeInv, [RuntimeNext]_runtimeVars PROVE RuntimeInv'
    BY Zenon
  <1>1. CASE Syscall
    BY Zenon, <1>1, UserExitStep, WaitKeeps, CloseStep, YieldStep, SleepStep DEF Syscall
  <1>2. CASE UNCHANGED runtimeVars
    <2>1. IInv'
      BY Zenon, <1>2, NextIInv DEF RuntimeInv, runtimeVars
    <2>2. /\ Generations' = Generations /\ InitOK' = InitOK
          /\ ZombiesExited' = ZombiesExited /\ CurrentOK' = CurrentOK
          /\ OneRunning' = OneRunning
      BY Zenon, <1>2 DEF Generations, InitOK, ZombiesExited, CurrentOK, OneRunning, ThreadOf, ProcessIn,
                  IsProcess, IsThread, runtimeVars, tableVars, idVars, current, launchVars
    <2>3. Awake' = Awake /\ slept' = slept
      BY Zenon, <1>2 DEF Awake, RunningLive, ImageIn, ThreadOf, ProcessIn, IsProcess, runtimeVars,
                  tableVars, idVars, current, launchVars
    <2> QED
      BY Zenon, <2>1, <2>2, <2>3 DEF RuntimeInv
  <1> QED
    BY Zenon, <1>1, <1>2, LaunchStep, EnterUserStep, RestoreInitStep, CollectStep, KernelExitStep,
       WaitKeeps DEF RuntimeNext

\* The invariant holds in every reachable state.
LEMMA RuntimeInvHolds == RuntimeSpec => []RuntimeInv
  BY RuntimeInitInv, RuntimeNextInv, PTL DEF RuntimeSpec

\* Whatever the image calls and the supervisor ends, at most one thread is
\* Running and it is the one the runtime holds for current (switch_to_user,
\* yield_current, sleep_current, exit_current, restore_init).
THEOREM OneThreadRuns == RuntimeSpec => []OneRunning
  <1>1. RuntimeInv => OneRunning
    BY Zenon DEF RuntimeInv
  <1> QED
    BY <1>1, RuntimeInvHolds, PTL

\* As long as no image calls sleep, the current pair is that of the image that
\* executes, and every image comes back and is collected: no unwrap of
\* run_user_fixture fails.
THEOREM ImagesReturn == RuntimeSpec => []ImageReturns
  <1>1. RuntimeInv => ImageReturns
    <2> SUFFICES ASSUME RuntimeInv, ~slept PROVE
            /\ AlignedWithContext /\ pc # "panic"
            /\ pc = "spawned" => /\ ThreadIn(currentThread, {"Running"})
                                 /\ ThreadIn(image.thread, {"Ready"})
            /\ RunningLive
      BY Zenon DEF ImageReturns, RunningLive, ThreadOf
    <2>1. Awake /\ IInv /\ Generations /\ CurrentOK /\ OneRunning /\ InitOK
      BY Zenon DEF RuntimeInv
    <2>2. ASSUME pc = "spawned"
          PROVE  ThreadIn(currentThread, {"Running"}) /\ ThreadIn(image.thread, {"Ready"})
      <3>1. currentThread = initThread /\ currentThread # NoTid
        BY <2>1, <2>2, Bounds DEF CurrentOK, InitOK, NoTid
      <3>2. ThreadIn(currentThread, {"Running"})
        BY Zenon, <2>1, <3>1 DEF OneRunning, ThreadIn
      <3>3. /\ processes[image.process.slot].thread = image.thread
            /\ image.process.slot \in DOMAIN processes
            /\ threads[image.thread.slot].state = "Ready"
        BY Zenon, <2>1, <2>2 DEF Awake, ImageIn, ProcessIn, IsProcess
      <3>4. IsThread(image.thread)
        BY Zenon, <2>1, <3>3, Kept
      <3> QED
        BY Zenon, <3>2, <3>3, <3>4 DEF ThreadIn
    <2> QED
      BY Zenon, <2>1, <2>2 DEF Awake, AlignedWithContext
  <1> QED
    BY <1>1, RuntimeInvHolds, PTL
=============================================================================
