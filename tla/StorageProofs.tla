---------------------------- MODULE StorageProofs ----------------------------
(***************************************************************************)
(* Proofs about Storage: for any queues, tasks, statuses and any bounds on *)
(* version objects and rows, and whichever commits fail.                   *)
(***************************************************************************)
EXTENDS Storage, TLAPS

USE NoneAssumption, ForeignAssumption

-----------------------------------------------------------------------------
(* Deleting rows, whether or not the delete is committed.                  *)

LEMMA CommitStep ==
  ASSUME TypeOK, NEW R \in SUBSET Row, \A r \in R : rows[r] # None, Commit(R)
  PROVE  /\ \A r \in Row : rows'[r] \in {rows[r], None}
         /\ \A r \in Row \ R : rows'[r] = rows[r]
         /\ \A r \in R : rows'[r] = None \/ rows[r].task \in astray'
         /\ astray \subseteq astray'
         /\ \A t \in astray' : t \in astray \/ \E r \in R : rows[r].task = t
         /\ rows' \in [Row -> Entry \cup {None}]
         /\ astray' \subseteq Task
<1>1. CASE /\ rows' = [r \in Row |-> IF r \in R THEN None ELSE rows[r]]
           /\ UNCHANGED astray
  BY <1>1 DEF TypeOK
<1>2. CASE /\ astray' = astray \cup {rows[r].task : r \in R}
           /\ UNCHANGED rows
  <2>1. \A r \in R : rows[r].task \in Task BY DEF TypeOK, Entry
  <2> QED BY <1>2, <2>1 DEF TypeOK
<1> QED BY <1>1, <1>2 DEF Commit

-----------------------------------------------------------------------------
(* What TasksGet does, task by task and object by object.                  *)

\* The tasks that TasksGet finds in the table ...
Listed(q) == {rows[r].task : r \in RowsOf(q)}

\* ... and those it gives a first version.
Unversioned(q) ==
  {t \in Task : cache[q][t] = None /\ (t \in Listed(q) \/ mem[q][t] # None)}

LEMMA TasksGetStep ==
  ASSUME TypeOK, NEW q \in Queue, TasksGet(q)
  PROVE  /\ Commit(RowsOf(q))
         /\ \A p \in Queue, t \in Task :
              p # q \/ t \notin Listed(q) \/ mem[p][t] # None =>
                mem'[p][t] = mem[p][t]
         /\ \A t \in Listed(q) : mem[q][t] = None =>
              \E r \in RowsOf(q) : rows[r].task = t /\ mem'[q][t] = rows[r].record
         /\ \A p \in Queue, t \in Task :
              p # q \/ t \notin Unversioned(q) => cache'[p][t] = cache[p][t]
         /\ \A t \in Unversioned(q) :
              /\ cache'[q][t] \in FreeObject
              /\ objs'[cache'[q][t]] = NewTask(t, mem'[q][t].status)
         /\ \A t, u \in Unversioned(q) : cache'[q][t] = cache'[q][u] => t = u
         /\ \A o \in Object : (\A t \in Unversioned(q) : cache'[q][t] # o) =>
              objs'[o] = objs[o]
         /\ mem' \in [Queue -> [Task -> Record \cup {None}]]
         /\ objs' \in [Object -> Version \cup {None}]
         /\ cache' \in [Queue -> [Task -> Object \cup {None}]]
<1> USE DEF TypeOK
<1> DEFINE N == Unversioned(q)
           T == Listed(q)
<1>1. PICK f \in Injection(N, FreeObject) :
        /\ objs' = [o \in Object |->
                      IF \E t \in N : f[t] = o
                        THEN LET t == CHOOSE t \in N : f[t] = o
                             IN  NewTask(t, mem'[q][t].status)
                        ELSE objs[o]]
        /\ cache' = [cache EXCEPT ![q] = [t \in Task |->
                       IF t \in N THEN f[t] ELSE cache[q][t]]]
  BY DEF TasksGet, Unversioned, Listed
<1>2. /\ N \subseteq Task
      /\ f \in [N -> FreeObject]
      /\ \A t, u \in N : f[t] = f[u] => t = u
      /\ FreeObject \subseteq Object
  BY <1>1 DEF Unversioned, Injection, IsInjective, FreeObject
<1>m. PICK first \in [T -> RowsOf(q)] :
        /\ \A t \in T : rows[first[t]].task = t
        /\ mem' = [mem EXCEPT ![q] = [t \in Task |->
                     IF t \in T /\ mem[q][t] = None
                       THEN rows[first[t]].record ELSE mem[q][t]]]
  BY DEF TasksGet, Listed
<1>r. \A r \in RowsOf(q) : rows[r].record \in Record /\ rows[r].task \in Task
  BY DEF RowsOf, Entry
<1>n. /\ \A p \in Queue, t \in Task :
           mem'[p][t] = IF p = q /\ t \in T /\ mem[q][t] = None
                          THEN rows[first[t]].record ELSE mem[p][t]
      /\ mem' \in [Queue -> [Task -> Record \cup {None}]]
  BY <1>m, <1>r
<1>l. T \subseteq Task BY <1>r DEF Listed
<1>3. \A t \in N : mem'[q][t] \in Record /\ NewTask(t, mem'[q][t].status) \in Version
  <2>1. \A t \in N : mem'[q][t] \in Record
    BY <1>m, <1>n, <1>r DEF Unversioned
  <2> QED BY <2>1, <1>2 DEF Record, NewTask, Version
<1>4. \A t \in N : (CHOOSE u \in N : f[u] = f[t]) = t
  BY <1>2
<1>5. \A t \in N : objs'[f[t]] = NewTask(t, mem'[q][t].status)
  BY <1>1, <1>2, <1>4
<1>6. \A o \in Object : (\A t \in N : f[t] # o) => objs'[o] = objs[o]
  BY <1>1
<1>7. \A p \in Queue, t \in Task :
        cache'[p][t] = IF p = q /\ t \in N THEN f[t] ELSE cache[p][t]
  BY <1>1
<1>8. cache' \in [Queue -> [Task -> Object \cup {None}]]
  BY <1>1, <1>2
<1>9. objs' \in [Object -> Version \cup {None}]
  <2>1. \A o \in Object : objs'[o] \in Version \cup {None}
    BY <1>3, <1>5, <1>6
  <2> QED BY <2>1, <1>1
<1>10. Commit(RowsOf(q)) BY DEF TasksGet
<1>11. /\ \A p \in Queue, t \in Task :
            p # q \/ t \notin T \/ mem[p][t] # None => mem'[p][t] = mem[p][t]
       /\ \A t \in T : mem[q][t] = None =>
            \E r \in RowsOf(q) : rows[r].task = t /\ mem'[q][t] = rows[r].record
  BY <1>l, <1>m, <1>n
<1>13. /\ \A t \in N : cache'[q][t] \in FreeObject
                       /\ objs'[cache'[q][t]] = NewTask(t, mem'[q][t].status)
       /\ \A t, u \in N : cache'[q][t] = cache'[q][u] => t = u
  BY <1>2, <1>5, <1>7
<1>14. \A o \in Object : (\A t \in N : cache'[q][t] # o) => objs'[o] = objs[o]
  BY <1>2, <1>6, <1>7
<1> QED BY <1>7, <1>8, <1>9, <1>n, <1>10, <1>11, <1>13, <1>14

-----------------------------------------------------------------------------
(* What finding a task does.                                               *)

\* Current gives a task that has no version one, from a row it has.
Versioned(q, t, r, o) ==
  /\ cache[q][t] = None
  /\ mem[q][t] = None
  /\ r \in RowsOfTask(t)
  /\ o \in FreeObject
  /\ Commit({r})
  /\ mem' = [mem EXCEPT ![q][t] = rows[r].record]
  /\ objs' = [objs EXCEPT ![o] = NewTask(t, rows[r].record.status)]
  /\ cache' = [cache EXCEPT ![q][t] = o]

LEMMA CurrentStep ==
  ASSUME IInv, NEW q \in Queue, NEW t \in Task, Ready(q), Current(q, t)
  PROVE  \/ cache[q][t] # None /\ UNCHANGED <<rows, mem, objs, cache, astray>>
         \/ \E r \in Row, o \in Object : Versioned(q, t, r, o)
<1>1. CASE cache[q][t] # None BY <1>1 DEF Current
<1>2. CASE cache[q][t] = None
  <2>1. PICK o \in FreeObject :
          /\ objs' = [objs EXCEPT ![o] = NewTask(t, mem'[q][t].status)]
          /\ cache' = [cache EXCEPT ![q][t] = o]
    BY <1>2 DEF Current
  <2>2. LoadTask(q, t) BY <1>2 DEF Current
  <2>3. mem[q][t] = None BY <1>2 DEF IInv, LayersAgree, Ready
  <2>4. PICK r \in RowsOfTask(t) :
          /\ mem' = [mem EXCEPT ![q][t] = rows[r].record]
          /\ Commit({r})
    BY <2>2, <2>3 DEF LoadTask
  <2>5. mem'[q][t] = rows[r].record BY <2>4 DEF IInv, TypeOK
  <2>6. r \in Row /\ o \in Object BY DEF RowsOfTask, FreeObject
  <2> QED BY <1>2, <2>1, <2>3, <2>4, <2>5, <2>6 DEF Versioned
<1> QED BY <1>1, <1>2

-----------------------------------------------------------------------------
(* Types.                                                                  *)

StoreTypes == /\ rows' \in [Row -> Entry \cup {None}]
              /\ astray' \subseteq Task
              /\ mem' \in [Queue -> [Task -> Record \cup {None}]]
              /\ objs' \in [Object -> Version \cup {None}]
              /\ cache' \in [Queue -> [Task -> Object \cup {None}]]

LEMMA CurrentTypes ==
  ASSUME IInv, NEW q \in Queue, NEW t \in Task, Ready(q), Current(q, t)
  PROVE  StoreTypes
<1> TypeOK BY DEF IInv
<1> USE DEF TypeOK, StoreTypes
<1>1. CASE UNCHANGED <<rows, mem, objs, cache, astray>> BY <1>1
<1>2. ASSUME NEW r \in Row, NEW o \in Object, Versioned(q, t, r, o) PROVE StoreTypes
  <2>1. rows[r] # None /\ rows[r].record \in Record
    BY <1>2 DEF Versioned, RowsOfTask, Entry
  <2>2. NewTask(t, rows[r].record.status) \in Version
    BY <2>1 DEF NewTask, Record, Version
  <2>3. Commit({r}) BY <1>2 DEF Versioned
  <2>4. rows' \in [Row -> Entry \cup {None}] /\ astray' \subseteq Task
    BY <2>1, <2>3, CommitStep
  <2> QED BY <1>2, <2>1, <2>2, <2>4 DEF Versioned
<1> QED BY <1>1, <1>2, CurrentStep

\* Writing the records of a queue back: every row is as it was, or a new one
\* of a root task.
LEMMA SaveStep ==
  ASSUME TypeOK, NEW q \in Queue, Save(q)
  PROVE  /\ rows' \in [Row -> Entry \cup {None}]
         /\ \A r \in Row : \/ rows'[r] = rows[r]
                           \/ /\ rows[r] = None
                              /\ rows'[r] # None
                              /\ rows'[r].task \in Saved(q)
                              /\ rows'[r].record = mem[q][rows'[r].task]
         /\ \A r, s \in Row : rows[r] = None /\ rows[s] = None /\ rows'[r] # None
                              /\ rows'[s] # None /\ rows'[r].task = rows'[s].task => r = s
         /\ \/ rows' = rows
            \/ \A t \in Saved(q) : \E r \in Row :
                 rows[r] = None /\ rows'[r] = [task |-> t, record |-> mem[q][t]]
<1> DEFINE F == {r \in Row : rows[r] = None}
           S == Saved(q)
           E(t) == [task |-> t, record |-> mem[q][t]]
<1>1. CASE UNCHANGED rows BY <1>1 DEF TypeOK
<1>2. ASSUME NEW f \in Injection(S, F),
             rows' = [r \in Row |->
                       IF \E t \in S : f[t] = r
                         THEN LET t == CHOOSE t \in S : f[t] = r
                              IN  [task |-> t, record |-> mem[q][t]]
                         ELSE rows[r]]
      PROVE  /\ rows' \in [Row -> Entry \cup {None}]
             /\ \A r \in Row : \/ rows'[r] = rows[r]
                               \/ /\ rows[r] = None
                                  /\ rows'[r] # None
                                  /\ rows'[r].task \in S
                                  /\ rows'[r].record = mem[q][rows'[r].task]
             /\ \A r, s \in Row : rows[r] = None /\ rows[s] = None /\ rows'[r] # None
                                  /\ rows'[s] # None /\ rows'[r].task = rows'[s].task => r = s
             /\ \A t \in S : \E r \in Row : rows[r] = None /\ rows'[r] = E(t)
  <2>1. /\ f \in [S -> F]
        /\ \A t, u \in S : f[t] = f[u] => t = u
        /\ S \subseteq Task /\ F \subseteq Row
    BY <1>2 DEF Injection, IsInjective, Saved
  <2>2. \A t \in S : E(t) \in Entry /\ E(t) # None /\ E(t).task = t
                     /\ E(t).record = mem[q][t]
    <3>1. \A t \in S : mem[q][t] \in Record BY DEF TypeOK, Saved
    <3> QED BY <2>1, <3>1 DEF Entry
  <2>3. \A t \in S : (CHOOSE u \in S : f[u] = f[t]) = t BY <2>1
  <2>4. \A t \in S : rows'[f[t]] = E(t) BY <1>2, <2>1, <2>3
  <2>5. \A r \in Row : (\A t \in S : f[t] # r) => rows'[r] = rows[r] BY <1>2
  <2> HIDE DEF E
  <2>6. \A r \in Row : rows'[r] \in Entry \cup {None}
    BY <2>1, <2>2, <2>4, <2>5 DEF TypeOK
  <2>7. rows' \in [Row -> Entry \cup {None}] BY <1>2, <2>6
  <2>8. \A r \in Row : \/ rows'[r] = rows[r]
                       \/ /\ rows[r] = None
                          /\ rows'[r] # None
                          /\ rows'[r].task \in S
                          /\ rows'[r].record = mem[q][rows'[r].task]
    BY <2>1, <2>2, <2>4, <2>5
  <2>9. \A r \in Row : rows[r] = None /\ rows'[r] # None =>
           \E t \in S : r = f[t] /\ rows'[r].task = t
    BY <2>1, <2>2, <2>4, <2>5
  <2>10. \A t \in S : \E r \in Row : rows[r] = None /\ rows'[r] = E(t)
    BY <2>1, <2>4
  <2> QED BY <2>7, <2>8, <2>9, <2>10
<1> HIDE DEF E
<1>3. CASE \E f \in Injection(S, F) :
             rows' = [r \in Row |->
                       IF \E t \in S : f[t] = r
                         THEN LET t == CHOOSE t \in S : f[t] = r
                              IN  [task |-> t, record |-> mem[q][t]]
                         ELSE rows[r]]
  BY <1>2, <1>3 DEF E
<1> QED BY <1>1, <1>3 DEF Save

\* Every action keeps the variables in their types.  (A version that is
\* canceled has to be there: Cached and QueueStates.)
LEMMA TypeInductive == IInv /\ [Next]_vars => TypeOK'
<1> SUFFICES ASSUME IInv, [Next]_vars PROVE TypeOK'
  OBVIOUS
<1> TypeOK BY DEF IInv
<1> USE DEF TypeOK, Nothing
<1>1. CASE Start BY <1>1 DEF Start, disk
<1>2. CASE StopBegin BY <1>2 DEF StopBegin, disk
<1>3. CASE StopEnd BY <1>3 DEF StopEnd, disk
<1>4. CASE ProcessEnd BY <1>4 DEF ProcessEnd, disk
<1>5. ASSUME NEW q \in Queue, QueueGetOrCreate(q) PROVE TypeOK'
  BY <1>5 DEF QueueGetOrCreate
<1>6. ASSUME NEW q \in Queue, QueueGet(q) PROVE TypeOK'
  BY <1>6 DEF QueueGet, disk
<1>7. ASSUME NEW q \in Queue, TasksGet(q) PROVE TypeOK'
  <2>1. StoreTypes
    <3>1. RowsOf(q) \in SUBSET Row /\ \A r \in RowsOf(q) : rows[r] # None
      BY DEF RowsOf
    <3>2. Commit(RowsOf(q)) BY <1>7, TasksGetStep
    <3> QED BY <1>7, <3>1, <3>2, TasksGetStep, CommitStep DEF StoreTypes
  <2>2. UNCHANGED <<queues, issued, phase, qstate, setting>> BY <1>7 DEF TasksGet
  <2> QED BY <2>1, <2>2 DEF StoreTypes
<1>8. ASSUME NEW q \in Queue, StatusSetWrite(q) PROVE TypeOK'
  <2> DEFINE t == setting[q].task
             s == setting[q].status
  <2>1. t \in Task /\ s \in Status BY <1>8 DEF StatusSetWrite, Request
  <2>2. mem' = [mem EXCEPT ![q][t] =
                  IF @ # None THEN [@ EXCEPT !.status = s] ELSE @]
    BY <1>8 DEF StatusSetWrite
  <2>3. \A r \in Record : [r EXCEPT !.status = s] \in Record
    BY <2>1 DEF Record
  <2>4. mem' \in [Queue -> [Task -> Record \cup {None}]] BY <2>1, <2>2, <2>3
  <2>5. PICK o \in FreeObject :
          /\ objs' = [objs EXCEPT ![cache[q][t]].canceled = TRUE, ![o] = NewTask(t, s)]
          /\ cache' = [cache EXCEPT ![q][t] = o]
    BY <1>8 DEF StatusSetWrite, Replace
  <2>6. o \in Object BY DEF FreeObject
  <2>7. NewTask(t, s) \in Version BY <2>1 DEF NewTask, Version
  <2>8. cache' \in [Queue -> [Task -> Object \cup {None}]] BY <2>1, <2>5, <2>6
  <2>9. objs' \in [Object -> Version \cup {None}]
    <3>1. \A v \in Version : [v EXCEPT !.canceled = TRUE] \in Version
      BY DEF Version
    <3>2. cache[q][t] \in Object /\ objs[cache[q][t]] \in Version
      BY <1>8, <2>1 DEF StatusSetWrite, IInv, QueueStates, Cached
    <3>3. [objs[cache[q][t]] EXCEPT !.canceled = TRUE] \in Version BY <3>1, <3>2
    <3> QED BY <2>5, <2>6, <2>7, <3>2, <3>3
  <2> QED BY <1>8, <2>4, <2>8, <2>9 DEF StatusSetWrite, disk
<1>9. ASSUME NEW q \in Queue, StopQueue(q) PROVE TypeOK'
  <2>1. rows' \in [Row -> Entry \cup {None}] BY <1>9, SaveStep DEF StopQueue
  <2> QED BY <1>9, <2>1 DEF StopQueue
<1>10. ASSUME NEW q \in Queue, NEW t \in Task, TaskGet(q, t) PROVE TypeOK'
  <2>1. StoreTypes BY <1>10, CurrentTypes DEF TaskGet
  <2> QED BY <1>10, <2>1 DEF TaskGet, StoreTypes
<1>11. ASSUME NEW q \in Queue, NEW t \in Task, TaskRemove(q, t) PROVE TypeOK'
  <2>1. \A v \in Version : [v EXCEPT !.canceled = TRUE] \in Version
    BY DEF Version
  <2>2. objs' = [o \in Object |-> IF o = cache[q][t]
                   THEN [objs[o] EXCEPT !.canceled = TRUE] ELSE objs[o]]
    BY <1>11 DEF TaskRemove
  <2>3. cache[q][t] # None => objs[cache[q][t]] \in Version
    BY DEF IInv, Cached
  <2>4. objs' \in [Object -> Version \cup {None}] BY <2>1, <2>2, <2>3
  <2>5. /\ mem' \in [Queue -> [Task -> Record \cup {None}]]
        /\ cache' \in [Queue -> [Task -> Object \cup {None}]]
    BY <1>11 DEF TaskRemove
  <2>6. rows' \in [Row -> Entry \cup {None}] /\ astray' \subseteq Task
    <3>1. CASE UNCHANGED <<rows, astray>> BY <3>1
    <3>2. ASSUME NEW r \in RowsOfTask(t), Commit({r})
          PROVE  rows' \in [Row -> Entry \cup {None}] /\ astray' \subseteq Task
      BY <3>2, CommitStep DEF RowsOfTask
    <3> QED BY <1>11, <3>1, <3>2 DEF TaskRemove
  <2> QED BY <1>11, <2>4, <2>5, <2>6 DEF TaskRemove
<1>12. ASSUME NEW q \in Queue, NEW t \in Task, NEW s \in Status, StatusSetFind(q, t, s)
       PROVE TypeOK'
  <2>1. StoreTypes BY <1>12, CurrentTypes DEF StatusSetFind
  <2> QED BY <1>12, <2>1 DEF StatusSetFind, StoreTypes, Request
<1>13. ASSUME NEW q \in Queue, NEW t \in Task, NEW s \in Status,
              NEW root \in BOOLEAN, TaskNew(q, t, root, s)
       PROVE TypeOK'
  BY <1>13 DEF TaskNew, FreeObject, NewTask, Record, Version
<1>14. CASE UNCHANGED vars BY <1>14 DEF vars, disk
<1> QED BY <1>1, <1>2, <1>3, <1>4, <1>5, <1>6, <1>7, <1>8, <1>9, <1>10, <1>11,
           <1>12, <1>13, <1>14 DEF Next

-----------------------------------------------------------------------------
(* The inductive invariant, one group of actions at a time.  Kept is IInv  *)
(* but for the types, which TypeInductive has.                             *)

Kept == /\ PlacedOnce
        /\ LayersAgree
        /\ Cached
        /\ LiveCurrent
        /\ QueueStates
        /\ ExistingIssued
        /\ Owned

\* Actions that only move the storage between its phases.
LEMMA PhaseKeeps ==
  ASSUME IInv, UNCHANGED <<disk, qstate, mem, objs, cache, setting>>
  PROVE  Kept'
<1> USE DEF IInv, Kept, disk
<1>1. PlacedOnce' BY DEF PlacedOnce, RowsOfTask
<1>2. LayersAgree' BY DEF LayersAgree
<1>3. Cached' BY DEF Cached
<1>4. LiveCurrent' BY DEF LiveCurrent
<1>5. QueueStates' BY DEF QueueStates
<1>6. ExistingIssued' BY DEF ExistingIssued, Exists, RowsOfTask
<1>7. Owned' BY DEF Owned, RowsOfTask
<1> QED BY <1>1, <1>2, <1>3, <1>4, <1>5, <1>6, <1>7

\* Opening a queue.
LEMMA OpenKeeps ==
  ASSUME IInv, NEW q \in Queue, qstate[q] = "closed",
         qstate' = [qstate EXCEPT ![q] = "open"],
         UNCHANGED <<rows, issued, astray, mem, objs, cache, setting>>
  PROVE  Kept'
<1> USE DEF IInv, Kept
<1>1. PlacedOnce' BY DEF PlacedOnce, RowsOfTask
<1>2. LayersAgree' BY DEF LayersAgree, QueueStates, TypeOK
<1>3. Cached' BY DEF Cached
<1>4. LiveCurrent' BY DEF LiveCurrent
<1>5. QueueStates' BY DEF QueueStates, TypeOK
<1>6. ExistingIssued' BY DEF ExistingIssued, Exists, RowsOfTask
<1>7. Owned' BY DEF Owned, RowsOfTask
<1> QED BY <1>1, <1>2, <1>3, <1>4, <1>5, <1>6, <1>7

\* A process that ends: nothing but the rows is left.
LEMMA EndKeeps == ASSUME IInv, ProcessEnd PROVE Kept'
<1> USE DEF IInv, Kept, ProcessEnd, disk, Nothing
<1>1. PlacedOnce' BY DEF PlacedOnce, RowsOfTask, TypeOK
<1>2. LayersAgree' BY DEF LayersAgree
<1>3. Cached' BY DEF Cached
<1>4. LiveCurrent' BY DEF LiveCurrent
<1>5. QueueStates' BY DEF QueueStates
<1>6. ExistingIssued' BY DEF ExistingIssued, Exists, RowsOfTask
<1>7. Owned' BY DEF Owned, RowsOfTask
<1> QED BY <1>1, <1>2, <1>3, <1>4, <1>5, <1>6, <1>7

\* A task found without a version gets one (TaskGet and StatusSetFind).
LEMMA VersionedKeeps ==
  ASSUME IInv, NEW q \in Queue, NEW t \in Task, NEW r \in Row, NEW o \in Object,
         Ready(q), Asked(q, t), Versioned(q, t, r, o),
         UNCHANGED <<issued, qstate>>,
         NEW w \in Request \cup {None}, setting' = [setting EXCEPT ![q] = w],
         w # None => w.task = t
  PROVE  Kept'
<1> USE DEF IInv, Kept
<1> DEFINE f == rows[r].record
           v == NewTask(t, f.status)
<1>1. /\ \A p \in Queue, u \in Task :
           mem'[p][u] = IF p = q /\ u = t THEN f ELSE mem[p][u]
      /\ \A x \in Object : objs'[x] = IF x = o THEN v ELSE objs[x]
      /\ \A p \in Queue, u \in Task :
           cache'[p][u] = IF p = q /\ u = t THEN o ELSE cache[p][u]
  BY DEF TypeOK, Versioned
<1>2. /\ cache[q][t] = None
      /\ mem[q][t] = None
      /\ rows[r] # None /\ rows[r].task = t
      /\ objs[o] = None
      /\ o # None
      /\ qstate[q] = "open"
  BY DEF Versioned, FreeObject, Ready, RowsOfTask
<1>c. /\ \A x \in Row : rows'[x] \in {rows[x], None}
      /\ rows'[r] = None \/ t \in astray'
      /\ astray \subseteq astray'
      /\ \A u \in astray' : u \in astray \/ u = t
  <2>1. Commit({r}) BY DEF Versioned
  <2> QED BY <2>1, <1>2, CommitStep
<1>3. t \in issued BY <1>2 DEF ExistingIssued, Exists, RowsOfTask
<1>4. f \in Record /\ f # None /\ v \in Version
  <2>1. f \in Record BY <1>2 DEF TypeOK, Entry
  <2> QED BY <2>1 DEF Record, NewTask, Version
<1>5. v.task = t /\ ~v.canceled /\ v # None
  BY <1>4 DEF NewTask
<1>6. \A p \in Queue, u \in Task :
        cache[p][u] # o /\ (cache[p][u] # None => cache[p][u] \in Object)
  BY <1>2 DEF Cached, TypeOK
<1>7. PlacedOnce'
  <2> SUFFICES ASSUME NEW u \in Task \ astray'
               PROVE  /\ \A x, y \in RowsOfTask(u)' : x = y
                      /\ RowsOfTask(u)' # {} => \A p \in Queue : mem'[p][u] = None
                      /\ \A p, p2 \in Queue :
                           mem'[p][u] # None /\ mem'[p2][u] # None => p = p2
    BY DEF PlacedOnce
  <2>1. u \notin astray BY <1>c
  <2>2. RowsOfTask(u)' \subseteq RowsOfTask(u) BY <1>c DEF RowsOfTask
  <2>3. CASE u # t BY <2>1, <2>2, <2>3, <1>1 DEF PlacedOnce
  <2>4. CASE u = t
    <3>1. \A x \in RowsOfTask(t) : x = r
      BY <2>1, <2>4, <1>2 DEF PlacedOnce, RowsOfTask
    <3>2. RowsOfTask(t)' = {} BY <2>2, <2>4, <3>1, <1>c DEF RowsOfTask
    <3>3. \A p \in Queue : mem[p][t] = None
      BY <2>1, <2>4, <1>2 DEF PlacedOnce, RowsOfTask
    <3> QED BY <2>4, <3>2, <3>3, <1>1
  <2> QED BY <2>3, <2>4
<1>8. LayersAgree' BY <1>1, <1>2, <1>4, <1>6 DEF LayersAgree
<1>9. Cached' BY <1>1, <1>2, <1>3, <1>5, <1>6 DEF Cached
<1>10. LiveCurrent'
  <2>1. ASSUME NEW x \in Object, x # o, objs[x] # None, ~objs[x].canceled
        PROVE  \E p \in Queue : cache'[p][objs[x].task] = x
    <3>1. PICK p \in Queue : cache[p][objs[x].task] = x BY <2>1 DEF LiveCurrent
    <3>2. objs[x].task \in Task /\ x # None BY <2>1 DEF TypeOK, Version
    <3> QED BY <3>1, <3>2, <1>1, <1>2
  <2>2. cache'[q][t] = o /\ objs'[o] = v BY <1>1
  <2>3. \A x \in Object : x # o => objs'[x] = objs[x] BY <1>1
  <2> QED BY <2>1, <2>2, <2>3, <1>5 DEF LiveCurrent
<1>11. QueueStates'
  BY <1>1, <1>2, <1>4 DEF QueueStates, TypeOK, Ready, Request
<1>12. ExistingIssued'
  BY <1>1, <1>2, <1>3, <1>c DEF ExistingIssued, Exists, RowsOfTask
<1>13. Owned'
  <2> SUFFICES ASSUME ~Foreign PROVE Owned' BY DEF Owned
  <2>1. \A x \in RowsOfTask(t) : rows[x].record.queue = q BY DEF Asked
  <2>2. f.queue = q BY <2>1, <1>2 DEF RowsOfTask
  <2>3. \A p \in Queue : cache[p][t] # None => p = q
    BY <2>2, <1>2 DEF Owned, RowsOfTask
  <2>4. \A u \in Task : /\ RowsOfTask(u)' \subseteq RowsOfTask(u)
                        /\ \A x \in RowsOfTask(u)' : rows'[x] = rows[x]
    BY <1>c DEF RowsOfTask
  <2>5. ASSUME NEW u \in Task, NEW p \in Queue
        PROVE  /\ mem'[p][u] # None => mem'[p][u].queue = p
               /\ cache'[p][u] # None =>
                    /\ \A x \in RowsOfTask(u)' : rows'[x].record.queue = p
                    /\ \A p2 \in Queue : cache'[p2][u] # None => p2 = p
    <3>1. CASE u = t BY <3>1, <2>1, <2>2, <2>3, <2>4, <1>1 DEF Owned
    <3>2. CASE u # t BY <3>2, <2>4, <1>1 DEF Owned
    <3> QED BY <3>1, <3>2
  <2>6. \A u \in Task : \A x, y \in RowsOfTask(u)' :
          rows'[x].record.queue = rows'[y].record.queue
    BY <2>4 DEF Owned
  <2> QED BY <2>5, <2>6 DEF Owned
<1> QED BY <1>7, <1>8, <1>9, <1>10, <1>11, <1>12, <1>13

\* A new task: its identifier has never been seen.
LEMMA NewKeeps ==
  ASSUME IInv, NEW q \in Queue, NEW t \in Task, NEW root \in BOOLEAN,
         NEW s \in Status, TaskNew(q, t, root, s)
  PROVE  Kept'
<1> USE DEF IInv, Kept
<1> DEFINE r == [queue |-> q, root |-> root, status |-> s]
<1>1. PICK o \in FreeObject : /\ objs' = [objs EXCEPT ![o] = NewTask(t, s)]
                              /\ cache' = [cache EXCEPT ![q][t] = o]
  BY DEF TaskNew
<1>2. /\ o \in Object /\ o # None /\ objs[o] = None
      /\ NewTask(t, s) # None /\ NewTask(t, s).task = t /\ ~NewTask(t, s).canceled
      /\ r # None /\ r.queue = q /\ r.status = s
      /\ qstate[q] = "open"
  <2>1. NewTask(t, s) \in Version BY DEF NewTask, Version
  <2>2. r \in Record BY DEF Record
  <2>3. NewTask(t, s) # None BY <2>1
  <2>4. NewTask(t, s).task = t /\ ~NewTask(t, s).canceled BY DEF NewTask
  <2>5. qstate[q] = "open" BY DEF TaskNew, Ready
  <2>6. o \in Object /\ o # None /\ objs[o] = None BY DEF FreeObject
  <2> QED BY <2>2, <2>3, <2>4, <2>5, <2>6
<1>3. /\ t \notin issued
      /\ issued' = issued \cup {t}
      /\ RowsOfTask(t) = {}
      /\ t \notin astray
      /\ \A p \in Queue : mem[p][t] = None /\ cache[p][t] = None
  BY DEF TaskNew, ExistingIssued, Exists, Cached
<1>4. /\ \A p \in Queue, u \in Task :
           mem'[p][u] = IF p = q /\ u = t THEN r ELSE mem[p][u]
      /\ \A x \in Object : objs'[x] = IF x = o THEN NewTask(t, s) ELSE objs[x]
      /\ \A p \in Queue, u \in Task :
           cache'[p][u] = IF p = q /\ u = t THEN o ELSE cache[p][u]
      /\ UNCHANGED <<rows, astray, qstate, setting>>
      /\ \A u \in Task : RowsOfTask(u)' = RowsOfTask(u)
  BY <1>1, <1>2 DEF TaskNew, TypeOK, RowsOfTask
<1>5. \A p \in Queue, u \in Task :
        cache[p][u] # o /\ (cache[p][u] # None => cache[p][u] \in Object)
  BY <1>2 DEF Cached, TypeOK
<1>6. PlacedOnce' BY <1>3, <1>4 DEF PlacedOnce
<1>7. LayersAgree' BY <1>2, <1>4, <1>5 DEF LayersAgree
<1>8. Cached' BY <1>2, <1>3, <1>4, <1>5 DEF Cached
<1>9. LiveCurrent'
  <2>1. ASSUME NEW x \in Object, x # o, objs[x] # None, ~objs[x].canceled
        PROVE  \E p \in Queue : cache'[p][objs[x].task] = x
    <3>1. PICK p \in Queue : cache[p][objs[x].task] = x BY <2>1 DEF LiveCurrent
    <3>2. objs[x].task \in Task /\ x # None BY <2>1 DEF TypeOK, Version
    <3> QED BY <3>1, <3>2, <1>3, <1>4
  <2> QED BY <2>1, <1>2, <1>4 DEF LiveCurrent
<1>10. QueueStates'
  <2>1. \A p \in Queue : setting[p] # None => setting[p].task \in Task
    BY DEF TypeOK, Request
  <2> QED BY <2>1, <1>2, <1>4 DEF QueueStates
<1>11. ExistingIssued' BY <1>3, <1>4 DEF ExistingIssued, Exists
<1>12. Owned' BY <1>2, <1>3, <1>4 DEF Owned
<1> QED BY <1>6, <1>7, <1>8, <1>9, <1>10, <1>11, <1>12

\* Listing the tasks of a queue, which loads them all.
LEMMA TasksGetKeeps ==
  ASSUME IInv, NEW q \in Queue, TasksGet(q)
  PROVE  Kept'
<1> USE DEF IInv, Kept
<1> DEFINE N == Unversioned(q)
           T == Listed(q)
<1>1. /\ qstate[q] = "open"
      /\ UNCHANGED <<issued, qstate, setting>>
  BY DEF TasksGet, Ready
<1>r. \A r \in RowsOf(q) : /\ r \in Row /\ rows[r] # None /\ rows[r] \in Entry
                           /\ rows[r].record \in Record /\ rows[r].record.queue = q
                           /\ rows[r].task \in T /\ T \subseteq Task
                           /\ r \in RowsOfTask(rows[r].task)
  BY DEF RowsOf, Listed, RowsOfTask, TypeOK, Entry
<1>l. \A t \in T : t \in Task /\ \E r \in RowsOf(q) : rows[r].task = t
  BY <1>r DEF Listed
<1>c. /\ \A x \in Row : rows'[x] \in {rows[x], None}
      /\ \A x \in RowsOf(q) : rows'[x] = None \/ rows[x].task \in astray'
      /\ astray \subseteq astray'
      /\ \A t \in astray' : t \in astray \/ t \in T
  <2>1. Commit(RowsOf(q)) BY TasksGetStep
  <2>2. RowsOf(q) \in SUBSET Row BY DEF RowsOf
  <2> QED BY <2>1, <2>2, <1>r, CommitStep
<1>d. \A u \in Task : /\ RowsOfTask(u)' \subseteq RowsOfTask(u)
                      /\ \A x \in RowsOfTask(u)' : rows'[x] = rows[x]
  BY <1>c DEF RowsOfTask
<1>2. /\ N \subseteq Task
      /\ \A t \in Task : t \in N <=> t \in T /\ mem[q][t] = None
      /\ \A t \in N : /\ mem[q][t] = None /\ cache[q][t] = None
                      /\ t \in issued
  <2>1. \A t \in T : t \in issued
    BY <1>r, <1>l DEF ExistingIssued, Exists
  <2> QED BY <2>1, <1>1 DEF Unversioned, LayersAgree
<1>3. /\ \A p \in Queue, t \in Task : p # q \/ t \notin N => mem'[p][t] = mem[p][t]
      /\ \A t \in N : \E r \in RowsOf(q) : rows[r].task = t /\ mem'[q][t] = rows[r].record
  BY <1>2, TasksGetStep
<1>e. \A t \in N : mem'[q][t] \in Record /\ mem'[q][t] # None /\ mem'[q][t].queue = q
  BY <1>3, <1>r
<1>4. /\ \A p \in Queue, t \in Task : p # q \/ t \notin N => cache'[p][t] = cache[p][t]
      /\ \A t \in N : /\ cache'[q][t] \in Object /\ objs[cache'[q][t]] = None
                      /\ objs'[cache'[q][t]] = NewTask(t, mem'[q][t].status)
      /\ \A t, u \in N : cache'[q][t] = cache'[q][u] => t = u
      /\ \A x \in Object : (\A t \in N : cache'[q][t] # x) => objs'[x] = objs[x]
  BY <1>2, TasksGetStep DEF FreeObject
<1>5. \A t \in N : LET v == NewTask(t, mem'[q][t].status)
                   IN  v # None /\ v.task = t /\ ~v.canceled
  <2>1. \A t \in N : NewTask(t, mem'[q][t].status) \in Version
    BY <1>2, <1>e DEF Record, NewTask, Version
  <2> QED BY <2>1 DEF NewTask
<1>6. \A p \in Queue, t \in Task :
        cache[p][t] # None => cache[p][t] \in Object /\ objs[cache[p][t]] # None
  BY DEF Cached, TypeOK
<1>7. \A p \in Queue, t \in Task :
        cache[p][t] # None => /\ cache'[p][t] = cache[p][t]
                              /\ objs'[cache[p][t]] = objs[cache[p][t]]
  BY <1>2, <1>4, <1>6
<1>8. PlacedOnce'
  <2> SUFFICES ASSUME NEW u \in Task \ astray'
               PROVE  /\ \A x, y \in RowsOfTask(u)' : x = y
                      /\ RowsOfTask(u)' # {} => \A p \in Queue : mem'[p][u] = None
                      /\ \A p, p2 \in Queue :
                           mem'[p][u] # None /\ mem'[p2][u] # None => p = p2
    BY DEF PlacedOnce
  <2>1. u \notin astray BY <1>c
  <2>2. CASE u \notin N BY <2>1, <2>2, <1>d, <1>3 DEF PlacedOnce
  <2>3. CASE u \in N
    <3>1. PICK r \in RowsOf(q) : rows[r].task = u BY <2>3, <1>2, <1>l
    <3>2. r \in RowsOfTask(u) /\ rows'[r] = None BY <3>1, <1>r, <1>c
    <3>3. \A x \in RowsOfTask(u) : x = r BY <2>1, <3>2 DEF PlacedOnce
    <3>4. RowsOfTask(u)' = {} BY <3>2, <3>3, <1>d DEF RowsOfTask
    <3>5. \A p \in Queue : mem[p][u] = None BY <2>1, <3>2 DEF PlacedOnce
    <3> QED BY <3>4, <3>5, <1>3
  <2> QED BY <2>2, <2>3
<1>9. LayersAgree'
  <2>1. ASSUME NEW p \in Queue, NEW t \in Task, qstate[p] = "open", p # q \/ t \notin N
        PROVE  /\ (mem'[p][t] = None) <=> (cache'[p][t] = None)
               /\ cache'[p][t] # None => objs'[cache'[p][t]] = NewTask(t, mem'[p][t].status)
    BY <2>1, <1>3, <1>4, <1>7 DEF LayersAgree
  <2>2. ASSUME NEW t \in N
        PROVE  /\ mem'[q][t] # None /\ cache'[q][t] # None
               /\ objs'[cache'[q][t]] = NewTask(t, mem'[q][t].status)
    BY <1>e, <1>4
  <2> QED BY <2>1, <2>2, <1>1, <1>2 DEF LayersAgree
<1>10. Cached'
  <2>1. ASSUME NEW p \in Queue, NEW t \in Task, cache'[p][t] # None
        PROVE  /\ objs'[cache'[p][t]] # None
               /\ objs'[cache'[p][t]].task = t
               /\ t \in issued
    <3>1. CASE p = q /\ t \in N BY <3>1, <1>2, <1>4, <1>5
    <3>2. CASE ~(p = q /\ t \in N) BY <2>1, <3>2, <1>4, <1>7 DEF Cached
    <3> QED BY <3>1, <3>2
  <2>2. ASSUME NEW p \in Queue, NEW p2 \in Queue, NEW t \in Task,
               cache'[p][t] # None, cache'[p][t] = cache'[p2][t]
        PROVE  p = p2
    <3>1. CASE t \in N
      <4>1. \A p1 \in Queue : p1 # q /\ cache'[p1][t] # None =>
              objs[cache'[p1][t]] # None
        BY <1>4, <1>6
      <4>2. objs[cache'[q][t]] = None BY <3>1, <1>4
      <4>3. CASE p # q /\ p2 # q BY <2>2, <4>3, <1>4 DEF Cached
      <4> QED BY <2>2, <4>1, <4>2, <4>3
    <3>2. CASE t \notin N BY <2>2, <3>2, <1>4 DEF Cached
    <3> QED BY <3>1, <3>2
  <2> QED BY <2>1, <2>2, <1>1 DEF Cached
<1>11. LiveCurrent'
  <2> SUFFICES ASSUME NEW x \in Object, objs'[x] # None, ~objs'[x].canceled
               PROVE  \E p \in Queue : cache'[p][objs'[x].task] = x
    BY DEF LiveCurrent
  <2>1. CASE \E t \in N : cache'[q][t] = x BY <2>1, <1>4, <1>5
  <2>2. CASE \A t \in N : cache'[q][t] # x
    <3>1. objs'[x] = objs[x] BY <2>2, <1>4
    <3>2. PICK p \in Queue : cache[p][objs[x].task] = x BY <3>1 DEF LiveCurrent
    <3>3. objs[x].task \in Task /\ x # None BY <3>1 DEF TypeOK, Version
    <3> QED BY <3>1, <3>2, <3>3, <1>7
  <2> QED BY <2>1, <2>2
<1>12. QueueStates'
  <2>1. \A p \in Queue : setting[p] # None => setting[p].task \in Task
    BY DEF TypeOK, Request
  <2> QED BY <2>1, <1>1, <1>2, <1>3, <1>4, <1>7 DEF QueueStates
<1>13. ExistingIssued'
  <2> SUFFICES ASSUME NEW t \in Task, Exists(t)' \/ t \in astray'
               PROVE  t \in issued
    BY <1>1 DEF ExistingIssued
  <2>1. \A u \in T : u \in issued
    BY <1>r, <1>l DEF ExistingIssued, Exists
  <2>2. CASE t \in astray' BY <2>2, <2>1, <1>c DEF ExistingIssued
  <2>3. CASE Exists(t)' BY <2>3, <1>2, <1>3, <1>d DEF ExistingIssued, Exists
  <2> QED BY <2>2, <2>3
<1>14. Owned'
  <2> SUFFICES ASSUME ~Foreign PROVE Owned' BY DEF Owned
  <2>1. ASSUME NEW u \in Task, NEW p \in Queue
        PROVE  /\ mem'[p][u] # None => mem'[p][u].queue = p
               /\ cache'[p][u] # None =>
                    /\ \A x \in RowsOfTask(u)' : rows'[x].record.queue = p
                    /\ \A p2 \in Queue : cache'[p2][u] # None => p2 = p
    <3>1. CASE u \in N
      <4>1. PICK r \in RowsOf(q) : rows[r].task = u BY <3>1, <1>2, <1>l
      <4>2. r \in RowsOfTask(u) /\ rows[r].record.queue = q BY <4>1, <1>r
      <4>3. \A x \in RowsOfTask(u) : rows[x].record.queue = q BY <4>2 DEF Owned
      <4>4. \A p2 \in Queue : cache[p2][u] # None => p2 = q BY <4>2 DEF Owned
      <4>5. \A p2 \in Queue : mem[p2][u] # None => mem[p2][u].queue = p2
        BY DEF Owned
      <4> QED BY <3>1, <4>3, <4>4, <4>5, <1>3, <1>4, <1>d, <1>e
    <3>2. CASE u \notin N BY <3>2, <1>3, <1>4, <1>d DEF Owned
    <3> QED BY <3>1, <3>2
  <2>2. \A u \in Task : \A x, y \in RowsOfTask(u)' :
          rows'[x].record.queue = rows'[y].record.queue
    BY <1>d DEF Owned
  <2> QED BY <2>1, <2>2 DEF Owned
<1> QED BY <1>8, <1>9, <1>10, <1>11, <1>12, <1>13, <1>14

\* The second half of a TaskStatusSet: a version replaces the current one.
LEMMA SetKeeps ==
  ASSUME IInv, NEW q \in Queue, StatusSetWrite(q)
  PROVE  Kept'
<1> USE DEF IInv, Kept
<1> DEFINE t == setting[q].task
           s == setting[q].status
           old == cache[q][t]
<1>1. t \in Task /\ s \in Status BY DEF StatusSetWrite, TypeOK, Request
<1>2. PICK o \in FreeObject :
        /\ objs' = [objs EXCEPT ![old].canceled = TRUE, ![o] = NewTask(t, s)]
        /\ cache' = [cache EXCEPT ![q][t] = o]
  BY DEF StatusSetWrite, Replace
<1>3. /\ o \in Object /\ o # None /\ objs[o] = None
      /\ old \in Object /\ objs[old] \in Version /\ old # o
      /\ objs[old].task = t /\ t \in issued
  BY <1>1 DEF FreeObject, StatusSetWrite, QueueStates, Cached, TypeOK
<1>4. NewTask(t, s) # None /\ NewTask(t, s).task = t /\ ~NewTask(t, s).canceled
  <2>1. NewTask(t, s) \in Version BY <1>1 DEF NewTask, Version
  <2>2. NewTask(t, s) # None BY <2>1
  <2> QED BY <2>2 DEF NewTask
<1>5. /\ \A x \in Object : objs'[x] = IF x = o THEN NewTask(t, s)
                              ELSE IF x = old THEN [objs[old] EXCEPT !.canceled = TRUE]
                              ELSE objs[x]
      /\ \A p \in Queue, u \in Task :
           cache'[p][u] = IF p = q /\ u = t THEN o ELSE cache[p][u]
  BY <1>1, <1>2, <1>3 DEF TypeOK
<1>u. UNCHANGED <<rows, issued, astray, qstate>> BY DEF StatusSetWrite, disk
<1>d. \A u \in Task : RowsOfTask(u)' = RowsOfTask(u)
  BY <1>u DEF RowsOfTask
<1>6. LET v == [objs[old] EXCEPT !.canceled = TRUE]
      IN  v # None /\ v.task = t /\ v.canceled
  <2>1. [objs[old] EXCEPT !.canceled = TRUE] \in Version BY <1>3 DEF Version
  <2> QED BY <2>1, <1>3 DEF Version
<1>7. LET r == mem[q][t]
      IN  /\ \A p \in Queue, u \in Task :
               mem'[p][u] = IF p = q /\ u = t /\ r # None
                              THEN [r EXCEPT !.status = s] ELSE mem[p][u]
          /\ r # None => /\ [r EXCEPT !.status = s] # None
                         /\ [r EXCEPT !.status = s].status = s
                         /\ [r EXCEPT !.status = s].queue = r.queue
  <2>1. \A r \in Record : LET n == [r EXCEPT !.status = s]
                          IN  n \in Record /\ n.status = s /\ n.queue = r.queue
    BY <1>1 DEF Record
  <2>2. mem' = [mem EXCEPT ![q][t] = IF @ # None THEN [@ EXCEPT !.status = s] ELSE @]
    BY DEF StatusSetWrite
  <2> QED BY <1>1, <2>1, <2>2 DEF TypeOK
<1>8. \A p \in Queue, u \in Task :
        /\ cache[p][u] # o
        /\ cache[p][u] # None => cache[p][u] \in Object /\ objs[cache[p][u]] # None
        /\ (p # q \/ u # t) => cache[p][u] # old
  BY <1>1, <1>3 DEF Cached, TypeOK
<1>9. PlacedOnce' BY <1>5, <1>u, <1>7, <1>d DEF PlacedOnce
<1>10. LayersAgree'
  <2>1. ASSUME NEW p \in Queue, NEW u \in Task, qstate[p] = "open", p # q \/ u # t
        PROVE  /\ (mem'[p][u] = None) <=> (cache'[p][u] = None)
               /\ cache'[p][u] # None => objs'[cache'[p][u]] = NewTask(u, mem'[p][u].status)
    BY <2>1, <1>5, <1>u, <1>7, <1>8 DEF LayersAgree
  <2>2. ASSUME qstate[q] = "open"
        PROVE  /\ mem'[q][t] # None /\ cache'[q][t] # None
               /\ objs'[cache'[q][t]] = NewTask(t, mem'[q][t].status)
    <3>1. mem[q][t] # None BY <2>2, <1>1, <1>3 DEF LayersAgree
    <3>2. mem'[q][t] # None /\ mem'[q][t].status = s BY <3>1, <1>1, <1>7
    <3>3. cache'[q][t] = o /\ objs'[o] = NewTask(t, s) BY <1>1, <1>3, <1>5, <1>u
    <3> QED BY <3>2, <3>3, <1>3
  <2> QED BY <2>1, <2>2, <1>1, <1>5, <1>u DEF LayersAgree
<1>11. Cached'
  <2>1. ASSUME NEW p \in Queue, NEW u \in Task, cache'[p][u] # None
        PROVE  /\ objs'[cache'[p][u]] # None
               /\ objs'[cache'[p][u]].task = u
               /\ u \in issued
    <3>1. CASE p = q /\ u = t BY <3>1, <1>3, <1>4, <1>5, <1>u
    <3>2. CASE ~(p = q /\ u = t) BY <2>1, <3>2, <1>5, <1>u, <1>8 DEF Cached
    <3> QED BY <3>1, <3>2
  <2>2. ASSUME NEW p \in Queue, NEW p2 \in Queue, NEW u \in Task,
               cache'[p][u] # None, cache'[p][u] = cache'[p2][u]
        PROVE  p = p2
    BY <2>2, <1>5, <1>u, <1>8 DEF Cached
  <2> QED BY <2>1, <2>2, <1>5, <1>u DEF Cached
<1>12. LiveCurrent'
  <2> SUFFICES ASSUME NEW x \in Object, objs'[x] # None, ~objs'[x].canceled
               PROVE  \E p \in Queue : cache'[p][objs'[x].task] = x
    BY DEF LiveCurrent
  <2>1. CASE x = o BY <2>1, <1>1, <1>4, <1>5, <1>u
  <2>2. CASE x # o
    <3>1. x # old /\ objs'[x] = objs[x] BY <2>2, <1>5, <1>u, <1>6
    <3>2. PICK p \in Queue : cache[p][objs[x].task] = x BY <3>1 DEF LiveCurrent
    <3>3. objs[x].task \in Task BY <3>1 DEF TypeOK, Version
    <3>4. ~(p = q /\ objs[x].task = t) BY <3>1, <3>2
    <3> QED BY <3>1, <3>2, <3>3, <3>4, <1>5, <1>u
  <2> QED BY <2>1, <2>2
<1>13. QueueStates'
  <2>1. \A p \in Queue : setting[p] # None => setting[p].task \in Task
    BY DEF TypeOK, Request
  <2>2. setting' = [setting EXCEPT ![q] = None] BY DEF StatusSetWrite
  <2>3. \A p \in Queue : setting'[p] = IF p = q THEN None ELSE setting[p]
    BY <2>2 DEF TypeOK
  <2>4. qstate[q] # "closed" BY <1>1, <1>3 DEF QueueStates
  <2> QED BY <2>1, <2>3, <2>4, <1>1, <1>3, <1>5, <1>u, <1>7 DEF QueueStates
<1>14. ExistingIssued' BY <1>5, <1>u, <1>7, <1>d DEF ExistingIssued, Exists
<1>15. Owned'
  <2> SUFFICES ASSUME ~Foreign PROVE Owned' BY DEF Owned
  <2>1. \A u \in Task, p \in Queue : cache'[p][u] # None => cache[p][u] # None
    BY <1>3, <1>5, <1>u
  <2>2. \A u \in Task, p \in Queue :
          mem'[p][u] # None => mem[p][u] # None /\ mem'[p][u].queue = mem[p][u].queue
    BY <1>7
  <2>3. \A u \in Task, p \in Queue : mem'[p][u] # None => mem'[p][u].queue = p
    BY <2>2 DEF Owned
  <2> QED BY <2>1, <2>3, <1>5, <1>u, <1>d DEF Owned
<1> QED BY <1>9, <1>10, <1>11, <1>12, <1>13, <1>14, <1>15

\* A queue stops: its records become rows, or are forgotten.
LEMMA StopKeeps ==
  ASSUME IInv, NEW q \in Queue, StopQueue(q)
  PROVE  Kept'
<1> USE DEF IInv, Kept
<1>1. /\ qstate[q] = "open"
      /\ \A p \in Queue, t \in Task :
           mem'[p][t] = IF p = q THEN None ELSE mem[p][t]
      /\ \A p \in Queue : qstate'[p] = IF p = q THEN "stopped" ELSE qstate[p]
      /\ UNCHANGED <<issued, astray, objs, cache, setting>>
  BY DEF StopQueue, TypeOK, Nothing
<1>s. Save(q) BY DEF StopQueue
\* Each row of a task is an old one or the one its record has become.
<1>r. \A t \in Task : \A x \in RowsOfTask(t)' :
        \/ x \in RowsOfTask(t) /\ rows'[x] = rows[x]
        \/ /\ rows[x] = None /\ mem[q][t] # None
           /\ rows'[x].record = mem[q][t]
  BY <1>s, SaveStep DEF RowsOfTask, Saved
<1>2. PlacedOnce'
  <2> SUFFICES ASSUME NEW u \in Task \ astray
               PROVE  /\ \A x, y \in RowsOfTask(u)' : x = y
                      /\ RowsOfTask(u)' # {} => \A p \in Queue : mem'[p][u] = None
                      /\ \A p, p2 \in Queue :
                           mem'[p][u] # None /\ mem'[p2][u] # None => p = p2
    BY <1>1 DEF PlacedOnce
  <2>1. CASE mem[q][u] = None BY <2>1, <1>r, <1>1 DEF PlacedOnce
  <2>2. CASE mem[q][u] # None
    <3>1. RowsOfTask(u) = {} /\ \A p \in Queue : p # q => mem[p][u] = None
      BY <2>2 DEF PlacedOnce
    <3>2. \A x \in RowsOfTask(u)' : x \in Row /\ rows[x] = None
                                   /\ rows'[x] # None /\ rows'[x].task = u
      BY <3>1, <1>r DEF RowsOfTask
    <3>3. \A x, y \in RowsOfTask(u)' : x = y BY <3>2, <1>s, SaveStep
    <3> QED BY <3>1, <3>3, <1>1
  <2> QED BY <2>1, <2>2
<1>3. LayersAgree' BY <1>1 DEF LayersAgree
<1>4. Cached' BY <1>1 DEF Cached
<1>5. LiveCurrent' BY <1>1 DEF LiveCurrent
<1>6. QueueStates' BY <1>1 DEF QueueStates
<1>7. ExistingIssued'
  <2> SUFFICES ASSUME NEW t \in Task, Exists(t)' \/ t \in astray
               PROVE  t \in issued
    BY <1>1 DEF ExistingIssued
  <2>1. Exists(t)' => Exists(t) BY <1>r, <1>1 DEF Exists
  <2> QED BY <2>1 DEF ExistingIssued
<1>8. Owned'
  <2> SUFFICES ASSUME ~Foreign PROVE Owned' BY DEF Owned
  \* The record of a task and its rows name one queue.
  <2>1. \A t \in Task : mem[q][t] # None =>
          mem[q][t].queue = q /\ \A x \in RowsOfTask(t) : rows[x].record.queue = q
    BY <1>1 DEF Owned, LayersAgree
  <2>2. \A t \in Task : \A x \in RowsOfTask(t)' :
          \/ x \in RowsOfTask(t) /\ rows'[x].record.queue = rows[x].record.queue
          \/ mem[q][t] # None /\ rows'[x].record.queue = q
    BY <2>1, <1>r
  <2>3. \A t \in Task : \A x, y \in RowsOfTask(t)' :
          rows'[x].record.queue = rows'[y].record.queue
    BY <2>1, <2>2 DEF Owned
  <2>4. \A t \in Task, p \in Queue : mem'[p][t] # None => mem'[p][t].queue = p
    BY <1>1 DEF Owned
  <2>5. \A t \in Task : mem[q][t] # None =>
          \A p \in Queue : cache[p][t] # None => p = q
    BY <1>1 DEF Owned, LayersAgree
  <2>6. \A t \in Task, p \in Queue : cache'[p][t] # None =>
          /\ \A x \in RowsOfTask(t)' : rows'[x].record.queue = p
          /\ \A p2 \in Queue : cache'[p2][t] # None => p2 = p
    BY <2>2, <2>5, <1>1 DEF Owned
  <2> QED BY <2>3, <2>4, <2>6 DEF Owned
<1> QED BY <1>2, <1>3, <1>4, <1>5, <1>6, <1>7, <1>8

\* A removed task leaves both layers, and its version is canceled.
LEMMA RemoveKeeps ==
  ASSUME IInv, NEW q \in Queue, NEW t \in Task, TaskRemove(q, t)
  PROVE  Kept'
<1> USE DEF IInv, Kept
<1>1. /\ qstate[q] = "open" /\ setting[q] = None
      /\ \A p \in Queue, u \in Task :
           /\ mem'[p][u] = IF p = q /\ u = t THEN None ELSE mem[p][u]
           /\ cache'[p][u] = IF p = q /\ u = t THEN None ELSE cache[p][u]
      /\ \A x \in Object : objs'[x] = IF x = cache[q][t]
                              THEN [objs[x] EXCEPT !.canceled = TRUE] ELSE objs[x]
      /\ UNCHANGED <<issued, qstate, setting>>
  BY DEF TaskRemove, Ready, TypeOK
<1>c. /\ \A x \in Row : rows'[x] \in {rows[x], None}
      /\ astray \subseteq astray'
      /\ \A u \in astray' : u \in astray \/ u \in issued
  <2>1. CASE UNCHANGED <<rows, astray>> BY <2>1
  <2>2. ASSUME NEW r \in RowsOfTask(t), Commit({r})
        PROVE  /\ \A x \in Row : rows'[x] \in {rows[x], None}
               /\ astray \subseteq astray'
               /\ \A u \in astray' : u \in astray \/ u \in issued
    <3>1. t \in issued BY DEF ExistingIssued, Exists
    <3> QED BY <2>2, <3>1, CommitStep DEF RowsOfTask
  <2> QED BY <2>1, <2>2 DEF TaskRemove
<1>d. \A u \in Task : /\ RowsOfTask(u)' \subseteq RowsOfTask(u)
                      /\ \A x \in RowsOfTask(u)' : rows'[x] = rows[x]
  BY <1>c DEF RowsOfTask
<1>2. \A v \in Version : LET c == [v EXCEPT !.canceled = TRUE]
                         IN  c \in Version /\ c.task = v.task /\ c.canceled
  BY DEF Version
<1>3. \A p \in Queue, u \in Task :
        /\ cache[p][u] # None => cache[p][u] \in Object /\ objs[cache[p][u]] \in Version
        /\ cache[p][u] # None /\ (p # q \/ u # t) => cache[p][u] # cache[q][t]
  BY DEF Cached, TypeOK
<1>11. \A p \in Queue, u \in Task :
         cache'[p][u] # None => /\ cache'[p][u] = cache[p][u]
                                /\ objs'[cache[p][u]] = objs[cache[p][u]]
  <2> SUFFICES ASSUME NEW p \in Queue, NEW u \in Task, cache'[p][u] # None
               PROVE  /\ cache'[p][u] = cache[p][u]
                      /\ objs'[cache[p][u]] = objs[cache[p][u]]
    OBVIOUS
  <2>1. ~(p = q /\ u = t) /\ cache'[p][u] = cache[p][u] BY <1>1
  <2>2. cache[p][u] \in Object /\ cache[p][u] # cache[q][t]
    BY <2>1, <1>3
  <2> QED BY <2>1, <2>2, <1>1
<1>4. PlacedOnce' BY <1>1, <1>c, <1>d DEF PlacedOnce
<1>5. LayersAgree'
  <2> SUFFICES ASSUME NEW p \in Queue, NEW u \in Task, qstate[p] = "open"
               PROVE  /\ (mem'[p][u] = None) <=> (cache'[p][u] = None)
                      /\ cache'[p][u] # None =>
                           objs'[cache'[p][u]] = NewTask(u, mem'[p][u].status)
    BY <1>1 DEF LayersAgree
  <2> QED BY <1>1, <1>11 DEF LayersAgree
<1>6. Cached' BY <1>1, <1>11 DEF Cached
<1>7. LiveCurrent'
  <2> SUFFICES ASSUME NEW x \in Object, objs'[x] # None, ~objs'[x].canceled
               PROVE  \E p \in Queue : cache'[p][objs'[x].task] = x
    BY DEF LiveCurrent
  <2>1. x # cache[q][t] /\ objs'[x] = objs[x]
    <3>1. CASE x = cache[q][t]
      <4>1. objs[x] \in Version BY <3>1, <1>3
      <4>2. objs'[x] = [objs[x] EXCEPT !.canceled = TRUE] BY <3>1, <1>1
      <4> QED BY <4>1, <4>2, <1>2
    <3>2. CASE x # cache[q][t] BY <3>2, <1>1
    <3> QED BY <3>1, <3>2
  <2>2. PICK p \in Queue : cache[p][objs[x].task] = x BY <2>1 DEF LiveCurrent
  <2>3. objs[x].task \in Task BY <2>1 DEF TypeOK, Version
  <2> QED BY <2>1, <2>2, <2>3, <1>1
<1>8. QueueStates'
  <2>1. \A p \in Queue : setting[p] # None => setting[p].task \in Task
    BY DEF TypeOK, Request
  <2> QED BY <2>1, <1>1 DEF QueueStates
<1>9. ExistingIssued' BY <1>1, <1>c, <1>d DEF ExistingIssued, Exists
<1>10. Owned'
  <2> SUFFICES ASSUME ~Foreign PROVE Owned' BY DEF Owned
  <2>1. \A u \in Task : \A x, y \in RowsOfTask(u)' :
          rows'[x].record.queue = rows'[y].record.queue
    BY <1>d DEF Owned
  <2> QED BY <2>1, <1>1, <1>d DEF Owned
<1> QED BY <1>4, <1>5, <1>6, <1>7, <1>8, <1>9, <1>10

-----------------------------------------------------------------------------
(* The theorems.                                                           *)

LEMMA InvInductive == IInv /\ [Next]_vars => IInv'
<1> SUFFICES ASSUME IInv, [Next]_vars PROVE IInv'
  OBVIOUS
<1>1. TypeOK' BY TypeInductive
<1>2. Kept'
  <2>1. CASE Start BY <2>1, PhaseKeeps DEF Start
  <2>2. CASE StopBegin BY <2>2, PhaseKeeps DEF StopBegin
  <2>3. CASE StopEnd BY <2>3, PhaseKeeps DEF StopEnd
  <2>4. CASE ProcessEnd BY <2>4, EndKeeps
  <2>5. ASSUME NEW q \in Queue, QueueGetOrCreate(q) PROVE Kept'
    BY <2>5, OpenKeeps DEF QueueGetOrCreate
  <2>6. ASSUME NEW q \in Queue, QueueGet(q) PROVE Kept'
    BY <2>6, OpenKeeps DEF QueueGet, disk
  <2>7. ASSUME NEW q \in Queue, TasksGet(q) PROVE Kept'
    BY <2>7, TasksGetKeeps
  <2>8. ASSUME NEW q \in Queue, StatusSetWrite(q) PROVE Kept'
    BY <2>8, SetKeeps
  <2>9. ASSUME NEW q \in Queue, StopQueue(q) PROVE Kept'
    BY <2>9, StopKeeps
  <2>10. ASSUME NEW q \in Queue, NEW t \in Task, TaskGet(q, t) PROVE Kept'
    <3>1. CASE UNCHANGED <<rows, mem, objs, cache, astray>>
      BY <2>10, <3>1, PhaseKeeps DEF TaskGet, disk
    <3>2. ASSUME NEW r \in Row, NEW o \in Object, Versioned(q, t, r, o) PROVE Kept'
      <4>1. setting' = [setting EXCEPT ![q] = None]
        BY <2>10 DEF TaskGet, Ready, IInv, TypeOK
      <4> QED BY <2>10, <3>2, <4>1, VersionedKeeps DEF TaskGet
    <3> QED BY <2>10, <3>1, <3>2, CurrentStep DEF TaskGet
  <2>11. ASSUME NEW q \in Queue, NEW t \in Task, TaskRemove(q, t) PROVE Kept'
    BY <2>11, RemoveKeeps
  <2>12. ASSUME NEW q \in Queue, NEW t \in Task, NEW s \in Status,
                StatusSetFind(q, t, s)
         PROVE  Kept'
    <3> DEFINE w == [task |-> t, status |-> s]
    <3>1. /\ w \in Request /\ w.task = t
          /\ setting' = [setting EXCEPT ![q] = w]
      BY <2>12 DEF StatusSetFind, Request
    <3>2. CASE cache[q][t] # None /\ UNCHANGED <<rows, mem, objs, cache, astray>>
      <4> USE DEF IInv, Kept
      <4>1. UNCHANGED <<rows, mem, objs, cache, astray, issued, qstate>>
        BY <2>12, <3>2 DEF StatusSetFind
      <4>2. PlacedOnce' BY <4>1 DEF PlacedOnce, RowsOfTask
      <4>3. LayersAgree' BY <4>1 DEF LayersAgree
      <4>4. Cached' BY <4>1 DEF Cached
      <4>5. LiveCurrent' BY <4>1 DEF LiveCurrent
      <4>6. QueueStates' BY <3>1, <3>2, <4>1 DEF QueueStates, TypeOK
      <4>7. ExistingIssued' BY <4>1 DEF ExistingIssued, Exists, RowsOfTask
      <4>8. Owned' BY <4>1 DEF Owned, RowsOfTask
      <4> QED BY <4>2, <4>3, <4>4, <4>5, <4>6, <4>7, <4>8
    <3>3. ASSUME NEW r \in Row, NEW o \in Object, Versioned(q, t, r, o) PROVE Kept'
      BY <2>12, <3>1, <3>3, VersionedKeeps DEF StatusSetFind
    <3> QED BY <2>12, <3>2, <3>3, CurrentStep DEF StatusSetFind
  <2>13. ASSUME NEW q \in Queue, NEW t \in Task, NEW s \in Status,
                NEW root \in BOOLEAN, TaskNew(q, t, root, s)
         PROVE  Kept'
    BY <2>13, NewKeeps
  <2>14. CASE UNCHANGED vars BY <2>14, PhaseKeeps DEF vars
  <2> QED BY <2>1, <2>2, <2>3, <2>4, <2>5, <2>6, <2>7, <2>8, <2>9, <2>10,
             <2>11, <2>12, <2>13, <2>14 DEF Next
<1> QED BY <1>1, <1>2 DEF IInv, Kept

LEMMA InitInv == Init => IInv
<1> SUFFICES ASSUME Init PROVE IInv
  OBVIOUS
<1> USE DEF Init, Nothing
<1>1. TypeOK BY DEF TypeOK
<1>2. PlacedOnce BY DEF PlacedOnce, RowsOfTask
<1>3. LayersAgree BY DEF LayersAgree
<1>4. Cached BY DEF Cached
<1>5. LiveCurrent BY DEF LiveCurrent
<1>6. QueueStates BY DEF QueueStates
<1>7. ExistingIssued BY DEF ExistingIssued, Exists, RowsOfTask
<1>8. Owned BY DEF Owned, RowsOfTask
<1> QED BY <1>1, <1>2, <1>3, <1>4, <1>5, <1>6, <1>7, <1>8 DEF IInv

\* The inductive invariant holds in every reachable state.
THEOREM Invariance == Spec => []IInv
<1> QED BY InitInv, InvInductive, PTL DEF Spec

\* Every variable always has its type.
THEOREM TypeCorrect == Spec => []TypeOK
<1>1. IInv => TypeOK BY DEF IInv
<1> QED BY <1>1, Invariance, PTL

\* A task none of whose reads has failed to commit is in one row or in one
\* record of one queue, whatever the queues are asked for, whenever the process
\* stops or dies, and whatever other commits fail.
THEOREM TaskPlacedOnce == Spec => []PlacedOnce
<1>1. IInv => PlacedOnce BY DEF IInv
<1> QED BY <1>1, Invariance, PTL

\* While a queue is open its records and its current versions agree.
THEOREM TaskLayersAgree == Spec => []LayersAgree
<1>1. IInv => LayersAgree BY DEF IInv
<1> QED BY <1>1, Invariance, PTL

\* If callers ask queues for their own tasks only, at most one version of a
\* task is not canceled.
THEOREM TaskOneLiveVersion == ASSUME ~Foreign PROVE Spec => []OneLiveVersion
<1>1. IInv => OneLiveVersion
  <2> SUFFICES ASSUME IInv, NEW o \in Object, objs[o] # None, ~objs[o].canceled
               PROVE  \E q \in Queue :
                        /\ cache[q][objs[o].task] = o
                        /\ \A p \in Queue : cache[p][objs[o].task] \in {o, None}
    BY DEF OneLiveVersion
  <2>1. objs[o].task \in Task BY DEF IInv, TypeOK, Version
  <2>2. PICK q \in Queue : cache[q][objs[o].task] = o BY DEF IInv, LiveCurrent
  <2> QED BY <2>1, <2>2 DEF IInv, Owned
<1> QED BY <1>1, Invariance, PTL

\* ... and a task that exists is found in its queue while that is open.
THEOREM TaskNilMeansAbsent == ASSUME ~Foreign PROVE Spec => []NilMeansAbsent
<1>1. IInv => NilMeansAbsent BY DEF IInv, Owned, NilMeansAbsent, Findable
<1> QED BY <1>1, Invariance, PTL

-----------------------------------------------------------------------------
(* Storage implements TaskStore.                                           *)

Store == [t \in Task |-> Located(t)]
OnDisk == {t \in Task \ astray : RowsOfTask(t) # {}}

\* Since a task that has not gone astray is in one place, Located is what that
\* place holds.
LocatedSpec ==
  \A t \in Task :
    /\ t \in astray => Located(t) = None
    /\ t \notin astray =>
         /\ \A r \in RowsOfTask(t) : Located(t) = rows[r].record
         /\ \A q \in Queue : mem[q][t] # None => Located(t) = mem[q][t]
         /\ RowsOfTask(t) = {} /\ (\A q \in Queue : mem[q][t] = None) =>
              Located(t) = None

LEMMA LocatedHere == IInv => LocatedSpec
<1> SUFFICES ASSUME IInv, NEW t \in Task \ astray
             PROVE  /\ \A r \in RowsOfTask(t) : Located(t) = rows[r].record
                    /\ \A q \in Queue : mem[q][t] # None => Located(t) = mem[q][t]
                    /\ RowsOfTask(t) = {} /\ (\A q \in Queue : mem[q][t] = None) =>
                         Located(t) = None
  BY DEF LocatedSpec, Located
<1>1. ASSUME NEW q \in Queue, mem[q][t] # None PROVE Located(t) = mem[q][t]
  <2>1. RowsOfTask(t) = {} BY <1>1 DEF IInv, PlacedOnce
  <2>2. (CHOOSE p \in Queue : mem[p][t] # None) = q
    BY <1>1 DEF IInv, PlacedOnce
  <2> QED BY <1>1, <2>1, <2>2 DEF Located, Exists
<1>2. ASSUME NEW r \in RowsOfTask(t) PROVE Located(t) = rows[r].record
  <2>1. (CHOOSE x \in RowsOfTask(t) : TRUE) = r BY DEF IInv, PlacedOnce
  <2> QED BY <2>1 DEF Located, Exists
<1>3. RowsOfTask(t) = {} /\ (\A q \in Queue : mem[q][t] = None) => Located(t) = None
  BY DEF Located, Exists
<1> QED BY <1>1, <1>2, <1>3

LEMMA LocatedNext == IInv' => LocatedSpec'
<1> QED BY LocatedHere, PTL

\* Nothing moves.
LEMMA StutterStep ==
  ASSUME UNCHANGED <<rows, mem, issued, astray>>
  PROVE  UNCHANGED Promise!vars
<1>1. \A t \in Task : RowsOfTask(t)' = RowsOfTask(t) BY DEF RowsOfTask
<1>2. \A t \in Task : Located(t)' = Located(t) BY DEF Located, Exists, RowsOfTask
<1>3. Store' = Store BY <1>2 DEF Store
<1>4. OnDisk' = OnDisk BY <1>1 DEF OnDisk
<1> QED BY <1>3, <1>4 DEF Promise!vars, Store, OnDisk

\* What is left alone stays where it is.
\* (One row per task, so any row that says the same will do.)
LEMMA SameLocated ==
  ASSUME IInv, IInv', NEW t \in Task,
         t \in astray' <=> t \in astray,
         RowsOfTask(t)' = {} <=> RowsOfTask(t) = {},
         \A r \in RowsOfTask(t)' : r \in RowsOfTask(t) /\ rows'[r] = rows[r],
         \A p \in Queue : mem'[p][t] = mem[p][t]
  PROVE  Located(t)' = Located(t)
<1>1. LocatedSpec /\ LocatedSpec' BY LocatedHere, LocatedNext
<1>2. CASE t \in astray BY <1>1, <1>2 DEF LocatedSpec
<1>3. CASE t \notin astray /\ RowsOfTask(t)' # {}
  BY <1>1, <1>3 DEF LocatedSpec
<1>4. CASE t \notin astray /\ \E p \in Queue : mem[p][t] # None
  BY <1>1, <1>4 DEF LocatedSpec
<1>5. CASE t \notin astray /\ RowsOfTask(t)' = {} /\ \A p \in Queue : mem[p][t] = None
  BY <1>1, <1>5 DEF LocatedSpec
<1> QED BY <1>2, <1>3, <1>4, <1>5

\* The rows R are read into the records of one queue, in which nothing else
\* changes but for tasks that are astray.
LEMMA LoadStep ==
  ASSUME IInv, IInv', NEW q \in Queue, NEW R \in SUBSET Row,
         \A r \in R : rows[r] # None,
         Commit(R),
         UNCHANGED issued,
         \A t \in Task \ astray' : \/ /\ RowsOfTask(t) \cap R = {}
                                      /\ \A p \in Queue : mem'[p][t] = mem[p][t]
                                   \/ \E r \in R : /\ rows[r].task = t
                                                   /\ mem'[q][t] = rows[r].record
  PROVE  \E T \in SUBSET Task : Promise!Load(T) \/ Promise!GoStray(T)
<1> DEFINE T == {t \in Task \ astray : RowsOfTask(t) \cap R # {}}
<1>1. LocatedSpec /\ LocatedSpec' BY LocatedHere, LocatedNext
<1>2. T \in SUBSET Task /\ T \subseteq OnDisk BY DEF OnDisk
<1>r. \A r \in R : rows[r].task \in Task /\ r \in RowsOfTask(rows[r].task)
  BY DEF IInv, TypeOK, Entry, RowsOfTask
<1>3. CASE /\ rows' = [r \in Row |-> IF r \in R THEN None ELSE rows[r]]
           /\ UNCHANGED astray
  <2>1. \A t \in Task : /\ RowsOfTask(t)' = RowsOfTask(t) \ R
                        /\ \A r \in RowsOfTask(t)' : rows'[r] = rows[r]
    BY <1>3 DEF RowsOfTask
  <2>2. \A t \in T : RowsOfTask(t)' = {}
    BY <2>1 DEF IInv, PlacedOnce
  <2>3. \A t \in Task : Located(t)' = Located(t)
    <3> SUFFICES ASSUME NEW t \in Task PROVE Located(t)' = Located(t)
      OBVIOUS
    <3>1. CASE t \in astray BY <3>1, <1>1, <1>3 DEF LocatedSpec
    <3>2. CASE t \in T
      <4>1. PICK r \in R : rows[r].task = t /\ mem'[q][t] = rows[r].record
        BY <3>2, <1>3
      <4>2. r \in RowsOfTask(t) /\ rows[r].record # None
        BY <4>1, <1>r DEF IInv, TypeOK, Entry
      <4> QED BY <3>2, <4>1, <4>2, <1>1, <1>3 DEF LocatedSpec
    <3>3. CASE t \notin astray /\ t \notin T
      <4>1. RowsOfTask(t) \cap R = {} BY <3>3
      <4>2. \A p \in Queue : mem'[p][t] = mem[p][t]
        BY <3>3, <4>1, <1>r, <1>3
      <4>a. RowsOfTask(t) \ R = RowsOfTask(t) BY <4>1
      <4>3. RowsOfTask(t)' = RowsOfTask(t) BY <4>a, <2>1
      <4> QED BY <4>2, <4>3, <2>1, <1>3, SameLocated
    <3> QED BY <3>1, <3>2, <3>3
  <2>4. Store' = Store BY <2>3 DEF Store
  <2>5. OnDisk' = OnDisk \ T BY <2>1, <2>2, <1>3 DEF OnDisk
  <2>6. Promise!Load(T) BY <1>2, <1>3, <2>4, <2>5 DEF Promise!Load, Store, OnDisk
  <2> HIDE DEF T
  <2> QED BY <1>2, <2>6
<1>4. CASE /\ astray' = astray \cup {rows[r].task : r \in R}
           /\ UNCHANGED rows
  <2>1. \A t \in Task : RowsOfTask(t)' = RowsOfTask(t)
    BY <1>4 DEF RowsOfTask
  <2>2. /\ astray' = astray \cup T
        /\ \A t \in T : t \notin astray
    <3>1. \A r \in R : rows[r].task \in astray \cup T BY <1>r
    <3>2. \A t \in T : \E r \in R : rows[r].task = t BY DEF RowsOfTask
    <3> QED BY <3>1, <3>2, <1>4
  <2>3. \A t \in Task : Located(t)' = IF t \in T THEN None ELSE Located(t)
    <3> SUFFICES ASSUME NEW t \in Task
                 PROVE  Located(t)' = IF t \in T THEN None ELSE Located(t)
      OBVIOUS
    <3>1. CASE t \in astray \cup T BY <3>1, <2>2, <1>1 DEF LocatedSpec
    <3>2. CASE t \notin astray \cup T
      <4>1. t \in Task \ astray' /\ RowsOfTask(t) \cap R = {} BY <3>2, <2>2
      <4>2. \A p \in Queue : mem'[p][t] = mem[p][t]
        BY <4>1, <1>r
      <4>3. \A r \in RowsOfTask(t)' : r \in RowsOfTask(t) /\ rows'[r] = rows[r]
        BY <2>1, <1>4
      <4> QED BY <3>2, <4>1, <4>2, <4>3, <2>1, SameLocated
    <3> QED BY <3>1, <3>2
  <2>4. Store' = [t \in Task |-> IF t \in T THEN None ELSE Store[t]]
    BY <2>3 DEF Store
  <2>5. OnDisk' = OnDisk \ T BY <2>1, <2>2 DEF OnDisk
  <2>6. Promise!GoStray(T)
    BY <1>2, <2>2, <2>4, <2>5 DEF Promise!GoStray, Store, OnDisk
  <2> HIDE DEF T
  <2> QED BY <1>2, <2>6
<1> QED BY <1>3, <1>4 DEF Commit

\* A set of records is lost, and nothing reaches the disk of the tasks that
\* are not astray.
LEMMA LoseStep ==
  ASSUME IInv, IInv', NEW T \in SUBSET (Task \ astray),
         \A t \in T : Exists(t) /\ RowsOfTask(t) = {},
         UNCHANGED <<rows, issued, astray>>,
         \A p \in Queue, t \in Task \ astray :
           mem'[p][t] = IF t \in T THEN None ELSE mem[p][t]
  PROVE  Promise!Lose(T)
<1>1. LocatedSpec /\ LocatedSpec' BY LocatedHere, LocatedNext
<1>r. \A t \in Task : RowsOfTask(t)' = RowsOfTask(t) BY DEF RowsOfTask
<1>2. \A t \in Task : Located(t)' = IF t \in T THEN None ELSE Located(t)
  <2> SUFFICES ASSUME NEW t \in Task
               PROVE  Located(t)' = IF t \in T THEN None ELSE Located(t)
    OBVIOUS
  <2>1. CASE t \in T
    <3>1. RowsOfTask(t)' = {} /\ \A p \in Queue : mem'[p][t] = None BY <2>1, <1>r
    <3> QED BY <2>1, <3>1, <1>1 DEF LocatedSpec
  <2>2. CASE t \in astray BY <2>2, <1>1 DEF LocatedSpec
  <2>3. CASE t \notin astray /\ t \notin T
    <3>1. \A p \in Queue : mem'[p][t] = mem[p][t] BY <2>3
    <3>2. \A r \in RowsOfTask(t)' : r \in RowsOfTask(t) /\ rows'[r] = rows[r]
      BY <1>r
    <3> QED BY <2>3, <3>1, <3>2, <1>r, SameLocated
  <2> QED BY <2>1, <2>2, <2>3
<1>3. Store' = [t \in Task |-> IF t \in T THEN None ELSE Store[t]]
  BY <1>2 DEF Store
<1>4. \A t \in T : Store[t] # None
  BY <1>1 DEF LocatedSpec, Store, Exists
<1>5. T \subseteq {t \in Task : Store[t] # None} \ OnDisk
  BY <1>4 DEF OnDisk
<1>6. OnDisk' = OnDisk BY <1>r DEF OnDisk
<1> QED BY <1>3, <1>5, <1>6 DEF Promise!Lose, Promise!Present, Store, OnDisk

\* The records of one queue are written back, but for the children.
LEMMA WriteStep ==
  ASSUME IInv, IInv', NEW q \in Queue, NEW T \in SUBSET Task,
         T = {t \in Task \ astray : mem[q][t] # None},
         UNCHANGED <<issued, astray>>,
         Save(q),
         \A t \in Saved(q) : \E r \in Row :
           rows[r] = None /\ rows'[r] = [task |-> t, record |-> mem[q][t]],
         \A p \in Queue, t \in Task : mem'[p][t] = IF p = q THEN None ELSE mem[p][t]
  PROVE  Promise!Save(T)
<1>1. LocatedSpec /\ LocatedSpec' BY LocatedHere, LocatedNext
<1>t. TypeOK BY DEF IInv
<1>2. \A t \in T : /\ Located(t) = mem[q][t] /\ Located(t) # None
                   /\ RowsOfTask(t) = {}
                   /\ \A p \in Queue : mem'[p][t] = None
                   /\ t \in Saved(q) <=> Located(t).root
  <2> SUFFICES ASSUME NEW t \in T
               PROVE  /\ Located(t) = mem[q][t] /\ Located(t) # None
                      /\ RowsOfTask(t) = {}
                      /\ \A p \in Queue : mem'[p][t] = None
                      /\ t \in Saved(q) <=> Located(t).root
    OBVIOUS
  <2>1. Located(t) = mem[q][t] /\ mem[q][t] # None BY <1>1 DEF LocatedSpec
  <2>2. RowsOfTask(t) = {} /\ \A p \in Queue : p # q => mem[p][t] = None
    BY DEF IInv, PlacedOnce
  <2> QED BY <2>1, <2>2 DEF Saved
<1>r. \A t \in Task : \A x \in Row :
        x \in RowsOfTask(t)' <=>
          \/ x \in RowsOfTask(t) /\ rows'[x] = rows[x]
          \/ /\ rows[x] = None /\ t \in Saved(q) /\ rows'[x] # None
             /\ rows'[x].task = t /\ rows'[x].record = mem[q][t]
  BY <1>t, SaveStep DEF RowsOfTask
<1>s. \A t \in Saved(q) : \E r \in RowsOfTask(t)' : rows'[r].record = mem[q][t]
  <2> SUFFICES ASSUME NEW t \in Saved(q)
               PROVE  \E r \in RowsOfTask(t)' : rows'[r].record = mem[q][t]
    OBVIOUS
  <2>1. PICK r \in Row : rows'[r] = [task |-> t, record |-> mem[q][t]]
    OBVIOUS
  <2>2. t \in Task /\ mem[q][t] \in Record BY <1>t DEF TypeOK, Saved
  <2>3. rows'[r] \in Entry BY <2>1, <2>2 DEF Entry
  <2>4. rows'[r].task = t /\ rows'[r].record = mem[q][t] BY <2>1
  <2> QED BY <2>3, <2>4 DEF RowsOfTask
<1>k. \A t \in Task : Saved(q) \cap {t} = {} => RowsOfTask(t)' = RowsOfTask(t)
  <2> SUFFICES ASSUME NEW t \in Task, t \notin Saved(q)
               PROVE  RowsOfTask(t)' = RowsOfTask(t)
    OBVIOUS
  <2>1. \A x \in RowsOfTask(t) : rows'[x] = rows[x]
    BY <1>t, SaveStep DEF RowsOfTask
  <2>2. RowsOfTask(t) \subseteq Row /\ RowsOfTask(t)' \subseteq Row BY DEF RowsOfTask
  <2>3. \A x \in Row : x \in RowsOfTask(t)' <=> x \in RowsOfTask(t)
    BY <2>1, <1>r
  <2> QED BY <2>2, <2>3
<1>3. \A t \in Task : Located(t)' = IF t \in T /\ ~Located(t).root THEN None ELSE Located(t)
  <2> SUFFICES ASSUME NEW t \in Task
               PROVE  Located(t)' = IF t \in T /\ ~Located(t).root THEN None ELSE Located(t)
    OBVIOUS
  <2>1. CASE t \in T /\ Located(t).root
    <3>1. t \in Saved(q) /\ t \notin astray' BY <2>1, <1>2
    <3>2. PICK r \in RowsOfTask(t)' : rows'[r].record = mem[q][t] BY <3>1, <1>s
    <3> QED BY <2>1, <3>1, <3>2, <1>1, <1>2 DEF LocatedSpec
  <2>2. CASE t \in T /\ ~Located(t).root
    <3>1. RowsOfTask(t)' = {} /\ \A p \in Queue : mem'[p][t] = None
      BY <2>2, <1>2, <1>k
    <3> QED BY <2>2, <3>1, <1>1 DEF LocatedSpec
  <2>3. CASE t \in astray BY <2>3, <1>1 DEF LocatedSpec
  <2>4. CASE t \notin T /\ t \notin astray
    <3>1. mem[q][t] = None BY <2>4
    <3>2. RowsOfTask(t)' = RowsOfTask(t) BY <3>1, <1>k DEF Saved
    <3>3. \A r \in RowsOfTask(t)' : rows'[r] = rows[r]
      BY <3>2, <1>t, SaveStep DEF RowsOfTask
    <3>4. \A p \in Queue : mem'[p][t] = mem[p][t] BY <3>1
    <3> QED BY <2>4, <3>2, <3>3, <3>4, SameLocated
  <2> QED BY <2>1, <2>2, <2>3, <2>4
<1>4. Store' = [t \in Task |-> IF t \in T /\ ~Store[t].root THEN None ELSE Store[t]]
  BY <1>3 DEF Store
<1>5. T \subseteq {t \in Task : Store[t] # None} \ OnDisk
  BY <1>2 DEF Store, OnDisk
<1>6. \A t \in Task \ astray :
        RowsOfTask(t)' # {} <=> RowsOfTask(t) # {} \/ (t \in T /\ Located(t).root)
  <2> SUFFICES ASSUME NEW t \in Task \ astray
               PROVE  RowsOfTask(t)' # {} <=>
                        RowsOfTask(t) # {} \/ (t \in T /\ Located(t).root)
    OBVIOUS
  <2>1. CASE t \in Saved(q)
    <3>1. t \in T BY <2>1 DEF Saved
    <3> QED BY <2>1, <3>1, <1>2, <1>s
  <2>2. CASE t \notin Saved(q) BY <2>2, <1>2, <1>k
  <2> QED BY <2>1, <2>2
<1>7. OnDisk' = OnDisk \cup {t \in T : Store[t].root}
  BY <1>6 DEF OnDisk, Store
<1> QED BY <1>4, <1>5, <1>7 DEF Promise!Save, Promise!Present, Store, OnDisk

\* One task changes, in memory or away.
LEMMA OneTaskStep ==
  ASSUME IInv, IInv', NEW t \in Task \ astray, NEW w,
         UNCHANGED astray,
         \A r \in Row : \/ rows'[r] = rows[r]
                        \/ r \in RowsOfTask(t) /\ rows'[r] = None,
         \A u \in Task \ {t} : \A p \in Queue : mem'[p][u] = mem[p][u],
         RowsOfTask(t)' = {},
         \/ \E q \in Queue : mem'[q][t] = w /\ w # None
         \/ w = None /\ \A q \in Queue : mem'[q][t] = None
  PROVE  /\ Store' = [Store EXCEPT ![t] = w]
         /\ OnDisk' = OnDisk \ {t}
<1>1. LocatedSpec' BY LocatedNext
<1>2. Located(t)' = w BY <1>1 DEF LocatedSpec
<1>r. \A u \in Task \ {t} : /\ RowsOfTask(u)' = RowsOfTask(u)
                            /\ \A r \in RowsOfTask(u) : rows'[r] = rows[r]
  BY DEF RowsOfTask
<1>3. \A u \in Task \ {t} : Located(u)' = Located(u)
  <2> SUFFICES ASSUME NEW u \in Task \ {t} PROVE Located(u)' = Located(u)
    OBVIOUS
  <2> QED BY <1>r, SameLocated
<1>4. Store' = [Store EXCEPT ![t] = w] BY <1>2, <1>3 DEF Store
<1>5. OnDisk' = OnDisk \ {t} BY <1>r DEF OnDisk
<1> QED BY <1>4, <1>5

LEMMA RefinementStep == IInv /\ IInv' /\ [Next]_vars => [Promise!Next]_(Promise!vars)
<1> SUFFICES ASSUME IInv, IInv', [Next]_vars
             PROVE  Promise!Next \/ UNCHANGED Promise!vars
  OBVIOUS
<1> DEFINE Goal == Promise!Next \/ UNCHANGED Promise!vars
<1> TypeOK BY DEF IInv
<1>a. ASSUME NEW T \in SUBSET Task,
             \/ Promise!Load(T) \/ Promise!GoStray(T)
             \/ Promise!Save(T) \/ Promise!Lose(T)
      PROVE  Goal
  BY <1>a DEF Promise!Next
<1>b. ASSUME NEW q \in Queue, NEW t \in Task, Current(q, t),
             UNCHANGED issued, Ready(q)
      PROVE  Goal
  <2>1. CASE UNCHANGED <<rows, mem, objs, cache, astray>>
    BY <1>b, <2>1, StutterStep
  <2>2. ASSUME NEW r \in Row, NEW o \in Object, Versioned(q, t, r, o) PROVE Goal
    <3>1. /\ {r} \in SUBSET Row /\ rows[r] # None /\ rows[r].task = t
          /\ RowsOfTask(t) \cap {r} = {r}
          /\ Commit({r})
          /\ \A p \in Queue, u \in Task :
               mem'[p][u] = IF p = q /\ u = t THEN rows[r].record ELSE mem[p][u]
          /\ \A u \in Task : u # t => RowsOfTask(u) \cap {r} = {}
      BY <2>2 DEF Versioned, RowsOfTask, TypeOK
    <3>2. PICK T \in SUBSET Task : Promise!Load(T) \/ Promise!GoStray(T)
      BY <1>b, <3>1, LoadStep
    <3> QED BY <3>2, <1>a
  <2> QED BY <1>b, <2>1, <2>2, CurrentStep
<1>1. CASE Start BY <1>1, StutterStep DEF Start, disk
<1>2. CASE StopBegin BY <1>2, StutterStep DEF StopBegin, disk
<1>3. CASE StopEnd BY <1>3, StutterStep DEF StopEnd, disk
<1>4. CASE ProcessEnd
  <2> DEFINE T == {t \in Task \ astray : Exists(t) /\ RowsOfTask(t) = {}}
  <2>1. \A p \in Queue, t \in Task \ astray :
          mem'[p][t] = IF t \in T THEN None ELSE mem[p][t]
    BY <1>4 DEF ProcessEnd, Nothing, Exists, IInv, PlacedOnce
  <2>2. UNCHANGED <<rows, issued, astray>> BY <1>4 DEF ProcessEnd, disk
  <2>3. Promise!Lose(T) BY <2>1, <2>2, LoseStep
  <2>4. T \in SUBSET Task OBVIOUS
  <2> HIDE DEF T
  <2> QED BY <2>3, <2>4, <1>a
<1>5. ASSUME NEW q \in Queue, QueueGetOrCreate(q) PROVE Goal
  BY <1>5, StutterStep DEF QueueGetOrCreate
<1>6. ASSUME NEW q \in Queue, QueueGet(q) PROVE Goal
  BY <1>6, StutterStep DEF QueueGet, disk
<1>7. ASSUME NEW q \in Queue, TasksGet(q) PROVE Goal
  <2>1. /\ RowsOf(q) \in SUBSET Row
        /\ \A r \in RowsOf(q) : rows[r] # None /\ rows[r].task \in Listed(q)
        /\ UNCHANGED issued
    BY <1>7 DEF RowsOf, Listed, TasksGet
  <2>2. Commit(RowsOf(q)) BY <1>7, TasksGetStep
  <2>3. ASSUME NEW t \in Task \ astray'
        PROVE  \/ /\ RowsOfTask(t) \cap RowsOf(q) = {}
                  /\ \A p \in Queue : mem'[p][t] = mem[p][t]
               \/ \E r \in RowsOf(q) : rows[r].task = t /\ mem'[q][t] = rows[r].record
    <3>1. t \notin astray BY <2>1, <2>2, CommitStep
    <3>2. CASE t \in Listed(q)
      <4>1. PICK r \in RowsOf(q) : rows[r].task = t BY <3>2 DEF Listed
      <4>2. r \in RowsOfTask(t) BY <4>1, <2>1 DEF RowsOfTask
      <4>3. mem[q][t] = None BY <3>1, <4>2 DEF IInv, PlacedOnce
      <4> QED BY <3>2, <4>3, <1>7, TasksGetStep
    <3>3. CASE t \notin Listed(q)
      <4>1. RowsOfTask(t) \cap RowsOf(q) = {} BY <3>3, <2>1 DEF RowsOfTask
      <4>2. \A p \in Queue : mem'[p][t] = mem[p][t] BY <3>3, <1>7, TasksGetStep
      <4> QED BY <4>1, <4>2
    <3> QED BY <3>2, <3>3
  <2>4. PICK R \in SUBSET Row : R = RowsOf(q) BY <2>1
  <2>5. PICK T \in SUBSET Task : Promise!Load(T) \/ Promise!GoStray(T)
    BY <2>1, <2>2, <2>3, <2>4, LoadStep
  <2> QED BY <2>5, <1>a
<1>8. ASSUME NEW q \in Queue, StatusSetWrite(q) PROVE Goal
  <2>1. PICK t \in Task, s \in Status : t = setting[q].task /\ s = setting[q].status
    BY <1>8 DEF StatusSetWrite, TypeOK, Request
  <2>2. /\ UNCHANGED <<rows, issued, astray>>
        /\ \A u \in Task : RowsOfTask(u)' = RowsOfTask(u)
    BY <1>8 DEF StatusSetWrite, disk, RowsOfTask
  <2>3. mem' = [mem EXCEPT ![q][t] = 
                         IF @ # None THEN [@ EXCEPT !.status = s] ELSE @]
    BY <1>8, <2>1 DEF StatusSetWrite
  <2>4. CASE mem[q][t] = None
    <3>1. mem' = mem BY <2>1, <2>3, <2>4 DEF TypeOK
    <3> QED BY <2>2, <3>1, StutterStep
  <2>5. CASE t \in astray /\ mem[q][t] # None
    <3>1. \A u \in Task : u # t => \A p \in Queue : mem'[p][u] = mem[p][u]
      BY <2>1, <2>3 DEF TypeOK
    <3>2. LocatedSpec /\ LocatedSpec' BY LocatedHere, LocatedNext
    <3>3. ASSUME NEW u \in Task PROVE Located(u)' = Located(u)
      <4>1. CASE u = t BY <4>1, <2>1, <2>2, <2>5, <3>2 DEF LocatedSpec
      <4>2. CASE u # t
        <5>1. \A x \in RowsOfTask(u)' : x \in RowsOfTask(u) /\ rows'[x] = rows[x]
          BY <2>2
        <5> QED BY <4>2, <5>1, <2>2, <3>1, SameLocated
      <4> QED BY <4>1, <4>2
    <3>4. Store' = Store BY <3>3 DEF Store
    <3>5. OnDisk' = OnDisk BY <2>2 DEF OnDisk
    <3> QED BY <2>2, <3>4, <3>5 DEF Promise!vars, Store, OnDisk
  <2>6. CASE t \notin astray /\ mem[q][t] # None
    <3>a. \A x \in Record : [x EXCEPT !.status = s] \in Record
      BY <2>1 DEF Record
    <3>1. PICK w \in Record : w = [mem[q][t] EXCEPT !.status = s]
      <4>1. mem[q][t] \in Record BY <2>1, <2>6 DEF TypeOK
      <4> QED BY <3>a, <4>1
    <3>2. mem'[q][t] = w /\ w # None BY <3>1, <2>1, <2>3, <2>6 DEF TypeOK
    <3>3. \A u \in Task \ {t} : \A p \in Queue : mem'[p][u] = mem[p][u]
      BY <2>1, <2>3 DEF TypeOK
    <3>4. RowsOfTask(t) = {} /\ RowsOfTask(t)' = {}
      BY <2>1, <2>2, <2>6 DEF IInv, PlacedOnce
    <3>5. t \in Task \ astray /\ \A r \in Row : rows'[r] = rows[r]
      BY <2>1, <2>2, <2>6
    <3>6. Store' = [Store EXCEPT ![t] = w] /\ OnDisk' = OnDisk \ {t}
      <4>1. UNCHANGED astray BY <2>2
      <4> QED BY <3>2, <3>3, <3>4, <3>5, <4>1, OneTaskStep
    <3>7. Store[t] = mem[q][t]
      BY <2>1, <2>6, LocatedHere DEF LocatedSpec, Store
    <3>8. t \in {u \in Task : Store[u] # None} \ OnDisk
      BY <2>1, <2>6, <3>4, <3>7 DEF OnDisk
    <3>9. Store' = [Store EXCEPT ![t].status = s] BY <3>1, <3>6, <3>7
    <3>10. OnDisk' = OnDisk BY <3>6, <3>8
    <3>11. Promise!SetStatus(t, s)
      BY <2>2, <3>8, <3>9, <3>10 DEF Promise!SetStatus, Promise!Present, Store, OnDisk
    <3> QED BY <2>1, <3>11 DEF Promise!Next
  <2> QED BY <2>4, <2>5, <2>6
<1>9. ASSUME NEW q \in Queue, StopQueue(q) PROVE Goal
  <2>t. PICK T \in SUBSET Task : T = {t \in Task \ astray : mem[q][t] # None}
    OBVIOUS
  <2>1. /\ UNCHANGED <<issued, astray>>
        /\ \A p \in Queue, t \in Task : mem'[p][t] = IF p = q THEN None ELSE mem[p][t]
        /\ Save(q)
    BY <1>9 DEF StopQueue, Nothing, TypeOK
  <2>2. CASE \A t \in Saved(q) : \E r \in Row :
               rows[r] = None /\ rows'[r] = [task |-> t, record |-> mem[q][t]]
    <3>1. Promise!Save(T) BY <2>t, <2>1, <2>2, WriteStep
    <3> QED BY <3>1, <1>a
  <2>3. CASE rows' = rows
    <3>1. T \in SUBSET (Task \ astray) BY <2>t
    <3>2. \A t \in T : Exists(t) /\ RowsOfTask(t) = {}
      BY <2>t DEF Exists, IInv, PlacedOnce
    <3>3. \A p \in Queue, t \in Task \ astray :
            mem'[p][t] = IF t \in T THEN None ELSE mem[p][t]
      BY <2>t, <2>1 DEF IInv, PlacedOnce
    <3>4. Promise!Lose(T) BY <2>1, <2>3, <3>1, <3>2, <3>3, LoseStep
    <3> QED BY <3>4, <1>a
  <2> QED BY <2>1, <2>2, <2>3, SaveStep
<1>10. ASSUME NEW q \in Queue, NEW t \in Task, TaskGet(q, t) PROVE Goal
  BY <1>10, <1>b DEF TaskGet
<1>11. ASSUME NEW q \in Queue, NEW t \in Task, TaskRemove(q, t) PROVE Goal
  <2>1. /\ UNCHANGED issued
        /\ \A p \in Queue, u \in Task :
             mem'[p][u] = IF p = q /\ u = t THEN None ELSE mem[p][u]
        /\ Exists(t)
    BY <1>11 DEF TaskRemove, Exists, TypeOK
  <2>r. \A r \in RowsOfTask(t) : r \in Row /\ rows[r] # None /\ rows[r].task = t
    BY DEF RowsOfTask
  <2>g. ASSUME NEW r \in RowsOfTask(t),
               rows' = [x \in Row |-> IF x \in {r} THEN None ELSE rows[x]]
        PROVE  t \notin astray => RowsOfTask(t)' = {}
    <3>1. t \notin astray => \A x \in RowsOfTask(t) : x = r
      BY DEF IInv, PlacedOnce
    <3>2. \A x \in RowsOfTask(t)' : x \in RowsOfTask(t) /\ x # r
      BY <2>g DEF RowsOfTask
    <3> QED BY <3>1, <3>2
  <2>2. \/ t \in astray' /\ rows' = rows /\ astray' = astray \cup {t}
        \/ t \in astray /\ UNCHANGED astray
        \/ t \notin astray' /\ UNCHANGED astray /\ RowsOfTask(t)' = {}
    <3>1. CASE mem[q][t] # None
      <4>1. rows' = rows /\ astray' = astray BY <1>11, <3>1 DEF TaskRemove
      <4>2. t \notin astray => RowsOfTask(t) = {}
        BY <3>1 DEF IInv, PlacedOnce
      <4>3. RowsOfTask(t)' = RowsOfTask(t) BY <4>1 DEF RowsOfTask
      <4> QED BY <4>1, <4>2, <4>3
    <3>2. CASE mem[q][t] = None
      <4>1. PICK r \in RowsOfTask(t) : Commit({r}) BY <1>11, <3>2 DEF TaskRemove
      <4>2. CASE /\ rows' = [x \in Row |-> IF x \in {r} THEN None ELSE rows[x]]
                 /\ UNCHANGED astray
        BY <4>2, <2>g
      <4>3. CASE /\ astray' = astray \cup {rows[x].task : x \in {r}}
                 /\ UNCHANGED rows
        BY <4>3, <2>r
      <4> QED BY <4>1, <4>2, <4>3 DEF Commit
    <3> QED BY <3>1, <3>2
  <2>w. \A r \in Row : \/ rows'[r] = rows[r]
                       \/ r \in RowsOfTask(t) /\ rows'[r] = None
    <3>1. CASE mem[q][t] # None BY <1>11, <3>1 DEF TaskRemove
    <3>2. CASE mem[q][t] = None
      <4>1. PICK r \in RowsOfTask(t) : Commit({r}) BY <1>11, <3>2 DEF TaskRemove
      <4>2. {r} \in SUBSET Row /\ \A x \in {r} : rows[x] # None BY <2>r
      <4> QED BY <4>1, <4>2, CommitStep
    <3> QED BY <3>1, <3>2
  <2>3. CASE t \in astray' /\ rows' = rows /\ astray' = astray \cup {t}
    <3>1. \A u \in Task : RowsOfTask(u)' = RowsOfTask(u) BY <2>3 DEF RowsOfTask
    <3>2. LocatedSpec /\ LocatedSpec' BY LocatedHere, LocatedNext
    <3>3. \A u \in Task \ {t} : Located(u)' = Located(u)
      <4> SUFFICES ASSUME NEW u \in Task \ {t} PROVE Located(u)' = Located(u)
        OBVIOUS
      <4>1. u \in astray' <=> u \in astray BY <2>3
      <4>2. \A x \in RowsOfTask(u)' : x \in RowsOfTask(u) /\ rows'[x] = rows[x]
        BY <2>3, <3>1
      <4> QED BY <2>1, <3>1, <4>1, <4>2, SameLocated
    <3>4. Located(t)' = None BY <2>3, <3>2 DEF LocatedSpec
    <3>5. CASE t \in astray
      <4>1. Store' = Store BY <3>2, <3>3, <3>4, <3>5 DEF Store, LocatedSpec
      <4>2. OnDisk' = OnDisk BY <2>3, <3>1, <3>5 DEF OnDisk
      <4> QED BY <2>1, <2>3, <3>5, <4>1, <4>2 DEF Promise!vars, Store, OnDisk
    <3>6. CASE t \notin astray
      <4>1. Store' = [u \in Task |-> IF u \in {t} THEN None ELSE Store[u]]
        BY <3>3, <3>4 DEF Store
      <4>2. OnDisk' = OnDisk \ {t} BY <2>3, <3>1 DEF OnDisk
      <4>3. mem[q][t] = None /\ RowsOfTask(t) # {}
        BY <1>11, <2>3, <3>6 DEF TaskRemove
      <4>4. {t} \subseteq OnDisk BY <3>6, <4>3 DEF OnDisk
      <4>5. Promise!GoStray({t})
        BY <2>1, <2>3, <4>1, <4>2, <4>4 DEF Promise!GoStray, Store, OnDisk
      <4> QED BY <4>5, <1>a
    <3> QED BY <3>5, <3>6
  <2>4. CASE t \in astray /\ UNCHANGED astray
    <3>2. LocatedSpec /\ LocatedSpec' BY LocatedHere, LocatedNext
    <3>1. \A u \in Task \ {t} : /\ RowsOfTask(u)' = RowsOfTask(u)
                                /\ \A x \in RowsOfTask(u) : rows'[x] = rows[x]
      BY <2>w DEF RowsOfTask
    <3>3. \A u \in Task : Located(u)' = Located(u)
      <4> SUFFICES ASSUME NEW u \in Task PROVE Located(u)' = Located(u)
        OBVIOUS
      <4>1. CASE u = t BY <2>4, <4>1, <3>2 DEF LocatedSpec
      <4>2. CASE u # t BY <2>1, <2>4, <4>2, <3>1, SameLocated
      <4> QED BY <4>1, <4>2
    <3>4. Store' = Store BY <3>3 DEF Store
    <3>5. OnDisk' = OnDisk BY <2>4, <3>1 DEF OnDisk
    <3> QED BY <2>1, <2>4, <3>4, <3>5 DEF Promise!vars, Store, OnDisk
  <2>5. CASE t \notin astray' /\ UNCHANGED astray /\ RowsOfTask(t)' = {}
    <3>1. \A p \in Queue : mem'[p][t] = None
      <4>1. CASE mem[q][t] # None
        BY <2>1, <2>5, <4>1 DEF IInv, PlacedOnce
      <4>2. CASE mem[q][t] = None
        <5>1. RowsOfTask(t) # {} BY <1>11, <4>2 DEF TaskRemove
        <5> QED BY <2>1, <2>5, <5>1 DEF IInv, PlacedOnce
      <4> QED BY <4>1, <4>2
    <3>2. Store' = [Store EXCEPT ![t] = None] /\ OnDisk' = OnDisk \ {t}
      BY <2>1, <2>w, <2>5, <3>1, OneTaskStep
    <3>3. Store[t] # None
      <4>1. \A r \in RowsOfTask(t) : rows[r].record # None
        BY <2>r DEF TypeOK, Entry
      <4> QED BY <2>1, <2>5, <4>1, LocatedHere DEF LocatedSpec, Store, Exists
    <3>4. Promise!Remove(t)
      BY <2>1, <2>5, <3>2, <3>3 DEF Promise!Remove, Promise!Present, Store, OnDisk
    <3> QED BY <3>4 DEF Promise!Next
  <2> QED BY <2>2, <2>3, <2>4, <2>5
<1>12. ASSUME NEW q \in Queue, NEW t \in Task, NEW s \in Status, StatusSetFind(q, t, s)
       PROVE  Goal
  BY <1>12, <1>b DEF StatusSetFind
<1>13. ASSUME NEW q \in Queue, NEW t \in Task, NEW s \in Status,
              NEW root \in BOOLEAN, TaskNew(q, t, root, s)
       PROVE  Goal
  <2> DEFINE w == [queue |-> q, root |-> root, status |-> s]
  <2>1. /\ issued' = issued \cup {t} /\ t \in Task \ issued
        /\ UNCHANGED <<rows, astray>>
        /\ mem' = [mem EXCEPT ![q][t] = w]
    BY <1>13 DEF TaskNew
  <2>2. w \in Record /\ w # None /\ w \in Promise!Record
    BY DEF Record, Promise!Record
  <2>3. RowsOfTask(t) = {} /\ t \notin astray /\ t \notin OnDisk
    BY <2>1 DEF IInv, ExistingIssued, Exists, OnDisk
  <2>4. /\ \A u \in Task \ {t} : \A p \in Queue : mem'[p][u] = mem[p][u]
        /\ \A r \in Row : rows'[r] = rows[r]
        /\ mem'[q][t] = w
    BY <2>1 DEF TypeOK
  <2>5. RowsOfTask(t)' = {} BY <2>1, <2>3 DEF RowsOfTask
  <2>6. Store' = [Store EXCEPT ![t] = w] /\ OnDisk' = OnDisk \ {t}
    <3>1. t \in Task \ astray /\ UNCHANGED astray BY <2>1, <2>3
    <3> QED BY <2>2, <2>4, <2>5, <3>1, OneTaskStep
  <2>7. Promise!Create(t, w)
    BY <2>1, <2>3, <2>6 DEF Promise!Create, Store, OnDisk
  <2> QED BY <2>2, <2>7 DEF Promise!Next
<1>14. CASE UNCHANGED vars BY <1>14, StutterStep DEF vars, disk
<1> QED BY <1>1, <1>2, <1>3, <1>4, <1>5, <1>6, <1>7, <1>8, <1>9, <1>10, <1>11,
           <1>12, <1>13, <1>14 DEF Next

\* Seen from outside, the two layers, the table, Stop and the crashes are one
\* store of tasks with a disk, from which a task goes stray by a commit that
\* fails and in no other way.
THEOREM Refinement == Spec => ImplementsTaskStore
<1>1. Init => Promise!Init
  BY DEF Init, Promise!Init, Located, Exists, Nothing, RowsOfTask
<1> QED BY <1>1, Invariance, RefinementStep, PTL
        DEF Spec, ImplementsTaskStore, Promise!Spec

=============================================================================
