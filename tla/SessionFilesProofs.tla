--------------------------- MODULE SessionFilesProofs ---------------------------
(***************************************************************************)
(* For any number of processes, sessions and inodes: the locks of the      *)
(* files save handler serialise the requests of a session, no content is   *)
(* torn and no process writes into the file of another session.            *)
(***************************************************************************)
EXTENDS SessionFiles, TLAPS

WithFd == Holding \cup {"lock"}

\* A process has a descriptor exactly from open() to close(), and an id
\* whenever it has a session.
Descriptors ==
    \A p \in Proc :
        /\ IF pc[p] \in WithFd THEN fd[p] \in Inode ELSE fd[p] = NoFile
        /\ pc[p] # "idle" => id[p] \in Id

LockInv == TypeOK /\ Descriptors /\ LockIffHolding

\* No inode has two names.
OneName == \A i, j \in Id : dir[i] # NoFile /\ dir[i] = dir[j] => i = j

\* Content, and what has been read of it, is never torn; between the
\* truncation and the write the file is no longer than what is to be written.
Whole ==
    /\ NeverTorn
    /\ \A p \in Proc : items[p] # Torn
    /\ \A p \in Proc : pc[p] = "pwrite" => data[fd[p]] <= items[p]

DataInv == SeesLatest /\ Whole

-----------------------------------------------------------------------------
\* What is left of a session that has been closed or destroyed
LEMMA AfterLeave ==
    ASSUME TypeOK, NEW p \in Proc, Leave(p)
    PROVE  \E w \in {"idle", "open"}, n \in Id \cup {NoId}, x \in {0, items[p]} :
              /\ pc' = [pc EXCEPT ![p] = w]
              /\ id' = [id EXCEPT ![p] = n]
              /\ items' = [items EXCEPT ![p] = x]
              /\ size' = [size EXCEPT ![p] = 0]
              /\ w = "open" => n \in Id
              /\ minted' \in [Proc -> BOOLEAN]
              /\ orig' \in [Proc -> 0..MaxItems \cup {NoVars}]
              /\ renew' \in [Proc -> BOOLEAN]
              /\ todo' \in [Proc -> SUBSET Id]
              /\ victim' \in [Proc -> Id \cup {NoId}]
              /\ newId' \in [Proc -> {"none", "live", "released"}]
<1> DEFINE Goal(w, n, x) ==
              /\ pc' = [pc EXCEPT ![p] = w]
              /\ id' = [id EXCEPT ![p] = n]
              /\ items' = [items EXCEPT ![p] = x]
              /\ size' = [size EXCEPT ![p] = 0]
              /\ w = "open" => n \in Id
              /\ minted' \in [Proc -> BOOLEAN]
              /\ orig' \in [Proc -> 0..MaxItems \cup {NoVars}]
              /\ renew' \in [Proc -> BOOLEAN]
              /\ todo' \in [Proc -> SUBSET Id]
              /\ victim' \in [Proc -> Id \cup {NoId}]
              /\ newId' \in [Proc -> {"none", "live", "released"}]
<1>1. ASSUME Forget(p)
      PROVE  Goal("idle", NoId, 0)
  BY <1>1 DEF Forget, GoTo, TypeOK, NoVars
<1>2. CASE Forget(p)
  BY <1>1, <1>2
<1>3. ASSUME NEW n \in NewIds, n # NoId,
             id' = [id EXCEPT ![p] = n],
             minted' = [minted EXCEPT ![p] = Strict],
             orig' = [orig EXCEPT ![p] = NoVars],
             size' = [size EXCEPT ![p] = 0],
             GoTo(p, "open"),
             UNCHANGED <<items, renew, todo, victim, newId>>
      PROVE  Goal("open", n, items[p]) /\ n \in Id
  <2>1. n \in Id
    BY <1>3 DEF NewIds
  <2>2. items' = [items EXCEPT ![p] = items[p]]
    BY <1>3 DEF TypeOK
  <2> QED
    BY <1>3, <2>1, <2>2, ModesAssumption DEF GoTo, TypeOK
<1>4. CASE Continue(p)
  <2>1. PICK n \in NewIds :
            IF n = NoId
            THEN Forget(p)
            ELSE /\ id' = [id EXCEPT ![p] = n]
                 /\ minted' = [minted EXCEPT ![p] = Strict]
                 /\ orig' = [orig EXCEPT ![p] = NoVars]
                 /\ size' = [size EXCEPT ![p] = 0]
                 /\ GoTo(p, "open")
                 /\ UNCHANGED <<items, renew, todo, victim, newId>>
    BY <1>4 DEF Continue
  <2>2. CASE n = NoId
    BY <1>2, <2>1, <2>2
  <2>3. CASE n # NoId
    <3>1. Goal("open", n, items[p]) /\ n \in Id
      BY <1>3, <2>1, <2>3
    <3> QED
      BY <3>1
  <2> QED
    BY <2>2, <2>3
<1> QED
  BY <1>2, <1>4 DEF Leave

\* Every action keeps the types.
LEMMA TypeStep ==
    ASSUME TypeOK, Descriptors, [Next]_vars
    PROVE  TypeOK'
<1> USE SentinelsAreNew, MaxItemsAssumption, ModesAssumption
<1>1. ASSUME NEW p \in Proc, NEW i \in Id \cup {NoId}, Start(p, i)
      PROVE  TypeOK'
  BY <1>1
  DEF TypeOK, PCs, Holding, NoVars, Torn, Start, Initialize, ChosenIds, NewIds, KeyExists,
      GoTo, files
<1>2. ASSUME NEW p \in Proc, Open(p)
      PROVE  TypeOK'
  <2>1. fd' \in [Proc -> Inode \cup {NoFile}] /\ dir' \in [Id -> Inode \cup {NoFile}]
    BY <1>2 DEF TypeOK, Descriptors, Open, KeyExists
  <2>2. data' \in [Inode -> 0..MaxItems \cup {Torn}] /\ old' \in [Inode -> BOOLEAN]
    <3>1. CASE UNCHANGED <<dir, data, old>>
      BY <3>1 DEF TypeOK
    <3>2. ASSUME NEW f \in Inode, data' = [data EXCEPT ![f] = 0], old' = [old EXCEPT ![f] = FALSE]
          PROVE  data' \in [Inode -> 0..MaxItems \cup {Torn}] /\ old' \in [Inode -> BOOLEAN]
      BY <3>2 DEF TypeOK
    <3> QED
      BY <1>2, <3>1, <3>2 DEF Open
  <2> QED
    BY <1>2, <2>1, <2>2 DEF TypeOK, Open, GoTo, PCs
<1>3. ASSUME NEW p \in Proc, Lock(p)
      PROVE  TypeOK'
  BY <1>3 DEF TypeOK, PCs, Holding, NoVars, Torn, Lock, GoTo
<1>4. ASSUME NEW p \in Proc, Read(p)
      PROVE  TypeOK'
  BY <1>4 DEF TypeOK, PCs, Holding, NoVars, Torn, Descriptors, WithFd, Read, KeyExists, GoTo, files
<1>5. ASSUME NEW p \in Proc, GcStat(p)
      PROVE  TypeOK'
  BY <1>5 DEF TypeOK, PCs, Holding, NoVars, Torn, GcStat, KeyExists, GoTo, files
<1>6. ASSUME NEW p \in Proc, GcUnlink(p)
      PROVE  TypeOK'
  BY <1>6 DEF TypeOK, PCs, Holding, NoVars, Torn, GcUnlink, GoTo
<1>7. ASSUME NEW p \in Proc, GcEnd(p)
      PROVE  TypeOK'
  BY <1>7 DEF TypeOK, PCs, Holding, NoVars, Torn, GcEnd, GoTo, files
<1>8. ASSUME NEW p \in Proc, Add(p)
      PROVE  TypeOK'
  BY <1>8 DEF TypeOK, PCs, Holding, NoVars, Torn, Add, Can, files
<1>9. ASSUME NEW p \in Proc, Unset(p)
      PROVE  TypeOK'
  BY <1>9 DEF TypeOK, PCs, Holding, NoVars, Torn, Unset, Can, files
<1>10. ASSUME NEW p \in Proc, SessionGc(p)
      PROVE  TypeOK'
  BY <1>10 DEF TypeOK, PCs, Holding, NoVars, Torn, SessionGc, Can, KeyExists, GoTo, files
<1>11. ASSUME NEW p \in Proc, CreateId(p)
      PROVE  TypeOK'
  BY <1>11 DEF TypeOK, PCs, Holding, NoVars, Torn, CreateId, Can, files
<1>12. ASSUME NEW p \in Proc, Abort(p)
      PROVE  TypeOK'
  BY <1>12 DEF TypeOK, PCs, Holding, NoVars, Torn, Abort, Can, GoTo, files
<1>13. ASSUME NEW p \in Proc, Reset(p)
      PROVE  TypeOK'
  BY <1>13
  DEF TypeOK, PCs, Holding, NoVars, Torn, Reset, Can, CloseFd, Initialize, ChosenIds, NewIds,
      KeyExists, GoTo
<1>14. ASSUME NEW p \in Proc, Destroy(p)
      PROVE  TypeOK'
  BY <1>14 DEF TypeOK, PCs, Holding, NoVars, Torn, Destroy, Can, CloseFd, GoTo
<1>15. ASSUME NEW p \in Proc, Regenerate(p)
      PROVE  TypeOK'
  BY <1>15 DEF TypeOK, PCs, Holding, NoVars, Torn, Regenerate, Can, CloseFd, GoTo
<1>16. ASSUME NEW p \in Proc, Flush(p)
      PROVE  TypeOK'
  BY <1>16 DEF TypeOK, PCs, Holding, NoVars, Torn, Flush, GoTo, files
<1>17. ASSUME NEW p \in Proc, Touch(p)
      PROVE  TypeOK'
  BY <1>17 DEF TypeOK, PCs, Holding, NoVars, Torn, Descriptors, WithFd, Touch, KeyExists, GoTo
<1>18. ASSUME NEW p \in Proc, Write(p)
      PROVE  TypeOK'
  BY <1>18 DEF TypeOK, PCs, Holding, NoVars, Torn, Descriptors, WithFd, Write, GoTo
<1>19. ASSUME NEW p \in Proc, PWrite(p)
      PROVE  TypeOK'
  BY <1>19 DEF TypeOK, PCs, Holding, NoVars, Torn, Descriptors, WithFd, PWrite, GoTo
<1>20. ASSUME NEW p \in Proc, Close(p)
      PROVE  TypeOK'
  <2>1. PICK w \in {"idle", "open"}, n \in Id \cup {NoId}, x \in {0, items[p]} :
            /\ pc' = [pc EXCEPT ![p] = w]
            /\ id' = [id EXCEPT ![p] = n]
            /\ items' = [items EXCEPT ![p] = x]
            /\ size' = [size EXCEPT ![p] = 0]
            /\ minted' \in [Proc -> BOOLEAN]
            /\ orig' \in [Proc -> 0..MaxItems \cup {NoVars}]
            /\ renew' \in [Proc -> BOOLEAN]
            /\ todo' \in [Proc -> SUBSET Id]
            /\ victim' \in [Proc -> Id \cup {NoId}]
            /\ newId' \in [Proc -> {"none", "live", "released"}]
    BY <1>20, AfterLeave DEF Close
  <2>2. items' \in [Proc -> 0..MaxItems \cup {Torn}] /\ size' \in [Proc -> 0..MaxItems \cup {Torn}]
    BY <2>1 DEF TypeOK
  <2> QED
    BY <1>20, <2>1, <2>2 DEF TypeOK, PCs, Close, CloseFd
<1>21. ASSUME NEW p \in Proc, Unlink(p)
      PROVE  TypeOK'
  <2>1. PICK w \in {"idle", "open"}, n \in Id \cup {NoId}, x \in {0, items[p]} :
            /\ pc' = [pc EXCEPT ![p] = w]
            /\ id' = [id EXCEPT ![p] = n]
            /\ items' = [items EXCEPT ![p] = x]
            /\ size' = [size EXCEPT ![p] = 0]
            /\ minted' \in [Proc -> BOOLEAN]
            /\ orig' \in [Proc -> 0..MaxItems \cup {NoVars}]
            /\ renew' \in [Proc -> BOOLEAN]
            /\ todo' \in [Proc -> SUBSET Id]
            /\ victim' \in [Proc -> Id \cup {NoId}]
            /\ newId' \in [Proc -> {"none", "live", "released"}]
    BY <1>21, AfterLeave DEF Unlink
  <2>2. items' \in [Proc -> 0..MaxItems \cup {Torn}] /\ size' \in [Proc -> 0..MaxItems \cup {Torn}]
    BY <2>1 DEF TypeOK
  <2> QED
    BY <1>21, <2>1, <2>2 DEF TypeOK, PCs, Unlink
<1>22. ASSUME NEW p \in Proc, Crash(p)
      PROVE  TypeOK'
  BY <1>22 DEF TypeOK, PCs, Holding, NoVars, Torn, Crash, CloseFd, Forget, GoTo
<1>23. ASSUME NEW f \in Inode, Expire(f)
      PROVE  TypeOK'
  BY <1>23 DEF TypeOK, PCs, Holding, NoVars, Torn, Expire
<1>24. CASE UNCHANGED vars
  BY <1>24 DEF TypeOK, PCs, Holding, NoVars, Torn, vars
<1> QED
  BY <1>1, <1>2, <1>3, <1>4, <1>5, <1>6, <1>7, <1>8, <1>9, <1>10,
     <1>11, <1>12, <1>13, <1>14, <1>15, <1>16, <1>17, <1>18, <1>19, <1>20, <1>21, <1>22, <1>23,
     <1>24
  DEF Next, Step, Script

\* Every action keeps descriptors and locks in step with the place of a process.
LEMMA LockStep ==
    ASSUME LockInv, [Next]_vars
    PROVE  Descriptors' /\ LockIffHolding'
<1> USE SentinelsAreNew
<1>1. ASSUME NEW p \in Proc, NEW i \in Id \cup {NoId}, Start(p, i)
      PROVE  Descriptors' /\ LockIffHolding'
  BY <1>1
  DEF LockInv, TypeOK, Descriptors, LockIffHolding, WithFd, Holding, Start, Initialize,
      ChosenIds, NewIds, KeyExists, GoTo, files
<1>2. ASSUME NEW p \in Proc, Open(p)
      PROVE  Descriptors' /\ LockIffHolding'
  BY <1>2 DEF LockInv, TypeOK, Descriptors, LockIffHolding, WithFd, Holding, Open, KeyExists, GoTo
<1>3. ASSUME NEW p \in Proc, Lock(p)
      PROVE  Descriptors' /\ LockIffHolding'
  BY <1>3 DEF LockInv, TypeOK, Descriptors, LockIffHolding, WithFd, Holding, Lock, GoTo
<1>4. ASSUME NEW p \in Proc, Read(p)
      PROVE  Descriptors' /\ LockIffHolding'
  BY <1>4
  DEF LockInv, TypeOK, Descriptors, LockIffHolding, WithFd, Holding, Read, KeyExists, GoTo,
      files
<1>5. ASSUME NEW p \in Proc, GcStat(p)
      PROVE  Descriptors' /\ LockIffHolding'
  BY <1>5
  DEF LockInv, TypeOK, Descriptors, LockIffHolding, WithFd, Holding, GcStat, KeyExists, GoTo,
      files
<1>6. ASSUME NEW p \in Proc, GcUnlink(p)
      PROVE  Descriptors' /\ LockIffHolding'
  BY <1>6 DEF LockInv, TypeOK, Descriptors, LockIffHolding, WithFd, Holding, GcUnlink, GoTo
<1>7. ASSUME NEW p \in Proc, GcEnd(p)
      PROVE  Descriptors' /\ LockIffHolding'
  BY <1>7 DEF LockInv, TypeOK, Descriptors, LockIffHolding, WithFd, Holding, GcEnd, GoTo, files
<1>8. ASSUME NEW p \in Proc, Add(p)
      PROVE  Descriptors' /\ LockIffHolding'
  BY <1>8 DEF LockInv, TypeOK, Descriptors, LockIffHolding, WithFd, Holding, Add, Can, files
<1>9. ASSUME NEW p \in Proc, Unset(p)
      PROVE  Descriptors' /\ LockIffHolding'
  BY <1>9 DEF LockInv, TypeOK, Descriptors, LockIffHolding, WithFd, Holding, Unset, Can, files
<1>10. ASSUME NEW p \in Proc, SessionGc(p)
      PROVE  Descriptors' /\ LockIffHolding'
  BY <1>10
  DEF LockInv, TypeOK, Descriptors, LockIffHolding, WithFd, Holding, SessionGc, Can,
      KeyExists, GoTo, files
<1>11. ASSUME NEW p \in Proc, CreateId(p)
      PROVE  Descriptors' /\ LockIffHolding'
  BY <1>11 DEF LockInv, TypeOK, Descriptors, LockIffHolding, WithFd, Holding, CreateId, Can, files
<1>12. ASSUME NEW p \in Proc, Abort(p)
      PROVE  Descriptors' /\ LockIffHolding'
  BY <1>12
  DEF LockInv, TypeOK, Descriptors, LockIffHolding, WithFd, Holding, Abort, Can, GoTo, files
<1>13. ASSUME NEW p \in Proc, Reset(p)
      PROVE  Descriptors' /\ LockIffHolding'
  BY <1>13
  DEF LockInv, TypeOK, Descriptors, LockIffHolding, WithFd, Holding, Reset, Can, CloseFd,
      Initialize, ChosenIds, NewIds, KeyExists, GoTo
<1>14. ASSUME NEW p \in Proc, Destroy(p)
      PROVE  Descriptors' /\ LockIffHolding'
  BY <1>14
  DEF LockInv, TypeOK, Descriptors, LockIffHolding, WithFd, Holding, Destroy, Can, CloseFd,
      GoTo
<1>15. ASSUME NEW p \in Proc, Regenerate(p)
      PROVE  Descriptors' /\ LockIffHolding'
  BY <1>15
  DEF LockInv, TypeOK, Descriptors, LockIffHolding, WithFd, Holding, Regenerate, Can,
      CloseFd, GoTo
<1>16. ASSUME NEW p \in Proc, Flush(p)
      PROVE  Descriptors' /\ LockIffHolding'
  BY <1>16 DEF LockInv, TypeOK, Descriptors, LockIffHolding, WithFd, Holding, Flush, GoTo, files
<1>17. ASSUME NEW p \in Proc, Touch(p)
      PROVE  Descriptors' /\ LockIffHolding'
  BY <1>17 DEF LockInv, TypeOK, Descriptors, LockIffHolding, WithFd, Holding, Touch, KeyExists, GoTo
<1>18. ASSUME NEW p \in Proc, Write(p)
      PROVE  Descriptors' /\ LockIffHolding'
  BY <1>18 DEF LockInv, TypeOK, Descriptors, LockIffHolding, WithFd, Holding, Write, GoTo
<1>19. ASSUME NEW p \in Proc, PWrite(p)
      PROVE  Descriptors' /\ LockIffHolding'
  BY <1>19 DEF LockInv, TypeOK, Descriptors, LockIffHolding, WithFd, Holding, PWrite, GoTo
<1>20. ASSUME NEW p \in Proc, Close(p)
      PROVE  Descriptors' /\ LockIffHolding'
  <2>1. PICK w \in {"idle", "open"}, n \in Id \cup {NoId}, x \in {0, items[p]} :
            /\ pc' = [pc EXCEPT ![p] = w]
            /\ id' = [id EXCEPT ![p] = n]
            /\ w = "open" => n \in Id
    BY <1>20, AfterLeave DEF Close, LockInv
  <2> QED
    BY <1>20, <2>1 DEF LockInv, TypeOK, Descriptors, LockIffHolding, WithFd, Holding, Close, CloseFd
<1>21. ASSUME NEW p \in Proc, Unlink(p)
      PROVE  Descriptors' /\ LockIffHolding'
  <2>1. PICK w \in {"idle", "open"}, n \in Id \cup {NoId}, x \in {0, items[p]} :
            /\ pc' = [pc EXCEPT ![p] = w]
            /\ id' = [id EXCEPT ![p] = n]
            /\ w = "open" => n \in Id
    BY <1>21, AfterLeave DEF Unlink, LockInv
  <2> QED
    BY <1>21, <2>1 DEF LockInv, TypeOK, Descriptors, LockIffHolding, WithFd, Holding, Unlink
<1>22. ASSUME NEW p \in Proc, Crash(p)
      PROVE  Descriptors' /\ LockIffHolding'
  BY <1>22
  DEF LockInv, TypeOK, Descriptors, LockIffHolding, WithFd, Holding, Crash, CloseFd, Forget,
      GoTo
<1>23. ASSUME NEW f \in Inode, Expire(f)
      PROVE  Descriptors' /\ LockIffHolding'
  BY <1>23 DEF LockInv, TypeOK, Descriptors, LockIffHolding, WithFd, Holding, Expire
<1>24. CASE UNCHANGED vars
  BY <1>24 DEF LockInv, TypeOK, Descriptors, LockIffHolding, WithFd, Holding, vars
<1> QED
  BY <1>1, <1>2, <1>3, <1>4, <1>5, <1>6, <1>7, <1>8, <1>9, <1>10,
     <1>11, <1>12, <1>13, <1>14, <1>15, <1>16, <1>17, <1>18, <1>19, <1>20, <1>21, <1>22, <1>23,
     <1>24
  DEF Next, Step, Script

\* Every action keeps names and open files with the session they belong to.
LEMMA OwnStep ==
    ASSUME LockInv, OneName, OwnFile, [Next]_vars
    PROVE  OneName' /\ OwnFile'
<1> USE SentinelsAreNew
<1>1. ASSUME NEW p \in Proc, NEW i \in Id \cup {NoId}, Start(p, i)
      PROVE  OneName' /\ OwnFile'
  BY <1>1
  DEF LockInv, TypeOK, Descriptors, OneName, OwnFile, WithFd, Holding, Start, Initialize,
      ChosenIds, NewIds, KeyExists, GoTo, files
<1>2. ASSUME NEW p \in Proc, Open(p)
      PROVE  OneName' /\ OwnFile'
  BY <1>2 DEF LockInv, TypeOK, Descriptors, OneName, OwnFile, WithFd, Holding, Open, KeyExists, GoTo
<1>3. ASSUME NEW p \in Proc, Lock(p)
      PROVE  OneName' /\ OwnFile'
  BY <1>3 DEF LockInv, TypeOK, Descriptors, OneName, OwnFile, WithFd, Holding, Lock, GoTo
<1>4. ASSUME NEW p \in Proc, Read(p)
      PROVE  OneName' /\ OwnFile'
  BY <1>4
  DEF LockInv, TypeOK, Descriptors, OneName, OwnFile, WithFd, Holding, Read, KeyExists, GoTo,
      files
<1>5. ASSUME NEW p \in Proc, GcStat(p)
      PROVE  OneName' /\ OwnFile'
  BY <1>5
  DEF LockInv, TypeOK, Descriptors, OneName, OwnFile, WithFd, Holding, GcStat, KeyExists,
      GoTo, files
<1>6. ASSUME NEW p \in Proc, GcUnlink(p)
      PROVE  OneName' /\ OwnFile'
  BY <1>6 DEF LockInv, TypeOK, Descriptors, OneName, OwnFile, WithFd, Holding, GcUnlink, GoTo
<1>7. ASSUME NEW p \in Proc, GcEnd(p)
      PROVE  OneName' /\ OwnFile'
  BY <1>7 DEF LockInv, TypeOK, Descriptors, OneName, OwnFile, WithFd, Holding, GcEnd, GoTo, files
<1>8. ASSUME NEW p \in Proc, Add(p)
      PROVE  OneName' /\ OwnFile'
  BY <1>8 DEF LockInv, TypeOK, Descriptors, OneName, OwnFile, WithFd, Holding, Add, Can, files
<1>9. ASSUME NEW p \in Proc, Unset(p)
      PROVE  OneName' /\ OwnFile'
  BY <1>9 DEF LockInv, TypeOK, Descriptors, OneName, OwnFile, WithFd, Holding, Unset, Can, files
<1>10. ASSUME NEW p \in Proc, SessionGc(p)
      PROVE  OneName' /\ OwnFile'
  BY <1>10
  DEF LockInv, TypeOK, Descriptors, OneName, OwnFile, WithFd, Holding, SessionGc, Can,
      KeyExists, GoTo, files
<1>11. ASSUME NEW p \in Proc, CreateId(p)
      PROVE  OneName' /\ OwnFile'
  BY <1>11 DEF LockInv, TypeOK, Descriptors, OneName, OwnFile, WithFd, Holding, CreateId, Can, files
<1>12. ASSUME NEW p \in Proc, Abort(p)
      PROVE  OneName' /\ OwnFile'
  BY <1>12
  DEF LockInv, TypeOK, Descriptors, OneName, OwnFile, WithFd, Holding, Abort, Can, GoTo,
      files
<1>13. ASSUME NEW p \in Proc, Reset(p)
      PROVE  OneName' /\ OwnFile'
  BY <1>13
  DEF LockInv, TypeOK, Descriptors, OneName, OwnFile, WithFd, Holding, Reset, Can, CloseFd,
      Initialize, ChosenIds, NewIds, KeyExists, GoTo
<1>14. ASSUME NEW p \in Proc, Destroy(p)
      PROVE  OneName' /\ OwnFile'
  BY <1>14
  DEF LockInv, TypeOK, Descriptors, OneName, OwnFile, WithFd, Holding, Destroy, Can, CloseFd,
      GoTo
<1>15. ASSUME NEW p \in Proc, Regenerate(p)
      PROVE  OneName' /\ OwnFile'
  BY <1>15
  DEF LockInv, TypeOK, Descriptors, OneName, OwnFile, WithFd, Holding, Regenerate, Can,
      CloseFd, GoTo
<1>16. ASSUME NEW p \in Proc, Flush(p)
      PROVE  OneName' /\ OwnFile'
  BY <1>16 DEF LockInv, TypeOK, Descriptors, OneName, OwnFile, WithFd, Holding, Flush, GoTo, files
<1>17. ASSUME NEW p \in Proc, Touch(p)
      PROVE  OneName' /\ OwnFile'
  BY <1>17
  DEF LockInv, TypeOK, Descriptors, OneName, OwnFile, WithFd, Holding, Touch, KeyExists,
      GoTo
<1>18. ASSUME NEW p \in Proc, Write(p)
      PROVE  OneName' /\ OwnFile'
  BY <1>18 DEF LockInv, TypeOK, Descriptors, OneName, OwnFile, WithFd, Holding, Write, GoTo
<1>19. ASSUME NEW p \in Proc, PWrite(p)
      PROVE  OneName' /\ OwnFile'
  BY <1>19 DEF LockInv, TypeOK, Descriptors, OneName, OwnFile, WithFd, Holding, PWrite, GoTo
<1>20. ASSUME NEW p \in Proc, Close(p)
      PROVE  OneName' /\ OwnFile'
  <2>1. PICK w \in {"idle", "open"}, n \in Id \cup {NoId}, x \in {0, items[p]} :
            /\ pc' = [pc EXCEPT ![p] = w]
            /\ id' = [id EXCEPT ![p] = n]
    BY <1>20, AfterLeave DEF Close, LockInv
  <2> QED
    BY <1>20, <2>1
    DEF LockInv, TypeOK, Descriptors, OneName, OwnFile, WithFd, Holding, Close, CloseFd
<1>21. ASSUME NEW p \in Proc, Unlink(p)
      PROVE  OneName' /\ OwnFile'
  <2>1. PICK w \in {"idle", "open"}, n \in Id \cup {NoId}, x \in {0, items[p]} :
            /\ pc' = [pc EXCEPT ![p] = w]
            /\ id' = [id EXCEPT ![p] = n]
    BY <1>21, AfterLeave DEF Unlink, LockInv
  <2> QED
    BY <1>21, <2>1 DEF LockInv, TypeOK, Descriptors, OneName, OwnFile, WithFd, Holding, Unlink
<1>22. ASSUME NEW p \in Proc, Crash(p)
      PROVE  OneName' /\ OwnFile'
  BY <1>22
  DEF LockInv, TypeOK, Descriptors, OneName, OwnFile, WithFd, Holding, Crash, CloseFd,
      Forget, GoTo
<1>23. ASSUME NEW f \in Inode, Expire(f)
      PROVE  OneName' /\ OwnFile'
  BY <1>23 DEF LockInv, TypeOK, Descriptors, OneName, OwnFile, WithFd, Holding, Expire
<1>24. CASE UNCHANGED vars
  BY <1>24 DEF LockInv, TypeOK, Descriptors, OneName, OwnFile, WithFd, Holding, vars
<1> QED
  BY <1>1, <1>2, <1>3, <1>4, <1>5, <1>6, <1>7, <1>8, <1>9, <1>10,
     <1>11, <1>12, <1>13, <1>14, <1>15, <1>16, <1>17, <1>18, <1>19, <1>20, <1>21, <1>22, <1>23,
     <1>24
  DEF Next, Step, Script

\* Every action keeps the content whole and what was read of it current.
LEMMA DataStep ==
    ASSUME LockInv, DataInv, [Next]_vars
    PROVE  DataInv'
<1> USE SentinelsAreNew, MaxItemsAssumption
<1>1. ASSUME NEW p \in Proc, NEW i \in Id \cup {NoId}, Start(p, i)
      PROVE  DataInv'
  BY <1>1
  DEF LockInv, TypeOK, Descriptors, DataInv, SeesLatest, Whole, NeverTorn, Torn, WithFd,
      Holding, Start, Initialize, ChosenIds, NewIds, KeyExists, GoTo, files
<1>2. ASSUME NEW p \in Proc, Open(p)
      PROVE  DataInv'
  BY <1>2
  DEF LockInv, TypeOK, Descriptors, DataInv, SeesLatest, Whole, NeverTorn, Torn, WithFd,
      Holding, Open, KeyExists, GoTo
<1>3. ASSUME NEW p \in Proc, Lock(p)
      PROVE  DataInv'
  BY <1>3
  DEF LockInv, TypeOK, Descriptors, DataInv, SeesLatest, Whole, NeverTorn, Torn, WithFd,
      Holding, LockIffHolding, Lock, GoTo
<1>4. ASSUME NEW p \in Proc, Read(p)
      PROVE  DataInv'
  BY <1>4
  DEF LockInv, TypeOK, Descriptors, DataInv, SeesLatest, Whole, NeverTorn, Torn, WithFd,
      Holding, Read, KeyExists, GoTo, files
<1>5. ASSUME NEW p \in Proc, GcStat(p)
      PROVE  DataInv'
  BY <1>5
  DEF LockInv, TypeOK, Descriptors, DataInv, SeesLatest, Whole, NeverTorn, Torn, WithFd,
      Holding, GcStat, KeyExists, GoTo, files
<1>6. ASSUME NEW p \in Proc, GcUnlink(p)
      PROVE  DataInv'
  BY <1>6
  DEF LockInv, TypeOK, Descriptors, DataInv, SeesLatest, Whole, NeverTorn, Torn, WithFd,
      Holding, GcUnlink, GoTo
<1>7. ASSUME NEW p \in Proc, GcEnd(p)
      PROVE  DataInv'
  BY <1>7
  DEF LockInv, TypeOK, Descriptors, DataInv, SeesLatest, Whole, NeverTorn, Torn, WithFd,
      Holding, GcEnd, GoTo, files
<1>8. ASSUME NEW p \in Proc, Add(p)
      PROVE  DataInv'
  BY <1>8
  DEF LockInv, TypeOK, Descriptors, DataInv, SeesLatest, Whole, NeverTorn, Torn, WithFd,
      Holding, Add, Can, files
<1>9. ASSUME NEW p \in Proc, Unset(p)
      PROVE  DataInv'
  BY <1>9
  DEF LockInv, TypeOK, Descriptors, DataInv, SeesLatest, Whole, NeverTorn, Torn, WithFd,
      Holding, Unset, Can, files
<1>10. ASSUME NEW p \in Proc, SessionGc(p)
      PROVE  DataInv'
  BY <1>10
  DEF LockInv, TypeOK, Descriptors, DataInv, SeesLatest, Whole, NeverTorn, Torn, WithFd,
      Holding, SessionGc, Can, KeyExists, GoTo, files
<1>11. ASSUME NEW p \in Proc, CreateId(p)
      PROVE  DataInv'
  BY <1>11
  DEF LockInv, TypeOK, Descriptors, DataInv, SeesLatest, Whole, NeverTorn, Torn, WithFd,
      Holding, CreateId, Can, files
<1>12. ASSUME NEW p \in Proc, Abort(p)
      PROVE  DataInv'
  BY <1>12
  DEF LockInv, TypeOK, Descriptors, DataInv, SeesLatest, Whole, NeverTorn, Torn, WithFd,
      Holding, Abort, Can, GoTo, files
<1>13. ASSUME NEW p \in Proc, Reset(p)
      PROVE  DataInv'
  BY <1>13
  DEF LockInv, TypeOK, Descriptors, DataInv, SeesLatest, Whole, NeverTorn, Torn, WithFd,
      Holding, Reset, Can, CloseFd, Initialize, ChosenIds, NewIds, KeyExists, GoTo
<1>14. ASSUME NEW p \in Proc, Destroy(p)
      PROVE  DataInv'
  BY <1>14
  DEF LockInv, TypeOK, Descriptors, DataInv, SeesLatest, Whole, NeverTorn, Torn, WithFd,
      Holding, Destroy, Can, CloseFd, GoTo
<1>15. ASSUME NEW p \in Proc, Regenerate(p)
      PROVE  DataInv'
  BY <1>15
  DEF LockInv, TypeOK, Descriptors, DataInv, SeesLatest, Whole, NeverTorn, Torn, WithFd,
      Holding, Regenerate, Can, CloseFd, GoTo
<1>16. ASSUME NEW p \in Proc, Flush(p)
      PROVE  DataInv'
  BY <1>16
  DEF LockInv, TypeOK, Descriptors, DataInv, SeesLatest, Whole, NeverTorn, Torn, WithFd,
      Holding, Flush, GoTo, files
<1>17. ASSUME NEW p \in Proc, Touch(p)
      PROVE  DataInv'
  BY <1>17
  DEF LockInv, TypeOK, Descriptors, DataInv, SeesLatest, Whole, NeverTorn, Torn, WithFd,
      Holding, Touch, KeyExists, GoTo
<1>18. ASSUME NEW p \in Proc, Write(p)
      PROVE  DataInv'
  BY <1>18
  DEF LockInv, TypeOK, Descriptors, DataInv, SeesLatest, Whole, NeverTorn, Torn, WithFd,
      Holding, LockIffHolding, Write, GoTo
<1>19. ASSUME NEW p \in Proc, PWrite(p)
      PROVE  DataInv'
  BY <1>19
  DEF LockInv, TypeOK, Descriptors, DataInv, SeesLatest, Whole, NeverTorn, Torn, WithFd,
      Holding, LockIffHolding, PWrite, GoTo
<1>20. ASSUME NEW p \in Proc, Close(p)
      PROVE  DataInv'
  <2>1. PICK w \in {"idle", "open"}, n \in Id \cup {NoId}, x \in {0, items[p]} :
            /\ pc' = [pc EXCEPT ![p] = w]
            /\ items' = [items EXCEPT ![p] = x]
            /\ size' = [size EXCEPT ![p] = 0]
    BY <1>20, AfterLeave DEF Close, LockInv
  <2> QED
    BY <1>20, <2>1
    DEF LockInv, TypeOK, Descriptors, DataInv, SeesLatest, Whole, NeverTorn, Torn, WithFd,
        Holding, Close, CloseFd
<1>21. ASSUME NEW p \in Proc, Unlink(p)
      PROVE  DataInv'
  <2>1. PICK w \in {"idle", "open"}, n \in Id \cup {NoId}, x \in {0, items[p]} :
            /\ pc' = [pc EXCEPT ![p] = w]
            /\ items' = [items EXCEPT ![p] = x]
            /\ size' = [size EXCEPT ![p] = 0]
    BY <1>21, AfterLeave DEF Unlink, LockInv
  <2> QED
    BY <1>21, <2>1
    DEF LockInv, TypeOK, Descriptors, DataInv, SeesLatest, Whole, NeverTorn, Torn, WithFd,
        Holding, Unlink
<1>22. ASSUME NEW p \in Proc, Crash(p)
      PROVE  DataInv'
  BY <1>22
  DEF LockInv, TypeOK, Descriptors, DataInv, SeesLatest, Whole, NeverTorn, Torn, WithFd,
      Holding, Crash, CloseFd, Forget, GoTo
<1>23. ASSUME NEW f \in Inode, Expire(f)
      PROVE  DataInv'
  BY <1>23
  DEF LockInv, TypeOK, Descriptors, DataInv, SeesLatest, Whole, NeverTorn, Torn, WithFd,
      Holding, Expire
<1>24. CASE UNCHANGED vars
  BY <1>24
  DEF LockInv, TypeOK, Descriptors, DataInv, SeesLatest, Whole, NeverTorn, Torn, WithFd,
      Holding, vars
<1> QED
  BY <1>1, <1>2, <1>3, <1>4, <1>5, <1>6, <1>7, <1>8, <1>9, <1>10,
     <1>11, <1>12, <1>13, <1>14, <1>15, <1>16, <1>17, <1>18, <1>19, <1>20, <1>21, <1>22, <1>23,
     <1>24
  DEF Next, Step, Script

-----------------------------------------------------------------------------
\* The locking protocol of ps_files_open and ps_files_close, through every
\* operation of the session module and every death of a process.
THEOREM LocksFollowSessions == Spec => []LockIffHolding
<1>1. Init => LockInv
  BY SentinelsAreNew, MaxItemsAssumption
  DEF Init, LockInv, TypeOK, Descriptors, LockIffHolding, WithFd, Holding, PCs, NoVars
<1>2. LockInv /\ [Next]_vars => LockInv'
  BY TypeStep, LockStep DEF LockInv
<1>3. LockInv => LockIffHolding
  BY DEF LockInv
<1> QED
  BY <1>1, <1>2, <1>3, PTL DEF Spec

\* Every variable keeps its type: a descriptor is one of a file that exists, and what
\* a process holds in $_SESSION fits the bound.
THEOREM TypeCorrect == Spec => []TypeOK
<1>1. Init => LockInv
  BY SentinelsAreNew, MaxItemsAssumption
  DEF Init, LockInv, TypeOK, Descriptors, LockIffHolding, WithFd, Holding, PCs, NoVars
<1>2. LockInv /\ [Next]_vars => LockInv'
  BY TypeStep, LockStep DEF LockInv
<1>3. LockInv => TypeOK
  BY DEF LockInv
<1> QED
  BY <1>1, <1>2, <1>3, PTL DEF Spec

\* Locks and content together
LEMMA DataInvariant == Spec => [](LockInv /\ DataInv)
<1>1. Init => LockInv /\ DataInv
  BY SentinelsAreNew, MaxItemsAssumption
  DEF Init, LockInv, TypeOK, Descriptors, LockIffHolding, WithFd, Holding, PCs, NoVars,
      DataInv, SeesLatest, Whole, NeverTorn, Torn
<1>2. LockInv /\ DataInv /\ [Next]_vars => (LockInv /\ DataInv)'
  BY TypeStep, LockStep, DataStep DEF LockInv
<1> QED
  BY <1>1, <1>2, PTL DEF Spec

\* A process that has read its session works on the content that the file has
\* until it writes: flock() excludes every other request of the session.
THEOREM NoLostUpdate == Spec => []SeesLatest
<1>1. DataInv => SeesLatest
  BY DEF DataInv
<1> QED
  BY <1>1, DataInvariant, PTL

\* The size that ps_files_write goes by when it decides whether to truncate is
\* the size of the file, so no content is a mixture of two writes.
THEOREM ContentIsWhole == Spec => []NeverTorn
<1>1. DataInv => NeverTorn
  BY DEF DataInv, Whole
<1> QED
  BY <1>1, DataInvariant, PTL

\* No process has the file of another session open: session_regenerate_id and
\* session_start never leave PS(id) and ps_files.fd apart.
THEOREM FilesMatchIds == Spec => []OwnFile
<1>1. Init => LockInv /\ OneName /\ OwnFile
  BY SentinelsAreNew, MaxItemsAssumption
  DEF Init, LockInv, TypeOK, Descriptors, LockIffHolding, WithFd, Holding, PCs, NoVars,
      OneName, OwnFile
<1>2. (LockInv /\ OneName /\ OwnFile) /\ [Next]_vars => (LockInv /\ OneName /\ OwnFile)'
  BY TypeStep, LockStep, OwnStep DEF LockInv
<1> QED
  BY <1>1, <1>2, PTL DEF Spec

=============================================================================
