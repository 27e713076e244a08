------------------------------ MODULE SessionFiles ------------------------------
(***************************************************************************)
(* Sessions kept in files (ext/session/mod_files.c) as the session module  *)
(* (ext/session/session.c) drives them, in several PHP processes that work *)
(* on one session.save_path.                                               *)
(*                                                                         *)
(* A session id names a directory entry, the entry leads to an inode, and  *)
(* the inode carries the data, the time stamp and the flock() that         *)
(* serialises the requests of one session.  Entry and inode part as soon   *)
(* as somebody unlinks the entry while others have the inode open: that is *)
(* where the interesting interleavings are, so every system call on them   *)
(* is a step of its own.                                                   *)
(*                                                                         *)
(* The data is a number: how many items $_SESSION holds.  Its encoding is  *)
(* as long as the number is large, which is all that ps_files_write looks  *)
(* at.  session.lazy_write is on and session.serialize_handler is "php",   *)
(* the defaults.                                                           *)
(***************************************************************************)
EXTENDS Integers, FiniteSets

CONSTANTS
    Proc,       \* PHP processes
    Id,         \* session ids
    NoId,       \* no id: PS(id) is NULL
    Inode,      \* inodes of the file system
    NoFile,     \* no inode: the entry does not exist, or fd is -1
    NoProc,     \* nobody holds the lock
    MaxItems,   \* bound on the items of a session
    Strict,     \* session.use_strict_mode
    Ops         \* what the scripts do, besides session_start and the end

AllOps == {"add", "unset", "abort", "destroy", "reset", "regenerate", "gc", "create_id"}

ASSUME SentinelsAreNew == NoId \notin Id /\ NoFile \notin Inode /\ NoProc \notin Proc
ASSUME MaxItemsAssumption == MaxItems \in Nat
ASSUME ModesAssumption == Strict \in BOOLEAN /\ Ops \subseteq AllOps

VARIABLES
    dir,        \* the directory: the inode of each id
    data,       \* what an inode contains
    old,        \* its time stamp is further back than session.gc_maxlifetime
    lock,       \* the process that has flock()ed the inode
    pc,         \* where a process is
    id,         \* PS(id)
    minted,     \* in strict mode: PS(id) was created here, not sent by the client
    fd,         \* ps_files.fd, as the inode it is open on
    size,       \* ps_files.st_size
    items,      \* $_SESSION
    orig,       \* PS(session_vars), what was read; NoVars when NULL
    renew,      \* inside session_regenerate_id
    todo,       \* the entries that the collection of a process has yet to visit
    victim,     \* the entry that it has found to be expired
    newId       \* the string that session_create_id returns

files == <<dir, data, old, lock>>
vars == <<dir, data, old, lock, pc, id, minted, fd, size, items, orig, renew, todo, victim, newId>>

NoVars == -1
Torn == -1      \* content of which a part is from an earlier, longer write

Holding == {"read", "gc", "gcUnlink", "active", "touch", "write", "pwrite", "close"}
PCs == Holding \cup {"idle", "open", "lock", "unlink"}

TypeOK ==
    /\ dir \in [Id -> Inode \cup {NoFile}]
    /\ data \in [Inode -> 0..MaxItems \cup {Torn}]
    /\ old \in [Inode -> BOOLEAN]
    /\ lock \in [Inode -> Proc \cup {NoProc}]
    /\ pc \in [Proc -> PCs]
    /\ id \in [Proc -> Id \cup {NoId}]
    /\ minted \in [Proc -> BOOLEAN]
    /\ fd \in [Proc -> Inode \cup {NoFile}]
    /\ size \in [Proc -> 0..MaxItems \cup {Torn}]
    /\ items \in [Proc -> 0..MaxItems \cup {Torn}]
    /\ orig \in [Proc -> 0..MaxItems \cup {NoVars}]
    /\ renew \in [Proc -> BOOLEAN]
    /\ todo \in [Proc -> SUBSET Id]
    /\ victim \in [Proc -> Id \cup {NoId}]
    /\ newId \in [Proc -> {"none", "live", "released"}]

\* An empty directory, and no request has a session yet.
Init ==
    /\ dir = [i \in Id |-> NoFile]
    /\ data = [f \in Inode |-> 0]
    /\ old = [f \in Inode |-> FALSE]
    /\ lock = [f \in Inode |-> NoProc]
    /\ pc = [p \in Proc |-> "idle"]
    /\ id = [p \in Proc |-> NoId]
    /\ minted = [p \in Proc |-> FALSE]
    /\ fd = [p \in Proc |-> NoFile]
    /\ size = [p \in Proc |-> 0]
    /\ items = [p \in Proc |-> 0]
    /\ orig = [p \in Proc |-> NoVars]
    /\ renew = [p \in Proc |-> FALSE]
    /\ todo = [p \in Proc |-> {}]
    /\ victim = [p \in Proc |-> NoId]
    /\ newId = [p \in Proc |-> "none"]

-----------------------------------------------------------------------------
(* Helpers *)

GoTo(p, where) == pc' = [pc EXCEPT ![p] = where]

\* ps_files_key_exists
KeyExists(i) == dir[i] # NoFile

\* close(2): the lock goes with the descriptor.  It is the only one, since the
\* file is opened with FD_CLOEXEC and a worker does not fork.
CloseFd(p) ==
    /\ lock' = [f \in Inode |-> IF lock[f] = p THEN NoProc ELSE lock[f]]
    /\ fd' = [fd EXCEPT ![p] = NoFile]

\* s_create_sid: a random id for which no file exists.  Random ids do not
\* repeat, so it is none that another process is using either.  NoId after
\* four collisions in a row.
NewIds ==
    LET fresh == {i \in Id : ~KeyExists(i) /\ \A q \in Proc : id[q] # i}
    IN  IF fresh = {} THEN {NoId} ELSE fresh

\* The id that php_session_initialize goes on with when it has been given i.
\* In strict mode an id without a file is replaced, and if no new one can be
\* created by one that nobody has checked.
ChosenIds(i) ==
    IF i = NoId THEN NewIds
    ELSE IF Strict /\ ~KeyExists(i) THEN IF NewIds = {NoId} THEN Id ELSE NewIds
    ELSE {i}

\* The session of p is over (php_session_none) and its data forgotten.
Forget(p) ==
    /\ GoTo(p, "idle")
    /\ id' = [id EXCEPT ![p] = NoId]
    /\ minted' = [minted EXCEPT ![p] = FALSE]
    /\ size' = [size EXCEPT ![p] = 0]
    /\ items' = [items EXCEPT ![p] = 0]
    /\ orig' = [orig EXCEPT ![p] = NoVars]
    /\ renew' = [renew EXCEPT ![p] = FALSE]
    /\ todo' = [todo EXCEPT ![p] = {}]
    /\ victim' = [victim EXCEPT ![p] = NoId]
    /\ newId' = [newId EXCEPT ![p] = "none"]

\* php_session_initialize up to the reading, with the id i of the request: s_open
\* sets up a ps_files with st_size 0, and php_session_track_init empties $_SESSION
Initialize(p, i) ==
    \E n \in ChosenIds(i) :
        /\ id' = [id EXCEPT ![p] = n]
        /\ minted' = [minted EXCEPT ![p] = Strict /\ (i = NoId \/ ~KeyExists(i))]
        /\ size' = [size EXCEPT ![p] = 0]
        /\ items' = [items EXCEPT ![p] = 0]
        /\ GoTo(p, IF n = NoId THEN "idle" ELSE "open")

-----------------------------------------------------------------------------
(* Starting a session *)

\* php_session_start, with the id that the client sent or with none
Start(p, i) ==
    /\ pc[p] = "idle"
    /\ Initialize(p, i)
    /\ UNCHANGED <<files, fd, orig, renew, todo, victim, newId>>

\* open(2) in ps_files_open, which creates the file if there is none
Open(p) ==
    /\ pc[p] = "open"
    /\ \/ /\ KeyExists(id[p])
          /\ fd' = [fd EXCEPT ![p] = dir[id[p]]]
          /\ UNCHANGED <<dir, data, old>>
       \/ /\ ~KeyExists(id[p])
          /\ \E f \in Inode :
                /\ \A i \in Id : dir[i] # f
                /\ \A q \in Proc : fd[q] # f
                /\ dir' = [dir EXCEPT ![id[p]] = f]
                /\ data' = [data EXCEPT ![f] = 0]
                /\ old' = [old EXCEPT ![f] = FALSE]
                /\ fd' = [fd EXCEPT ![p] = f]
    /\ GoTo(p, "lock")
    /\ UNCHANGED <<lock, id, minted, size, items, orig, renew, todo, victim, newId>>

\* flock(2) in ps_files_open
Lock(p) ==
    /\ pc[p] = "lock"
    /\ lock[fd[p]] = NoProc
    /\ lock' = [lock EXCEPT ![fd[p]] = p]
    /\ GoTo(p, "read")
    /\ UNCHANGED <<dir, data, old, id, minted, fd, size, items, orig, renew, todo, victim, newId>>

Read_sizeKept(p) ==
    /\ pc[p] = "read"
    /\ size' = [size EXCEPT ![p] = IF renew[p] THEN size[p] ELSE data[fd[p]]]
    /\ items' = [items EXCEPT ![p] = IF renew[p] THEN items[p] ELSE data[fd[p]]]
    /\ orig' = [orig EXCEPT ![p] = IF renew[p] THEN NoVars ELSE data[fd[p]]]
    /\ renew' = [renew EXCEPT ![p] = FALSE]
    /\ \/ /\ GoTo(p, "active")
          /\ UNCHANGED todo
       \/ /\ ~renew[p] /\ "gc" \in Ops
          /\ todo' = [todo EXCEPT ![p] = {i \in Id : KeyExists(i)}]
          /\ GoTo(p, "gc")
    /\ UNCHANGED <<files, id, minted, fd, victim, newId>>

\* PS_READ_FUNC(files) and what follows it.  session_start decodes the data,
\* remembers it for lazy_write and collects garbage with some probability;
\* session_regenerate_id drops what it has read and keeps $_SESSION.
Read(p) ==
    /\ pc[p] = "read"
    /\ size' = [size EXCEPT ![p] = data[fd[p]]]
    /\ items' = [items EXCEPT ![p] = IF renew[p] THEN items[p] ELSE data[fd[p]]]
    /\ orig' = [orig EXCEPT ![p] = IF renew[p] THEN NoVars ELSE data[fd[p]]]
    /\ renew' = [renew EXCEPT ![p] = FALSE]
    /\ \/ /\ GoTo(p, "active")
          /\ UNCHANGED todo
       \/ /\ ~renew[p] /\ "gc" \in Ops
          /\ todo' = [todo EXCEPT ![p] = {i \in Id : KeyExists(i)}]
          /\ GoTo(p, "gc")
    /\ UNCHANGED <<files, id, minted, fd, victim, newId>>

-----------------------------------------------------------------------------
(* Collecting expired files *)

\* stat(2) on the next entry in ps_files_cleanup_dir
GcStat(p) ==
    /\ pc[p] = "gc"
    /\ \E i \in todo[p] :
        /\ todo' = [todo EXCEPT ![p] = todo[p] \ {i}]
        /\ \/ /\ KeyExists(i) /\ old[dir[i]]
              /\ victim' = [victim EXCEPT ![p] = i]
              /\ GoTo(p, "gcUnlink")
           \/ /\ ~(KeyExists(i) /\ old[dir[i]])
              /\ UNCHANGED <<victim, pc>>
    /\ UNCHANGED <<files, id, minted, fd, size, items, orig, renew, newId>>

\* unlink(2) of that entry, whatever file it leads to by now
GcUnlink(p) ==
    /\ pc[p] = "gcUnlink"
    /\ dir' = [dir EXCEPT ![victim[p]] = NoFile]
    /\ victim' = [victim EXCEPT ![p] = NoId]
    /\ GoTo(p, "gc")
    /\ UNCHANGED <<data, old, lock, id, minted, fd, size, items, orig, renew, todo, newId>>

\* The directory has been read to its end.
GcEnd(p) ==
    /\ pc[p] = "gc"
    /\ todo[p] = {}
    /\ GoTo(p, "active")
    /\ UNCHANGED <<files, id, minted, fd, size, items, orig, renew, todo, victim, newId>>

-----------------------------------------------------------------------------
(* What a script does while it has the session *)

Can(p, op) == pc[p] = "active" /\ op \in Ops

\* $_SESSION grows
Add(p) ==
    /\ Can(p, "add")
    /\ items[p] < MaxItems
    /\ items' = [items EXCEPT ![p] = items[p] + 1]
    /\ UNCHANGED <<files, pc, id, minted, fd, size, orig, renew, todo, victim, newId>>

\* session_unset
Unset(p) ==
    /\ Can(p, "unset")
    /\ items' = [items EXCEPT ![p] = 0]
    /\ UNCHANGED <<files, pc, id, minted, fd, size, orig, renew, todo, victim, newId>>

\* session_gc
SessionGc(p) ==
    /\ Can(p, "gc")
    /\ todo' = [todo EXCEPT ![p] = {i \in Id : KeyExists(i)}]
    /\ GoTo(p, "gc")
    /\ UNCHANGED <<files, id, minted, fd, size, items, orig, renew, victim, newId>>

\* session_create_id: an id that s_validate_sid does not find is released, and
\* the third one that was released is returned.
CreateId(p) ==
    /\ Can(p, "create_id")
    /\ \E n \in NewIds \ {NoId} :
        newId' = [newId EXCEPT ![p] = IF KeyExists(n) THEN "live" ELSE "released"]
    /\ UNCHANGED <<files, pc, id, minted, fd, size, items, orig, renew, todo, victim>>

\* session_abort, and session_start with read_and_close
Abort(p) ==
    /\ Can(p, "abort")
    /\ GoTo(p, "close")
    /\ UNCHANGED <<files, id, minted, fd, size, items, orig, renew, todo, victim, newId>>

Reset_keeps(p) ==
    /\ Can(p, "reset")
    /\ Initialize(p, id[p])
    /\ UNCHANGED <<files, fd, orig, renew, todo, victim, newId>>

\* session_reset: s_open closes the file and the session is initialized again
Reset(p) ==
    /\ Can(p, "reset")
    /\ CloseFd(p)
    /\ Initialize(p, id[p])
    /\ UNCHANGED <<dir, data, old, orig, renew, todo, victim, newId>>

\* session_destroy: PS_DESTROY_FUNC(files) closes the file before it unlinks it
Destroy(p) ==
    /\ Can(p, "destroy")
    /\ CloseFd(p)
    /\ GoTo(p, "unlink")
    /\ UNCHANGED <<dir, data, old, id, minted, size, items, orig, renew, todo, victim, newId>>

\* session_regenerate_id: the old session is destroyed or written first
Regenerate(p) ==
    /\ Can(p, "regenerate")
    /\ renew' = [renew EXCEPT ![p] = TRUE]
    /\ \/ /\ CloseFd(p)
          /\ GoTo(p, "unlink")
       \/ /\ GoTo(p, "write")
          /\ UNCHANGED <<lock, fd>>
    /\ UNCHANGED <<dir, data, old, id, minted, size, items, orig, todo, victim, newId>>

\* session_write_close, or the end of the request.  What is as it was read is
\* not written again, unless it is empty: then php_session_encode returns NULL.
Flush(p) ==
    /\ pc[p] = "active"
    /\ GoTo(p, IF items[p] = orig[p] /\ items[p] # 0 THEN "touch" ELSE "write")
    /\ UNCHANGED <<files, id, minted, fd, size, items, orig, renew, todo, victim, newId>>

-----------------------------------------------------------------------------
(* Writing, closing, unlinking *)

\* After the old session has been left, session_regenerate_id goes on under a
\* new id, or ends the session if it gets none.
Continue(p) ==
    \E n \in NewIds :
        IF n = NoId
        THEN Forget(p)
        ELSE /\ id' = [id EXCEPT ![p] = n]
             /\ minted' = [minted EXCEPT ![p] = Strict]
             /\ orig' = [orig EXCEPT ![p] = NoVars]
             /\ size' = [size EXCEPT ![p] = 0]
             /\ GoTo(p, "open")
             /\ UNCHANGED <<items, renew, todo, victim, newId>>

\* s_close has closed the file: the session is over, or it continues.
Leave(p) == IF renew[p] THEN Continue(p) ELSE Forget(p)

\* PS_UPDATE_TIMESTAMP_FUNC(files): utime(2) by name, and if there is no such
\* file the data is written after all.
Touch(p) ==
    /\ pc[p] = "touch"
    /\ \/ /\ KeyExists(id[p])
          /\ old' = [old EXCEPT ![dir[id[p]]] = FALSE]
          /\ GoTo(p, "close")
       \/ /\ ~KeyExists(id[p])
          /\ GoTo(p, "write")
          /\ UNCHANGED old
    /\ UNCHANGED <<dir, data, lock, id, minted, fd, size, items, orig, renew, todo, victim, newId>>

Write_never(p) ==
    /\ pc[p] = "write"
    /\ GoTo(p, "pwrite")
    /\ UNCHANGED <<files, id, minted, fd, size, items, orig, renew, todo, victim, newId>>

\* ps_files_write: the file, still open under this key, is truncated if the new
\* data is shorter than what was read
Write(p) ==
    /\ pc[p] = "write"
    /\ data' = [data EXCEPT ![fd[p]] = IF items[p] < size[p] THEN 0 ELSE data[fd[p]]]
    /\ GoTo(p, "pwrite")
    /\ UNCHANGED <<dir, old, lock, id, minted, fd, size, items, orig, renew, todo, victim, newId>>

\* pwrite(2) in ps_files_write, at offset 0: longer content keeps its end
PWrite(p) ==
    /\ pc[p] = "pwrite"
    /\ data' = [data EXCEPT ![fd[p]] = IF items[p] < data[fd[p]] THEN Torn ELSE items[p]]
    /\ old' = [old EXCEPT ![fd[p]] = FALSE]
    /\ GoTo(p, "close")
    /\ UNCHANGED <<dir, lock, id, minted, fd, size, items, orig, renew, todo, victim, newId>>

Close_renames(p) ==
    /\ pc[p] = "close"
    /\ IF renew[p] /\ NewIds # {NoId}
       THEN /\ id' = [id EXCEPT ![p] = CHOOSE i \in NewIds : TRUE]
            /\ renew' = [renew EXCEPT ![p] = FALSE]
            /\ GoTo(p, "active")
            /\ UNCHANGED <<files, minted, fd, size, items, orig, todo, victim, newId>>
       ELSE CloseFd(p) /\ Forget(p) /\ UNCHANGED <<dir, data, old>>

\* PS_CLOSE_FUNC(files)
Close(p) ==
    /\ pc[p] = "close"
    /\ CloseFd(p)
    /\ Leave(p)
    /\ UNCHANGED <<dir, data, old>>

\* unlink(2) in PS_DESTROY_FUNC(files), of whatever file the entry leads to by
\* now.  A missing entry is no failure.
Unlink(p) ==
    /\ pc[p] = "unlink"
    /\ dir' = [dir EXCEPT ![id[p]] = NoFile]
    /\ Leave(p)
    /\ UNCHANGED <<data, old, lock, fd>>

-----------------------------------------------------------------------------
(* The environment *)

\* A process dies, killed by the process manager or by the kernel: its
\* descriptors are closed.
Crash(p) ==
    /\ pc[p] # "idle"
    /\ CloseFd(p)
    /\ Forget(p)
    /\ UNCHANGED <<dir, data, old>>

\* More than session.gc_maxlifetime passes without a write to a file.  A
\* collection, which takes the time once, is short in comparison.
Expire(f) ==
    /\ \E i \in Id : dir[i] = f
    /\ ~old[f]
    /\ \A p \in Proc : pc[p] \notin {"gc", "gcUnlink"}
    /\ old' = [old EXCEPT ![f] = TRUE]
    /\ UNCHANGED <<dir, data, lock, pc, id, minted, fd, size, items, orig, renew, todo, victim, newId>>

\* One system call of p after the other
Step(p) ==
    \/ Open(p) \/ Read(p)
    \/ GcStat(p) \/ GcUnlink(p) \/ GcEnd(p)
    \/ Touch(p) \/ Write(p) \/ PWrite(p) \/ Close(p) \/ Unlink(p)

Script(p) ==
    \/ Add(p) \/ Unset(p) \/ SessionGc(p) \/ CreateId(p)
    \/ Abort(p) \/ Reset(p) \/ Destroy(p) \/ Regenerate(p)

Next ==
    \/ \E p \in Proc :
        \/ \E i \in Id \cup {NoId} : Start(p, i)
        \/ Lock(p)
        \/ Step(p)
        \/ Script(p)
        \/ Flush(p)
        \/ Crash(p)
    \/ \E f \in Inode : Expire(f)

Spec == Init /\ [][Next]_vars

\* A process that can take its next system call takes it.  flock() queues its
\* waiters, so a lock that keeps being released is obtained in the end.  Every
\* script ends, by itself or through max_execution_time, and its end flushes
\* the session whatever the script did before.
Fairness ==
    \A p \in Proc :
        /\ WF_vars(Step(p))
        /\ SF_vars(Lock(p))
        /\ SF_vars(Flush(p))

FairSpec == Spec /\ Fairness

-----------------------------------------------------------------------------
(* Properties *)

\* A process that holds a session works on the content that the file still
\* has: from PS_READ_FUNC to ps_files_write nobody else has written to the
\* inode, so that no update among the requests of a session is lost, although
\* sessions are destroyed, regenerated, reset, collected and processes die.
SeesLatest ==
    \A p \in Proc : pc[p] \in Holding \ {"read", "pwrite", "close"} => data[fd[p]] = size[p]

\* What a file contains is what one ps_files_write has put there: the
\* truncation, which goes by the size seen when the session was read, is never
\* left out when a shorter content replaces a longer one.
NeverTorn == \A f \in Inode : data[f] # Torn

\* The lock of an inode is held by p exactly if p has the file of its session
\* open and is past flock().  A process that waits in flock() therefore holds
\* no other session: s_open, session_regenerate_id and session_destroy close
\* the old file before the new one is opened.
LockIffHolding ==
    \A p \in Proc, f \in Inode : lock[f] = p <=> (pc[p] \in Holding /\ fd[p] = f)

\* The file a process has open is the one of PS(id) or none that can be reached
\* by name: data is never written into the file of another session, although
\* session_regenerate_id changes PS(id) in the middle of a request.
OwnFile ==
    \A p \in Proc, i \in Id : (fd[p] # NoFile /\ dir[i] = fd[p]) => i = id[p]

\* Every session_start, session_reset and session_regenerate_id that waits in
\* flock() of ps_files_open gets the session, unless the process is killed.
StartCompletes ==
    \A p \in Proc : pc[p] = "lock" ~> pc[p] \in {"active", "idle"}

\* The comment above PS_UPDATE_TIMESTAMP_FUNC(files): the time stamp protects a
\* file from the collection, that is, what is unlinked by ps_files_cleanup_dir
\* has expired.
OnlyExpiredPurged ==
    [][\A p \in Proc :
        (pc[p] = "gcUnlink" /\ pc'[p] = "gc" /\ KeyExists(victim[p])) => old[dir[victim[p]]]]_vars

\* The comment in PS_UPDATE_TIMESTAMP_FUNC(files): when the file is missing the
\* write creates it, so that there is a file afterwards.
TouchCreates ==
    [][\A p \in Proc :
        (pc[p] = "pwrite" /\ pc'[p] = "close" /\ items[p] = orig[p] /\ items[p] # 0)
            => KeyExists(id[p])]_vars

\* The comment in php_session_start: in strict mode no file is created for an
\* id that this process has not created itself.
NoAdoption ==
    [][\A p \in Proc :
        (Strict /\ pc[p] = "open" /\ ~KeyExists(id[p]) /\ pc'[p] = "lock") => minted[p]]_vars

\* The comment in session_create_id: ids that collide are dropped and others
\* tried, so that the string that is returned has not been released.
IdUsable == \A p \in Proc : newId[p] # "released"

=============================================================================
