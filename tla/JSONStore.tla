------------------------------ MODULE JSONStore ------------------------------
(***************************************************************************)
(* store.JSONStore: one file per record, guarded by one sync.RWMutex.      *)
(*                                                                         *)
(* Each file operation of Save, Get, Delete and GetAll is a step.  Save    *)
(* ends in os.WriteFile, which truncates the file and then writes it, so   *)
(* the file is torn in between; GetAll lists the directory and then reads  *)
(* the files one by one.  The RWMutex is modelled as the sync package      *)
(* implements it: a writer first announces itself, which blocks new        *)
(* readers, then waits for the readers that are in; its Unlock lets in all *)
(* the readers it blocked before another writer can announce itself.       *)
(***************************************************************************)
EXTENDS AtomicStore

VARIABLES
  pc,       \* where each thread is
  writer,   \* the thread that has announced itself with Lock, or Nobody
  readers,  \* the threads that hold the read lock
  blocked,  \* the threads whose RLock waits for the writer to leave
  todo,     \* GetAll: the directory entries still to be read
  got,      \* GetAll: the files read so far
  before    \* history: what the file being written held (Absent between writes)

lock == <<writer, readers, blocked>>
jvars == <<file, call, ans, pc, writer, readers, blocked, todo, got, before>>

Goto(t, label) == pc' = [pc EXCEPT ![t] = label]

\* The result of the operation is known; the deferred unlock comes next.
Finish(t, a, label) ==
  /\ ans' = [ans EXCEPT ![t] = a]
  /\ Goto(t, label)

\* Where a thread that gets the lock goes on.
Enter(t) == CASE call[t].op = "save"   -> "truncate"
              [] call[t].op = "delete" -> "remove"
              [] call[t].op = "get"    -> "read"
              [] call[t].op = "getall" -> "list"

-----------------------------------------------------------------------------
Call(t, c) ==
  /\ pc[t] = "idle"
  /\ call' = [call EXCEPT ![t] = c]
  /\ Goto(t, IF c.op \in {"save", "delete"} THEN "lock" ELSE "rlock")
  /\ UNCHANGED <<file, ans, lock, todo, got, before>>

-----------------------------------------------------------------------------
(* sync.RWMutex                                                            *)

\* Lock: announce the writer...
Lock(t) ==
  /\ pc[t] = "lock"
  /\ writer = Nobody
  /\ writer' = t
  /\ Goto(t, "drain")
  /\ UNCHANGED <<file, call, ans, readers, blocked, todo, got, before>>

\* ...and wait for the readers to leave.
Drain(t) ==
  /\ pc[t] = "drain"
  /\ readers = {}
  /\ Goto(t, Enter(t))
  /\ UNCHANGED <<file, call, ans, lock, todo, got, before>>

Unlock(t) ==
  /\ pc[t] = "unlock"
  /\ writer' = Nobody
  /\ readers' = readers \cup blocked
  /\ blocked' = {}
  /\ pc' = [u \in Threads |-> IF u = t THEN "idle"
                              ELSE IF u \in blocked THEN Enter(u) ELSE pc[u]]
  /\ call' = [call EXCEPT ![t] = NoCall]
  /\ ans' = [ans EXCEPT ![t] = Pending]
  /\ UNCHANGED <<file, todo, got, before>>

MutantRLock(t) ==  \* a reader that does not take the lock
  /\ pc[t] = "rlock"
  /\ Goto(t, Enter(t))
  /\ UNCHANGED <<file, call, ans, lock, todo, got, before>>

RLock(t) ==
  /\ pc[t] = "rlock"
  /\ IF writer = Nobody
       THEN /\ readers' = readers \cup {t}
            /\ Goto(t, Enter(t))
            /\ UNCHANGED blocked
       ELSE /\ blocked' = blocked \cup {t}
            /\ Goto(t, "blocked")
            /\ UNCHANGED readers
  /\ UNCHANGED <<file, call, ans, writer, todo, got, before>>

MutantRUnlock(t) ==  \* a GetAll that fails returns with the lock held
  /\ pc[t] = "runlock"
  /\ readers' = IF call[t].op = "getall" /\ ans[t] = Error THEN readers ELSE readers \ {t}
  /\ Goto(t, "idle")
  /\ call' = [call EXCEPT ![t] = NoCall]
  /\ ans' = [ans EXCEPT ![t] = Pending]
  /\ UNCHANGED <<file, writer, blocked, todo, got, before>>

RUnlock(t) ==
  /\ pc[t] = "runlock"
  /\ readers' = readers \ {t}
  /\ Goto(t, "idle")
  /\ call' = [call EXCEPT ![t] = NoCall]
  /\ ans' = [ans EXCEPT ![t] = Pending]
  /\ UNCHANGED <<file, writer, blocked, todo, got, before>>

-----------------------------------------------------------------------------
(* Save: os.WriteFile opens the file with O_TRUNC, then writes it.         *)

Truncate(t) ==
  /\ pc[t] = "truncate"
  /\ \/ /\ file' = [file EXCEPT ![call[t].id] = Torn]
        /\ before' = file[call[t].id]
        /\ Goto(t, "write")
        /\ UNCHANGED ans
     \/ /\ "disk" \in Faults
        /\ Finish(t, Error, "unlock")
        /\ UNCHANGED <<file, before>>
  /\ UNCHANGED <<call, lock, todo, got>>

Write(t) ==
  /\ pc[t] = "write"
  /\ \/ /\ file' = [file EXCEPT ![call[t].id] = call[t].val]
        /\ Finish(t, OK({}), "unlock")
     \/ /\ "disk" \in Faults
        /\ Finish(t, Error, "unlock")
        /\ UNCHANGED file
  /\ before' = Absent
  /\ UNCHANGED <<call, lock, todo, got>>

(* Delete: os.Remove, an error for a file that is not there.               *)
Remove(t) ==
  /\ pc[t] = "remove"
  /\ \/ /\ file[call[t].id] # Absent
        /\ file' = [file EXCEPT ![call[t].id] = Absent]
        /\ Finish(t, OK({}), "unlock")
     \/ /\ file[call[t].id] = Absent \/ "disk" \in Faults
        /\ Finish(t, Error, "unlock")
        /\ UNCHANGED file
  /\ UNCHANGED <<call, lock, todo, got, before>>

(* Get: read the file and parse it.                                        *)
Read(t) ==
  /\ pc[t] = "read"
  /\ \/ /\ file[call[t].id] \in Values
        /\ Finish(t, OK({<<call[t].id, file[call[t].id]>>}), "runlock")
     \/ /\ file[call[t].id] \notin Values \/ "disk" \in Faults
        /\ Finish(t, Error, "runlock")
  /\ UNCHANGED <<file, call, lock, todo, got, before>>

-----------------------------------------------------------------------------
(* GetAll: list the directory, an error if that fails; read the files,     *)
(* skipping those that fail.                                               *)

MutantList(t) ==  \* every id is listed, whether it has a file or not
  /\ pc[t] = "list"
  /\ todo' = [todo EXCEPT ![t] = Ids]
  /\ got' = [got EXCEPT ![t] = {}]
  /\ Goto(t, "scan")
  /\ UNCHANGED <<file, call, ans, lock, before>>

List(t) ==
  /\ pc[t] = "list"
  /\ todo' = [todo EXCEPT ![t] = {i \in Ids : file[i] # Absent}]
  /\ got' = [got EXCEPT ![t] = {}]
  /\ Goto(t, "scan")
  /\ UNCHANGED <<file, call, ans, lock, before>>

\* The directory cannot be read.
ListFails(t) ==
  /\ pc[t] = "list"
  /\ "disk" \in Faults
  /\ Finish(t, Error, "runlock")
  /\ UNCHANGED <<file, call, lock, todo, got, before>>

ReadNext(t, i) ==
  /\ pc[t] = "scan"
  /\ i \in todo[t]
  /\ todo' = [todo EXCEPT ![t] = @ \ {i}]
  /\ \/ got' = [got EXCEPT ![t] = @ \cup {<<i, file[i]>>}]
     \/ "disk" \in Faults /\ UNCHANGED got
  /\ UNCHANGED <<file, call, ans, pc, lock, before>>

EndScan(t) ==
  /\ pc[t] = "scan"
  /\ todo[t] = {}
  /\ Finish(t, OK(got[t]), "runlock")
  /\ got' = [got EXCEPT ![t] = {}]
  /\ UNCHANGED <<file, call, lock, todo, before>>

-----------------------------------------------------------------------------
\* The process dies: the threads and their locks are gone, the files stay.
JCrash ==
  /\ "crash" \in Faults
  /\ call' = [t \in Threads |-> NoCall]
  /\ ans' = [t \in Threads |-> Pending]
  /\ pc' = [t \in Threads |-> "idle"]
  /\ writer' = Nobody
  /\ readers' = {}
  /\ blocked' = {}
  /\ todo' = [t \in Threads |-> {}]
  /\ got' = [t \in Threads |-> {}]
  /\ before' = Absent
  /\ UNCHANGED file

JInit ==
  /\ Init
  /\ pc = [t \in Threads |-> "idle"]
  /\ writer = Nobody
  /\ readers = {}
  /\ blocked = {}
  /\ todo = [t \in Threads |-> {}]
  /\ got = [t \in Threads |-> {}]
  /\ before = Absent

\* What t does by itself once it has called an operation.
Work(t) ==
  \/ Drain(t) \/ Unlock(t) \/ RLock(t) \/ RUnlock(t)
  \/ Truncate(t) \/ Write(t) \/ Remove(t) \/ Read(t)
  \/ List(t) \/ ListFails(t) \/ (\E i \in Ids : ReadNext(t, i)) \/ EndScan(t)

JNext ==
  \/ \E t \in Threads : (\E c \in Calls : Call(t, c)) \/ Lock(t) \/ Work(t)
  \/ JCrash

JSpec == JInit /\ [][JNext]_jvars

(* Lock is strongly fair: the mutex that writers queue on hands itself to  *)
(* a waiter that has been passed over (the starvation mode of sync.Mutex). *)
JFairSpec ==
  JSpec /\ \A t \in Threads : WF_jvars(Work(t)) /\ SF_jvars(Lock(t))

-----------------------------------------------------------------------------
(* Properties.                                                             *)

JTypeOK ==
  /\ file \in [Ids -> Contents]
  /\ call \in [Threads -> Calls \cup {NoCall}]
  /\ ans \in [Threads -> [status : {"pending", "ok", "error"}, items : Items]]
  /\ pc \in [Threads -> {"idle", "lock", "drain", "truncate", "write", "remove", "unlock",
                         "rlock", "blocked", "read", "list", "scan", "runlock"}]
  /\ writer \in Threads \cup {Nobody}
  /\ readers \subseteq Threads
  /\ blocked \subseteq Threads
  /\ todo \in [Threads -> SUBSET Ids]
  /\ got \in [Threads -> Items]
  /\ before \in Contents

(* The store as its callers see it: a record being rewritten still holds   *)
(* what it held.  The JSON store implements the atomic one: no operation   *)
(* sees another half done, and a listing is the store at one instant.      *)
Visible ==
  [i \in Ids |-> IF \E t \in Threads : pc[t] = "write" /\ call[t].id = i
                   THEN before ELSE file[i]]

Atomic == INSTANCE AtomicStore WITH file <- Visible

ImplementsAtomic == Atomic!Spec

(* Every operation returns: readers cannot starve writers, nor writers     *)
(* readers, and no return path keeps the lock: not that of a file that is  *)
(* not there, nor that of a failing file operation (of GetAll, that the    *)
(* directory cannot be listed).                                            *)
EveryCallReturns == \A t \in Threads : pc[t] # "idle" ~> pc[t] = "idle"
=============================================================================
