--------------------------- MODULE JSONStore_proofs ---------------------------
(***************************************************************************)
(* TLAPS proof that JSONStore implements AtomicStore, for any threads, ids *)
(* and values, with or without faults.                                     *)
(*                                                                         *)
(* The argument is the lock's: while a thread is between a truncation and  *)
(* the write that follows it, no reader is in, so what the readers find in *)
(* the files is what the callers are told is there; and while a reader is  *)
(* in, no file changes, so the files GetAll reads one by one are a listing *)
(* of one instant.                                                         *)
(***************************************************************************)
EXTENDS JSONStore, TLAPS

Writing == {"truncate", "write", "remove", "unlock"}
Reading == {"read", "list", "scan", "runlock"}

\* Who holds what of the RWMutex, by where the threads are.
LockInv ==
  /\ \A t \in Threads : writer = t <=> pc[t] \in Writing \cup {"drain"}
  /\ \A t \in Threads : t \in readers <=> pc[t] \in Reading
  /\ \A t \in Threads : t \in blocked <=> pc[t] = "blocked"
  /\ \A t \in Threads : pc[t] \in Writing => readers = {}
  /\ blocked # {} => writer # Nobody

\* Which operation a thread is in, and whether its result is known.
CallInv ==
  \A t \in Threads :
    /\ pc[t] = "idle" => call[t] = NoCall
    /\ pc[t] \in {"truncate", "write"} => call[t].op = "save"
    /\ pc[t] = "remove" => call[t].op = "delete"
    /\ pc[t] = "read" => call[t].op = "get"
    /\ pc[t] \in {"list", "scan"} => call[t].op = "getall"
    /\ pc[t] \in {"lock", "drain", "unlock"} => call[t].op \in {"save", "delete"}
    /\ pc[t] \in {"rlock", "blocked", "runlock"} => call[t].op \in {"get", "getall"}
    /\ ans[t] = Pending <=> pc[t] \notin {"unlock", "runlock"}

\* What a GetAll under way has read is part of the listing, and all of it
\* but what it has still to read, unless the disk fails.
ScanInv ==
  \A t \in Threads : pc[t] = "scan" =>
    /\ \A i \in todo[t] : file[i] # Absent
    /\ got[t] \subseteq Listing
    /\ "disk" \notin Faults =>
         \A i \in Ids : file[i] # Absent /\ i \notin todo[t] => <<i, file[i]>> \in got[t]

\* Between its truncation and its write a file is torn.
HalfWritten == \A t \in Threads : pc[t] = "write" => file[call[t].id] = Torn

SInv == JTypeOK /\ LockInv /\ CallInv /\ ScanInv

-----------------------------------------------------------------------------
LEMMA CallFacts ==
  /\ NoCall \notin Calls
  /\ Calls = [op : {"save"}, id : Ids, val : Values]
               \cup [op : {"get", "delete"}, id : Ids, val : {Torn}]
               \cup [op : {"getall"}, id : {Nobody}, val : {Torn}]
  /\ NoCall.op = "none"
  /\ \A c \in Calls : c.op \in {"save", "delete", "get", "getall"}
  /\ \A s : OK(s) # Pending /\ OK(s).items = s
  /\ Error # Pending
  /\ Pending.items = {} /\ Error.items = {}
<1>1. \A s : OK(s).status = "ok" /\ OK(s).items = s
  BY DEF OK
<1>2. Pending.status = "pending" /\ Error.status = "error"
  BY DEF Pending, Error
<1>3. NoCall.op = "none" /\ \A c \in Calls : c.op \in {"save", "delete", "get", "getall"}
  BY DEF NoCall, Calls
<1> QED BY <1>1, <1>2, <1>3 DEF Calls, Pending, Error

LEMMA AnswerTypes ==
  /\ Pending \in [status : {"pending", "ok", "error"}, items : Items]
  /\ Error \in [status : {"pending", "ok", "error"}, items : Items]
  /\ \A s \in Items : OK(s) \in [status : {"pending", "ok", "error"}, items : Items]
  /\ {} \in Items
BY DEF Pending, Error, OK, Items

LEMMA SInvInit == JInit => SInv
<1> USE CallFacts, AnswerTypes, StoreAssumption
<1> SUFFICES ASSUME JInit PROVE SInv
  OBVIOUS
<1>1. JTypeOK
  BY DEF JInit, Init, JTypeOK, Contents
<1>2. LockInv
  BY DEF JInit, LockInv, Writing, Reading
<1>3. CallInv /\ ScanInv
  BY DEF JInit, Init, CallInv, ScanInv
<1> QED BY <1>1, <1>2, <1>3 DEF SInv

\* The sections of the code that move only the lock.
LEMMA SInvLock ==
  ASSUME SInv, NEW t \in Threads,
         Lock(t) \/ Drain(t) \/ RLock(t) \/ Unlock(t) \/ RUnlock(t)
         \/ \E c \in Calls : Call(t, c)
  PROVE  SInv'
<1> USE CallFacts, AnswerTypes, StoreAssumption
<1>1. UNCHANGED <<file, todo, got, before>> /\ JTypeOK
  BY DEF SInv, Lock, Drain, RLock, Unlock, RUnlock, Call, lock
<1>2. ASSUME NEW u \in Threads, call[u] \in Calls
      PROVE  Enter(u) \in {"truncate", "remove", "read", "list"}
  BY <1>2 DEF Enter
<1>3. ASSUME NEW u \in Threads, pc[u] # "idle" PROVE call[u] \in Calls
  BY <1>1, <1>3 DEF SInv, CallInv, JTypeOK
<1>4. CASE \E c \in Calls : Call(t, c)
  <2>1. PICK c \in Calls : Call(t, c)
    BY <1>4
  <2>2. JTypeOK'
    BY <1>1, <2>1 DEF JTypeOK, Call, Goto, lock
  <2>3. LockInv'
    BY <1>1, <2>1 DEF SInv, JTypeOK, LockInv, Call, Goto, lock, Writing, Reading
  <2>4. CallInv'
    BY <1>1, <2>1 DEF SInv, JTypeOK, CallInv, Call, Goto, lock
  <2>5. ScanInv'
    BY <1>1, <2>1 DEF SInv, JTypeOK, ScanInv, Call, Goto, Listing
  <2> QED BY <2>2, <2>3, <2>4, <2>5 DEF SInv
<1>5. CASE Lock(t)
  <2>1. JTypeOK'
    BY <1>1, <1>5 DEF JTypeOK, Lock, Goto
  <2>2. LockInv'
    BY <1>1, <1>5 DEF SInv, JTypeOK, LockInv, Lock, Goto, Writing, Reading
  <2>3. CallInv'
    BY <1>1, <1>5 DEF SInv, JTypeOK, CallInv, Lock, Goto
  <2>4. ScanInv'
    BY <1>1, <1>5 DEF SInv, JTypeOK, ScanInv, Lock, Goto, Listing
  <2> QED BY <2>1, <2>2, <2>3, <2>4 DEF SInv
<1>6. CASE Drain(t)
  <2>1. pc[t] = "drain" /\ pc' = [pc EXCEPT ![t] = Enter(t)] /\ readers = {}
        /\ UNCHANGED <<call, ans, writer, readers, blocked>>
    BY <1>6 DEF Drain, Goto, lock
  <2>2. \/ Enter(t) = "truncate" /\ call[t].op = "save"
        \/ Enter(t) = "remove" /\ call[t].op = "delete"
    BY <2>1 DEF SInv, CallInv, Enter
  <2>3. JTypeOK'
    BY <1>1, <2>1, <2>2 DEF JTypeOK
  <2>4. LockInv'
    BY <1>1, <2>1, <2>2 DEF SInv, JTypeOK, LockInv, Writing, Reading
  <2>5. CallInv'
    BY <1>1, <2>1, <2>2 DEF SInv, JTypeOK, CallInv
  <2>6. ScanInv'
    BY <1>1, <2>1, <2>2 DEF SInv, JTypeOK, ScanInv, Listing
  <2> QED BY <2>3, <2>4, <2>5, <2>6 DEF SInv
<1>7. CASE RLock(t)
  <2>1. pc[t] = "rlock" /\ UNCHANGED <<call, ans, writer>>
    BY <1>7 DEF RLock
  <2>2. \/ Enter(t) = "read" /\ call[t].op = "get"
        \/ Enter(t) = "list" /\ call[t].op = "getall"
    BY <2>1 DEF SInv, CallInv, Enter
  <2>3. CASE writer = Nobody
    <3>1. readers' = readers \cup {t} /\ pc' = [pc EXCEPT ![t] = Enter(t)]
          /\ blocked' = blocked
      BY <1>7, <2>3 DEF RLock, Goto
    <3>2. JTypeOK'
      BY <1>1, <2>1, <2>2, <3>1 DEF JTypeOK
    <3>3. LockInv'
      BY <1>1, <2>1, <2>2, <2>3, <3>1 DEF SInv, JTypeOK, LockInv, Writing, Reading
    <3>4. CallInv'
      BY <1>1, <2>1, <2>2, <3>1 DEF SInv, JTypeOK, CallInv
    <3>5. ScanInv'
      BY <1>1, <2>1, <2>2, <3>1 DEF SInv, JTypeOK, ScanInv, Listing
    <3> QED BY <3>2, <3>3, <3>4, <3>5 DEF SInv
  <2>4. CASE writer # Nobody
    <3>1. blocked' = blocked \cup {t} /\ pc' = [pc EXCEPT ![t] = "blocked"]
          /\ readers' = readers
      BY <1>7, <2>4 DEF RLock, Goto
    <3>2. JTypeOK'
      BY <1>1, <2>1, <3>1 DEF JTypeOK
    <3>3. LockInv'
      BY <1>1, <2>1, <2>4, <3>1 DEF SInv, JTypeOK, LockInv, Writing, Reading
    <3>4. CallInv'
      BY <1>1, <2>1, <3>1 DEF SInv, JTypeOK, CallInv
    <3>5. ScanInv'
      BY <1>1, <2>1, <3>1 DEF SInv, JTypeOK, ScanInv, Listing
    <3> QED BY <3>2, <3>3, <3>4, <3>5 DEF SInv
  <2> QED BY <2>3, <2>4
<1>8. CASE Unlock(t)
  <2>1. /\ pc[t] = "unlock" /\ writer = t /\ readers = {}
        /\ writer' = Nobody /\ readers' = blocked /\ blocked' = {}
        /\ call' = [call EXCEPT ![t] = NoCall]
        /\ ans' = [ans EXCEPT ![t] = Pending]
        /\ pc' = [u \in Threads |-> IF u = t THEN "idle"
                                    ELSE IF u \in blocked THEN Enter(u) ELSE pc[u]]
    BY <1>8 DEF Unlock, SInv, LockInv, Writing
  <2>2. \A u \in blocked : /\ u \in Threads
                           /\ pc[u] = "blocked"
                           /\ \/ Enter(u) = "read" /\ call[u].op = "get"
                              \/ Enter(u) = "list" /\ call[u].op = "getall"
    BY <1>1 DEF SInv, LockInv, CallInv, JTypeOK, Enter
  <2>3. JTypeOK'
    BY <1>1, <2>1, <2>2 DEF JTypeOK
  <2>4. LockInv'
    BY <1>1, <2>1, <2>2 DEF SInv, JTypeOK, LockInv, Writing, Reading
  <2>5. CallInv'
    BY <1>1, <2>1, <2>2 DEF SInv, JTypeOK, CallInv
  <2>6. ScanInv'
    BY <1>1, <2>1, <2>2 DEF SInv, JTypeOK, ScanInv, Listing
  <2> QED BY <2>3, <2>4, <2>5, <2>6 DEF SInv
<1>9. CASE RUnlock(t)
  <2>1. JTypeOK'
    BY <1>1, <1>9 DEF JTypeOK, RUnlock, Goto
  <2>2. LockInv'
    BY <1>1, <1>9 DEF SInv, JTypeOK, LockInv, RUnlock, Goto, Writing, Reading
  <2>3. CallInv'
    BY <1>1, <1>9 DEF SInv, JTypeOK, CallInv, RUnlock, Goto
  <2>4. ScanInv'
    BY <1>1, <1>9 DEF SInv, JTypeOK, ScanInv, RUnlock, Goto, Listing
  <2> QED BY <2>1, <2>2, <2>3, <2>4 DEF SInv
<1> QED BY <1>4, <1>5, <1>6, <1>7, <1>8, <1>9

-----------------------------------------------------------------------------
\* No reader is in while a writer is.
LEMMA Alone ==
  ASSUME SInv, NEW t \in Threads, pc[t] \in Writing
  PROVE  \A u \in Threads : pc[u] \notin Reading /\ (u # t => pc[u] \notin Writing)
BY DEF SInv, LockInv, Writing, Reading

\* The writers' file operations.
LEMMA SInvWrite ==
  ASSUME SInv, NEW t \in Threads, Truncate(t) \/ Write(t) \/ Remove(t)
  PROVE  SInv'
<1> USE CallFacts, AnswerTypes, StoreAssumption
<1>1. /\ UNCHANGED <<call, writer, readers, blocked, todo, got>>
      /\ JTypeOK
      /\ pc[t] \in {"truncate", "write", "remove"}
      /\ call[t] \in Calls
  BY DEF SInv, CallInv, JTypeOK, Truncate, Write, Remove, lock
<1>2. \E l \in {"write", "unlock"} :
         /\ pc' = [pc EXCEPT ![t] = l]
         /\ l = "write" => pc[t] = "truncate" /\ ans' = ans
         /\ l = "unlock" => \E a \in {OK({}), Error} : ans' = [ans EXCEPT ![t] = a]
  BY DEF Truncate, Write, Remove, Finish, Goto
<1>3. file' \in [Ids -> Contents] /\ before' \in Contents
  <2>1. CASE Truncate(t)
    BY <1>1, <2>1 DEF Truncate, JTypeOK, Contents, SInv, CallInv, Calls
  <2>2. CASE Write(t)
    BY <1>1, <2>2 DEF Write, JTypeOK, Contents, SInv, CallInv, Calls
  <2>3. CASE Remove(t)
    BY <1>1, <2>3 DEF Remove, JTypeOK, Contents, SInv, CallInv, Calls
  <2> QED BY <2>1, <2>2, <2>3
<1>4. JTypeOK'
  BY <1>1, <1>2, <1>3 DEF JTypeOK
<1>5. LockInv'
  BY <1>1, <1>2 DEF SInv, JTypeOK, LockInv, Writing, Reading
<1>6. CallInv'
  <2>1. call[t].op \in {"save", "delete"} /\ (pc[t] = "truncate" => call[t].op = "save")
    BY <1>1 DEF SInv, CallInv
  <2> QED BY <1>1, <1>2, <2>1 DEF SInv, JTypeOK, CallInv
<1>7. ScanInv'
  <2>1. \A u \in Threads : pc'[u] # "scan"
    BY <1>1, <1>2, Alone DEF JTypeOK, Reading, Writing
  <2> QED BY <2>1 DEF ScanInv
<1> QED BY <1>4, <1>5, <1>6, <1>7 DEF SInv

\* The readers' file operations.
LEMMA SInvRead ==
  ASSUME SInv, NEW t \in Threads,
         \/ Read(t) \/ List(t) \/ ListFails(t)
         \/ (\E i \in Ids : ReadNext(t, i)) \/ EndScan(t)
  PROVE  SInv'
<1> USE CallFacts, AnswerTypes, StoreAssumption
<1>1. /\ UNCHANGED <<file, call, writer, readers, blocked, before>>
      /\ JTypeOK
      /\ pc[t] \in {"read", "list", "scan"}
      /\ \A i \in Ids : file[i] \in Values \cup {Absent, Torn}
  BY DEF SInv, JTypeOK, Contents, Read, List, ListFails, ReadNext, EndScan, lock
<1>2. Listing \in Items
  BY <1>1 DEF Listing, Items
<1>3. CASE Read(t)
  <2>1. \E a : /\ ans' = [ans EXCEPT ![t] = a]
               /\ a # Pending
               /\ a \in [status : {"pending", "ok", "error"}, items : Items]
    <3>1. file[call[t].id] \in Values /\ call[t].id \in Ids
            => {<<call[t].id, file[call[t].id]>>} \in Items
      BY DEF Items
    <3>2. call[t].id \in Ids
      BY <1>1, <1>3 DEF Read, SInv, CallInv, JTypeOK, Calls
    <3> QED BY <1>3, <3>1, <3>2 DEF Read, Finish
  <2>2. pc[t] = "read" /\ pc' = [pc EXCEPT ![t] = "runlock"] /\ UNCHANGED <<todo, got>>
    BY <1>3 DEF Read, Finish, Goto
  <2>3. JTypeOK'
    BY <1>1, <2>1, <2>2 DEF JTypeOK
  <2>4. LockInv'
    BY <1>1, <2>2 DEF SInv, JTypeOK, LockInv, Writing, Reading
  <2>5. CallInv'
    BY <1>1, <2>1, <2>2 DEF SInv, JTypeOK, CallInv
  <2>6. ScanInv'
    BY <1>1, <2>2 DEF SInv, JTypeOK, ScanInv, Listing
  <2> QED BY <2>3, <2>4, <2>5, <2>6 DEF SInv
<1>4. CASE List(t)
  <2>1. /\ pc[t] = "list" /\ pc' = [pc EXCEPT ![t] = "scan"] /\ ans' = ans
        /\ todo' = [todo EXCEPT ![t] = {i \in Ids : file[i] # Absent}]
        /\ got' = [got EXCEPT ![t] = {}]
    BY <1>4 DEF List, Goto
  <2>2. JTypeOK'
    BY <1>1, <2>1 DEF JTypeOK
  <2>3. LockInv'
    BY <1>1, <2>1 DEF SInv, JTypeOK, LockInv, Writing, Reading
  <2>4. CallInv'
    BY <1>1, <2>1 DEF SInv, JTypeOK, CallInv
  <2>5. ScanInv'
    BY <1>1, <2>1 DEF SInv, JTypeOK, ScanInv, Listing
  <2> QED BY <2>2, <2>3, <2>4, <2>5 DEF SInv
<1>5. ASSUME NEW i \in Ids, ReadNext(t, i) PROVE SInv'
  <2>1. /\ pc[t] = "scan" /\ i \in todo[t] /\ UNCHANGED <<pc, ans>>
        /\ todo' = [todo EXCEPT ![t] = @ \ {i}]
        /\ \/ got' = [got EXCEPT ![t] = @ \cup {<<i, file[i]>>}]
           \/ "disk" \in Faults /\ got' = got
    BY <1>5 DEF ReadNext
  <2>2. file[i] # Absent
    BY <1>1, <2>1 DEF SInv, ScanInv
  <2>3. <<i, file[i]>> \in Listing
    BY <2>2 DEF Listing
  <2>4. JTypeOK'
    <3>1. got[t] \cup {<<i, file[i]>>} \in Items
      BY <1>1, <1>2, <2>3 DEF Items, JTypeOK
    <3>2. got' \in [Threads -> Items]
      <4>1. got \in [Threads -> Items]
        BY <1>1 DEF JTypeOK
      <4>2. CASE got' = [got EXCEPT ![t] = got[t] \cup {<<i, file[i]>>}]
        BY <3>1, <4>1, <4>2
      <4> QED BY <2>1, <4>1, <4>2
    <3> QED BY <1>1, <2>1, <3>2 DEF JTypeOK
  <2>5. LockInv' /\ CallInv'
    BY <1>1, <2>1 DEF SInv, LockInv, CallInv
  <2>6. ScanInv'
    <3> SUFFICES ASSUME NEW u \in Threads, pc[u] = "scan"
                 PROVE  /\ \A j \in todo'[u] : file[j] # Absent
                        /\ got'[u] \subseteq Listing
                        /\ "disk" \notin Faults =>
                             \A j \in Ids : file[j] # Absent /\ j \notin todo'[u]
                                              => <<j, file[j]>> \in got'[u]
      BY <1>1, <2>1 DEF ScanInv, Listing
    <3>1. CASE u = t
      <4>1. todo'[t] = todo[t] \ {i}
        BY <1>1, <2>1 DEF JTypeOK
      <4>2. \/ got'[t] = got[t] \cup {<<i, file[i]>>}
            \/ "disk" \in Faults /\ got'[t] = got[t]
        BY <1>1, <2>1 DEF JTypeOK
      <4>3. /\ \A j \in todo[t] : file[j] # Absent
            /\ got[t] \subseteq Listing
            /\ "disk" \notin Faults =>
                 \A j \in Ids : file[j] # Absent /\ j \notin todo[t] => <<j, file[j]>> \in got[t]
        BY <2>1 DEF SInv, ScanInv
      <4> QED BY <2>3, <3>1, <4>1, <4>2, <4>3
    <3>2. CASE u # t
      BY <1>1, <2>1, <3>2 DEF SInv, ScanInv, JTypeOK
    <3> QED BY <3>1, <3>2
  <2> QED BY <2>4, <2>5, <2>6 DEF SInv
<1>6. CASE EndScan(t)
  <2>1. /\ pc[t] = "scan" /\ pc' = [pc EXCEPT ![t] = "runlock"]
        /\ ans' = [ans EXCEPT ![t] = OK(got[t])]
        /\ got' = [got EXCEPT ![t] = {}] /\ todo' = todo
    BY <1>6 DEF EndScan, Finish, Goto
  <2>2. OK(got[t]) \in [status : {"pending", "ok", "error"}, items : Items]
    BY <1>1 DEF JTypeOK
  <2>3. JTypeOK'
    BY <1>1, <2>1, <2>2 DEF JTypeOK
  <2>4. LockInv'
    BY <1>1, <2>1 DEF SInv, JTypeOK, LockInv, Writing, Reading
  <2>5. CallInv'
    BY <1>1, <2>1 DEF SInv, JTypeOK, CallInv
  <2>6. ScanInv'
    BY <1>1, <2>1 DEF SInv, JTypeOK, ScanInv, Listing
  <2> QED BY <2>3, <2>4, <2>5, <2>6 DEF SInv
<1>7. CASE ListFails(t)
  <2>1. /\ pc[t] = "list" /\ pc' = [pc EXCEPT ![t] = "runlock"]
        /\ ans' = [ans EXCEPT ![t] = Error]
        /\ UNCHANGED <<todo, got>>
    BY <1>7 DEF ListFails, Finish, Goto
  <2>2. JTypeOK'
    BY <1>1, <2>1 DEF JTypeOK
  <2>3. LockInv'
    BY <1>1, <2>1 DEF SInv, JTypeOK, LockInv, Writing, Reading
  <2>4. CallInv'
    BY <1>1, <2>1 DEF SInv, JTypeOK, CallInv
  <2>5. ScanInv'
    BY <1>1, <2>1 DEF SInv, JTypeOK, ScanInv, Listing
  <2> QED BY <2>2, <2>3, <2>4, <2>5 DEF SInv
<1> QED BY <1>3, <1>4, <1>5, <1>6, <1>7

LEMMA SInvNext == SInv /\ [JNext]_jvars => SInv'
<1> USE CallFacts, AnswerTypes, StoreAssumption
<1> SUFFICES ASSUME SInv, [JNext]_jvars PROVE SInv'
  OBVIOUS
<1>1. ASSUME NEW t \in Threads, (\E c \in Calls : Call(t, c)) \/ Lock(t) \/ Work(t)
      PROVE  SInv'
  BY <1>1, SInvLock, SInvWrite, SInvRead DEF Work
<1>2. CASE JCrash
  <2>1. JTypeOK'
    BY <1>2 DEF JCrash, SInv, JTypeOK, Contents
  <2>2. LockInv' /\ CallInv' /\ ScanInv'
    BY <1>2 DEF JCrash, LockInv, CallInv, ScanInv, Writing, Reading
  <2> QED BY <2>1, <2>2 DEF SInv
<1>3. CASE UNCHANGED jvars
  BY <1>3 DEF jvars, lock, SInv, JTypeOK, LockInv, CallInv, ScanInv, Listing
<1> QED BY <1>1, <1>2, <1>3 DEF JNext

LEMMA StoreInvariance == JSpec => []SInv
BY SInvInit, SInvNext, PTL DEF JSpec

LEMMA HalfStep == SInv /\ HalfWritten /\ [JNext]_jvars => HalfWritten'
<1> SUFFICES ASSUME SInv, HalfWritten, [JNext]_jvars, NEW u \in Threads, pc'[u] = "write"
             PROVE  file'[call'[u].id] = Torn
  BY DEF HalfWritten
<1>1. /\ file \in [Ids -> Contents]
      /\ call \in [Threads -> Calls \cup {NoCall}]
      /\ pc \in [Threads -> {"idle", "lock", "drain", "truncate", "write", "remove", "unlock",
                             "rlock", "blocked", "read", "list", "scan", "runlock"}]
  BY DEF SInv, JTypeOK
<1>2. ASSUME NEW t \in Threads, Truncate(t) PROVE file'[call'[u].id] = Torn
  <2>1. t = u
    <3>1. pc[u] # "write"
      BY <1>2, Alone DEF Truncate, Writing
    <3> QED BY <1>1, <1>2, <3>1 DEF Truncate, Finish, Goto
  <2>2. call[t].op = "save"
    BY <1>2 DEF Truncate, SInv, CallInv
  <2>3. call[t].id \in Ids
    BY <1>1, <2>2, CallFacts DEF Calls
  <2> QED BY <1>1, <1>2, <2>1, <2>3 DEF Truncate, Finish, Goto
<1>3. ASSUME NEW t \in Threads, Write(t) \/ Remove(t) PROVE FALSE
  <2>1. pc'[t] # "write" /\ \A v \in Threads : v # t => pc[v] # "write"
    BY <1>1, <1>3, Alone DEF Write, Remove, Finish, Goto, Writing
  <2> QED BY <1>1, <1>3, <2>1 DEF Write, Remove, Finish, Goto
<1>4. ASSUME UNCHANGED file, pc[u] = "write", call'[u] = call[u]
      PROVE  file'[call'[u].id] = Torn
  BY <1>4 DEF HalfWritten
<1>5. ASSUME NEW t \in Threads,
             Drain(t) \/ Unlock(t) \/ RLock(t)
      PROVE  UNCHANGED file /\ pc[u] = "write" /\ call'[u] = call[u]
  <2>1. \A v \in Threads : pc[v] # "idle" => Enter(v) # "write"
    BY <1>1 DEF SInv, CallInv, Enter
  <2>2. \A v \in blocked : pc[v] = "blocked"
    BY DEF SInv, LockInv, JTypeOK
  <2>3. CASE Unlock(t)
    BY <1>1, <2>1, <2>2, <2>3 DEF Unlock
  <2> QED BY <1>1, <1>5, <2>1, <2>3 DEF Drain, RLock, Goto
<1>6. ASSUME NEW t \in Threads,
             \/ Lock(t) \/ RUnlock(t) \/ Read(t) \/ List(t) \/ ListFails(t) \/ EndScan(t)
             \/ (\E i \in Ids : ReadNext(t, i)) \/ (\E c \in Calls : Call(t, c))
      PROVE  UNCHANGED file /\ pc[u] = "write" /\ call'[u] = call[u]
  BY <1>1, <1>6 DEF Lock, RUnlock, Read, List, ListFails, EndScan, ReadNext, Call, Finish, Goto
<1>7. ~JCrash
  BY DEF JCrash
<1>8. CASE UNCHANGED jvars
  BY <1>4, <1>8 DEF jvars
<1> QED BY <1>2, <1>3, <1>4, <1>5, <1>6, <1>7, <1>8 DEF JNext, Work

LEMMA HalfInvariance == JSpec => []HalfWritten
<1>1. JInit => HalfWritten
  BY DEF JInit, HalfWritten
<1> QED BY <1>1, HalfStep, StoreInvariance, PTL DEF JSpec

-----------------------------------------------------------------------------
(* The refinement.  The files are what is visible, except for the one      *)
(* being written, and then no reader is in.                                *)
LEMMA VisibleFacts ==
  ASSUME SInv
  PROVE  /\ Visible \in [Ids -> Contents]
         /\ (\A t \in Threads : pc[t] # "write") => Visible = file
         /\ \A t \in Threads : pc[t] = "write" =>
              /\ call[t].id \in Ids
              /\ Visible = [file EXCEPT ![call[t].id] = before]
<1>1. file \in [Ids -> Contents] /\ before \in Contents
  BY DEF SInv, JTypeOK
<1>2. CASE \A t \in Threads : pc[t] # "write"
  BY <1>1, <1>2 DEF Visible
<1>3. ASSUME NEW t \in Threads, pc[t] = "write"
      PROVE  call[t].id \in Ids /\ Visible = [file EXCEPT ![call[t].id] = before]
  <2>1. \A u \in Threads : pc[u] = "write" => u = t
    BY <1>3, Alone DEF Writing
  <2>2. call[t].op = "save" /\ call[t] \in Calls \cup {NoCall}
    BY <1>3 DEF SInv, CallInv, JTypeOK
  <2>3. call[t].id \in Ids
    BY <2>2, CallFacts DEF Calls
  <2>4. \A i \in Ids : Visible[i] = IF i = call[t].id THEN before ELSE file[i]
    BY <1>3, <2>1 DEF Visible
  <2> QED BY <1>1, <2>3, <2>4 DEF Visible
<1> QED BY <1>1, <1>2, <1>3

\* Steps that write nothing and enter or leave no write change nothing visible.
LEMMA VisibleStays ==
  ASSUME UNCHANGED <<file, before>>,
         \A t \in Threads : pc'[t] = "write" <=> pc[t] = "write",
         \A t \in Threads : pc[t] = "write" => call'[t] = call[t]
  PROVE  Visible' = Visible
BY DEF Visible

LEMMA RefineLock ==
  ASSUME SInv, NEW t \in Threads,
         \/ Lock(t) \/ Drain(t) \/ RLock(t)
         \/ List(t) \/ (\E i \in Ids : ReadNext(t, i))
  PROVE  UNCHANGED <<Visible, call, ans>>
<1>1. UNCHANGED <<file, before, call, ans>>
  BY DEF Lock, Drain, RLock, List, ReadNext
<1>2. pc[t] # "write" /\ \E l : pc' = [pc EXCEPT ![t] = l] /\ l # "write"
  <2>1. CASE Drain(t)
    <3>1. Enter(t) # "write"
      BY <2>1 DEF Drain, SInv, CallInv, Enter
    <3> QED BY <2>1, <3>1 DEF Drain, Goto
  <2>2. CASE RLock(t)
    <3>1. Enter(t) # "write"
      BY <2>2 DEF RLock, SInv, CallInv, Enter
    <3> QED BY <2>2, <3>1 DEF RLock, Goto
  <2>3. CASE \E i \in Ids : ReadNext(t, i)
    <3>1. pc' = [pc EXCEPT ![t] = "scan"]
      BY <2>3 DEF ReadNext, SInv, JTypeOK
    <3> QED BY <2>3, <3>1 DEF ReadNext
  <2> QED BY <2>1, <2>2, <2>3 DEF Lock, List, Goto
<1>3. \A u \in Threads : pc'[u] = "write" <=> pc[u] = "write"
  BY <1>2 DEF SInv, JTypeOK
<1> QED BY <1>1, <1>3, VisibleStays

LEMMA RefineCall ==
  ASSUME SInv, NEW t \in Threads, NEW c \in Calls, Call(t, c)
  PROVE  Atomic!Invoke(t, c)
<1>1. \A u \in Threads : pc'[u] = "write" <=> pc[u] = "write"
  BY DEF Call, Goto, SInv, JTypeOK
<1>2. \A u \in Threads : pc[u] = "write" => call'[u] = call[u]
  BY DEF Call, SInv, JTypeOK
<1>3. Visible' = Visible
  BY <1>1, <1>2, VisibleStays DEF Call
<1>4. call[t] = Atomic!NoCall
  BY DEF Call, SInv, CallInv, NoCall, Atomic!NoCall, Torn, Atomic!Torn
<1> QED BY <1>3, <1>4 DEF Call, Atomic!Invoke

LEMMA RefineReturn ==
  ASSUME SInv, NEW t \in Threads, Unlock(t) \/ RUnlock(t)
  PROVE  Atomic!Return(t)
<1>1. pc[t] \in {"unlock", "runlock"} /\ UNCHANGED <<file, before>>
      /\ call' = [call EXCEPT ![t] = NoCall] /\ ans' = [ans EXCEPT ![t] = Pending]
  BY DEF Unlock, RUnlock
<1>2. \A u \in Threads : pc'[u] = "write" <=> pc[u] = "write"
  <2>1. CASE RUnlock(t)
    BY <2>1 DEF RUnlock, Goto, SInv, JTypeOK
  <2>2. CASE Unlock(t)
    <3>1. \A u \in blocked : Enter(u) # "write" /\ pc[u] = "blocked"
      BY DEF SInv, JTypeOK, LockInv, CallInv, Enter
    <3> QED BY <2>2, <3>1 DEF Unlock
  <2> QED BY <2>1, <2>2
<1>3. \A u \in Threads : pc[u] = "write" => call'[u] = call[u]
  BY <1>1 DEF SInv, JTypeOK
<1>4. Visible' = Visible
  BY <1>1, <1>2, <1>3, VisibleStays
<1>5. ans[t] # Pending
  BY <1>1 DEF SInv, CallInv
<1> QED BY <1>1, <1>4, <1>5 DEF Atomic!Return, Atomic!NoCall, Atomic!Pending,
         Atomic!Torn, NoCall, Pending, Torn

\* A Save that truncates the file has not happened yet.
LEMMA RefineTruncate ==
  ASSUME SInv, NEW t \in Threads, Truncate(t)
  PROVE  \/ UNCHANGED <<Visible, call, ans>>
         \/ Atomic!DoSave(t)
<1>2. /\ pc[t] = "truncate" /\ call' = call
      /\ \A u \in Threads : pc[u] # "write"
      /\ call[t].op = "save" /\ ans[t] = Pending
  BY Alone DEF Truncate, SInv, CallInv, Writing
<1>3. Visible = file /\ file \in [Ids -> Contents]
  BY <1>2, VisibleFacts DEF SInv, JTypeOK
<1>4. CASE /\ file' = [file EXCEPT ![call[t].id] = Torn]
           /\ before' = file[call[t].id]
           /\ pc' = [pc EXCEPT ![t] = "write"]
           /\ ans' = ans
  <2>1. \A u \in Threads : pc'[u] = "write" <=> u = t
    BY <1>2, <1>4 DEF SInv, JTypeOK
  <2>2. \A i \in Ids : Visible'[i] = IF call[t].id = i THEN before' ELSE file'[i]
    BY <1>2, <2>1 DEF Visible
  <2>3. Visible' = file
    <3>1. \A i \in Ids : Visible'[i] = file[i]
      BY <1>3, <1>4, <2>2
    <3>2. Visible' = [i \in Ids |-> Visible'[i]]
      BY DEF Visible
    <3> QED BY <1>3, <3>1, <3>2
  <2> QED BY <1>2, <1>3, <1>4, <2>3
<1>5. CASE /\ "disk" \in Faults
           /\ ans' = [ans EXCEPT ![t] = Error]
           /\ pc' = [pc EXCEPT ![t] = "unlock"]
           /\ UNCHANGED <<file, before>>
  <2>1. \A u \in Threads : pc'[u] = "write" <=> pc[u] = "write"
    BY <1>2, <1>5 DEF SInv, JTypeOK
  <2>2. Visible' = Visible
    BY <1>2, <1>5, <2>1, VisibleStays
  <2>3. Atomic!DoSave(t)
    BY <1>2, <1>5, <2>2 DEF Atomic!DoSave, Atomic!Answer, Atomic!Error, Error, Pending,
                            Atomic!Pending
  <2> QED BY <2>3
<1> QED BY <1>2, <1>4, <1>5 DEF Truncate, Finish, Goto

LEMMA RefineWrite ==
  ASSUME SInv, HalfWritten, NEW t \in Threads, Write(t)
  PROVE  Atomic!DoSave(t)
<1>1. /\ pc[t] = "write" /\ pc' = [pc EXCEPT ![t] = "unlock"] /\ call' = call
      /\ call[t].op = "save" /\ ans[t] = Pending
      /\ \A u \in Threads : pc[u] = "write" => u = t
  BY Alone DEF Write, Finish, Goto, SInv, CallInv, Writing
<1>2. /\ file \in [Ids -> Contents]
      /\ call[t].id \in Ids
      /\ Visible = [file EXCEPT ![call[t].id] = before]
  BY <1>1, VisibleFacts DEF SInv, JTypeOK
<1>3. Visible' = file'
  <2>1. \A u \in Threads : pc'[u] # "write"
    BY <1>1 DEF SInv, JTypeOK
  <2>2. Visible' = [i \in Ids |-> file'[i]]
    BY <2>1 DEF Visible
  <2>3. file' = [i \in Ids |-> file'[i]]
    BY <1>2 DEF Write
  <2> QED BY <2>2, <2>3
<1>4. CASE file' = [file EXCEPT ![call[t].id] = call[t].val]
           /\ ans' = [ans EXCEPT ![t] = OK({})]
  <2>1. Visible' = [Visible EXCEPT ![call[t].id] = call[t].val]
    BY <1>2, <1>3, <1>4
  <2> QED BY <1>1, <1>4, <2>1 DEF Atomic!DoSave, Atomic!Answer, Atomic!OK, OK, Pending,
                                  Atomic!Pending
<1>5. CASE "disk" \in Faults /\ file' = file /\ ans' = [ans EXCEPT ![t] = Error]
  <2>1. file[call[t].id] = Torn
    BY <1>1 DEF HalfWritten
  <2>2. Visible' = [Visible EXCEPT ![call[t].id] = Torn]
    BY <1>2, <1>3, <1>5, <2>1
  <2> QED BY <1>1, <1>5, <2>2 DEF Atomic!DoSave, Atomic!Answer, Atomic!Error, Error, Pending,
                                  Atomic!Pending, Torn, Atomic!Torn
<1> QED BY <1>4, <1>5 DEF Write, Finish

LEMMA RefineRemove ==
  ASSUME SInv, NEW t \in Threads, Remove(t)
  PROVE  Atomic!DoDelete(t)
<1>1. /\ pc[t] = "remove" /\ pc' = [pc EXCEPT ![t] = "unlock"] /\ call' = call
      /\ call[t].op = "delete" /\ ans[t] = Pending
      /\ \A u \in Threads : pc[u] # "write"
  BY Alone DEF Remove, Finish, Goto, SInv, CallInv, Writing
<1>2. Visible = file /\ file \in [Ids -> Contents]
  BY <1>1, VisibleFacts DEF SInv, JTypeOK
<1>3. Visible' = file'
  <2>1. \A u \in Threads : pc'[u] # "write"
    BY <1>1 DEF SInv, JTypeOK
  <2>2. Visible' = [i \in Ids |-> file'[i]]
    BY <2>1 DEF Visible
  <2>3. file' = [i \in Ids |-> file'[i]]
    BY <1>2 DEF Remove
  <2> QED BY <2>2, <2>3
<1> QED BY <1>1, <1>2, <1>3 DEF Remove, Finish, Atomic!DoDelete, Atomic!Answer, Atomic!OK, OK,
       Atomic!Error, Error, Pending, Atomic!Pending, Absent, Atomic!Absent

\* While a reader is in, the files are what is visible.
LEMMA ReaderSees ==
  ASSUME SInv, NEW t \in Threads, pc[t] \in Reading
  PROVE  /\ \A u \in Threads : pc[u] # "write"
         /\ Visible = file
<1>1. \A u \in Threads : pc[u] # "write"
  BY DEF SInv, LockInv, Writing, Reading
<1> QED BY <1>1, VisibleFacts

LEMMA RefineRead ==
  ASSUME SInv, NEW t \in Threads, Read(t)
  PROVE  Atomic!DoGet(t)
<1>1. /\ pc[t] = "read" /\ pc' = [pc EXCEPT ![t] = "runlock"]
      /\ UNCHANGED <<file, before, call>>
      /\ call[t].op = "get" /\ ans[t] = Pending
  BY DEF Read, Finish, Goto, SInv, CallInv
<1>2. Visible = file
  BY <1>1, ReaderSees DEF Reading
<1>3. \A u \in Threads : pc'[u] = "write" <=> pc[u] = "write"
  BY <1>1 DEF SInv, JTypeOK
<1>4. Visible' = Visible
  BY <1>1, <1>3, VisibleStays
<1> QED BY <1>1, <1>2, <1>4 DEF Read, Finish, Atomic!DoGet, Atomic!Answer, Atomic!OK, OK,
       Atomic!Error, Error, Pending, Atomic!Pending

LEMMA RefineListFails ==
  ASSUME SInv, NEW t \in Threads, ListFails(t)
  PROVE  Atomic!DoGetAll(t)
<1>1. /\ pc[t] = "list" /\ pc' = [pc EXCEPT ![t] = "runlock"]
      /\ UNCHANGED <<file, before, call>>
      /\ "disk" \in Faults /\ ans' = [ans EXCEPT ![t] = Error]
      /\ call[t].op = "getall" /\ ans[t] = Pending
  BY DEF ListFails, Finish, Goto, SInv, CallInv
<1>2. \A u \in Threads : pc'[u] = "write" <=> pc[u] = "write"
  BY <1>1 DEF SInv, JTypeOK
<1>3. Visible' = Visible
  BY <1>1, <1>2, VisibleStays
<1> QED BY <1>1, <1>3 DEF Atomic!DoGetAll, Atomic!Answer, Atomic!Error, Error,
       Pending, Atomic!Pending

LEMMA RefineEndScan ==
  ASSUME SInv, NEW t \in Threads, EndScan(t)
  PROVE  Atomic!DoGetAll(t)
<1>1. /\ pc[t] = "scan" /\ pc' = [pc EXCEPT ![t] = "runlock"] /\ todo[t] = {}
      /\ UNCHANGED <<file, before, call>>
      /\ ans' = [ans EXCEPT ![t] = OK(got[t])]
      /\ call[t].op = "getall" /\ ans[t] = Pending
  BY DEF EndScan, Finish, Goto, SInv, CallInv
<1>2. Visible = file
  BY <1>1, ReaderSees DEF Reading
<1>3. \A u \in Threads : pc'[u] = "write" <=> pc[u] = "write"
  BY <1>1 DEF SInv, JTypeOK
<1>4. Visible' = Visible
  BY <1>1, <1>3, VisibleStays
<1>5. Atomic!Listing = Listing
  BY <1>2 DEF Atomic!Listing, Listing, Absent, Atomic!Absent
<1>6. /\ got[t] \in SUBSET Listing
      /\ "disk" \notin Faults => got[t] = Listing
  BY <1>1 DEF SInv, ScanInv, Listing
<1> QED BY <1>1, <1>4, <1>5, <1>6 DEF Atomic!DoGetAll, Atomic!Answer, Atomic!OK, OK,
       Pending, Atomic!Pending

LEMMA RefineCrash ==
  ASSUME SInv, HalfWritten, JCrash
  PROVE  Atomic!Crash
<1>1. Visible' = file
  <2>1. \A u \in Threads : pc'[u] # "write"
    BY DEF JCrash
  <2>2. Visible' = [i \in Ids |-> file[i]]
    BY <2>1 DEF Visible, JCrash
  <2> QED BY <2>2 DEF SInv, JTypeOK
<1>2. \/ Visible' = Visible
      \/ \E t \in Threads : /\ call[t].op = "save"
                            /\ Visible' = [Visible EXCEPT ![call[t].id] = Torn]
  <2>1. CASE \A t \in Threads : pc[t] # "write"
    BY <1>1, <2>1, VisibleFacts
  <2>2. ASSUME NEW t \in Threads, pc[t] = "write"
        PROVE  call[t].op = "save" /\ Visible' = [Visible EXCEPT ![call[t].id] = Torn]
    <3>1. /\ call[t].id \in Ids
          /\ Visible = [file EXCEPT ![call[t].id] = before]
          /\ file[call[t].id] = Torn
          /\ file \in [Ids -> Contents]
          /\ call[t].op = "save"
      BY <2>2, VisibleFacts DEF SInv, HalfWritten, JTypeOK, CallInv
    <3> QED BY <1>1, <3>1
  <2> QED BY <2>1, <2>2
<1> QED BY <1>2 DEF JCrash, Atomic!Crash, NoCall, Atomic!NoCall, Pending, Atomic!Pending,
       Torn, Atomic!Torn

\* Every step of the JSON store is a step of the atomic one, or none.
LEMMA RefineNext ==
  SInv /\ HalfWritten /\ [JNext]_jvars => [Atomic!Next]_<<Visible, call, ans>>
<1> SUFFICES ASSUME SInv, HalfWritten, [JNext]_jvars
             PROVE  Atomic!Next \/ UNCHANGED <<Visible, call, ans>>
  OBVIOUS
<1>1. Calls = Atomic!Calls
  BY DEF Calls, Atomic!Calls, Torn, Atomic!Torn
<1>2. ASSUME NEW t \in Threads, (\E c \in Calls : Call(t, c)) \/ Lock(t) \/ Work(t)
      PROVE  Atomic!Next \/ UNCHANGED <<Visible, call, ans>>
  <2>1. CASE \E c \in Calls : Call(t, c)
    BY <1>1, <2>1, RefineCall DEF Atomic!Next, Atomic!Step
  <2>2. CASE \/ Lock(t) \/ Drain(t) \/ RLock(t)
             \/ List(t) \/ (\E i \in Ids : ReadNext(t, i))
    BY <2>2, RefineLock
  <2>6. CASE ListFails(t)
    BY <2>6, RefineListFails DEF Atomic!Next, Atomic!Step
  <2>3. CASE Unlock(t) \/ RUnlock(t)
    BY <2>3, RefineReturn DEF Atomic!Next, Atomic!Step
  <2>4. CASE Truncate(t) \/ Write(t)
    BY <2>4, RefineTruncate, RefineWrite DEF Atomic!Next, Atomic!Step
  <2>5. CASE Remove(t) \/ Read(t) \/ EndScan(t)
    BY <2>5, RefineRemove, RefineRead, RefineEndScan DEF Atomic!Next, Atomic!Step
  <2> QED BY <1>2, <2>1, <2>2, <2>3, <2>4, <2>5, <2>6 DEF Work
<1>3. CASE JCrash
  BY <1>3, RefineCrash DEF Atomic!Next
<1>4. CASE UNCHANGED jvars
  BY <1>4 DEF jvars, Visible
<1> QED BY <1>2, <1>3, <1>4 DEF JNext

LEMMA RefineInit == JInit => Atomic!Init
<1> SUFFICES ASSUME JInit PROVE Atomic!Init
  OBVIOUS
<1>1. Visible = file
  BY SInvInit, VisibleFacts DEF JInit
<1> QED BY <1>1 DEF JInit, Init, Atomic!Init, Absent, Atomic!Absent, NoCall, Atomic!NoCall,
       Pending, Atomic!Pending, Torn, Atomic!Torn

(* The types hold in every reachable state.                                *)
THEOREM StoreTypeCorrect == JSpec => []JTypeOK
<1>1. SInv => JTypeOK
  BY DEF SInv
<1> QED BY <1>1, StoreInvariance, PTL

(* The JSON store implements the atomic store: its callers may reason as   *)
(* if each operation happened at one instant.                              *)
THEOREM StoreIsAtomic == JSpec => ImplementsAtomic
<1>1. JSpec => Atomic!Init /\ [][Atomic!Next]_<<Visible, call, ans>>
  BY RefineInit, RefineNext, StoreInvariance, HalfInvariance, PTL DEF JSpec
<1> QED BY <1>1 DEF ImplementsAtomic, Atomic!Spec
=============================================================================
