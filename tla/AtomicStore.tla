----------------------------- MODULE AtomicStore -----------------------------
(***************************************************************************)
(* What the repositories expect of the record store: each Save, Get,       *)
(* Delete and GetAll takes effect at one instant between its call and its  *)
(* return, and GetAll returns the records of that one instant.  A crash    *)
(* or a failing disk may leave the record being saved torn, and no other;  *)
(* a failing disk may also fail any of them.                               *)
(***************************************************************************)
CONSTANTS
  Threads,  \* the goroutines that use the store
  Ids,      \* record ids (one collection: the others only share the lock)
  Values,   \* the JSON documents written
  Faults,   \* "crash": the process may die; "disk": file operations may fail
  Nobody    \* no thread

ASSUME StoreAssumption ==
  /\ Nobody \notin Threads
  /\ Values \cap {"absent", "torn"} = {}
  /\ Faults \subseteq {"crash", "disk"}

VARIABLES
  file,  \* what the file of each record holds
  call,  \* the operation each thread has called
  ans    \* what that operation will return, once it has taken effect

Absent == "absent"
Torn   == "torn"

Contents == Values \cup {Absent, Torn}
Items    == SUBSET (Ids \X (Values \cup {Torn}))

NoCall == [op |-> "none", id |-> Nobody, val |-> Torn]
Calls  == [op : {"save"}, id : Ids, val : Values]
            \cup [op : {"get", "delete"}, id : Ids, val : {Torn}]
            \cup [op : {"getall"}, id : {Nobody}, val : {Torn}]

Pending == [status |-> "pending", items |-> {}]
OK(s)   == [status |-> "ok", items |-> s]
Error   == [status |-> "error", items |-> {}]

Listing == {<<i, file[i]>> : i \in {j \in Ids : file[j] # Absent}}

-----------------------------------------------------------------------------
Invoke(t, c) ==
  /\ call[t] = NoCall
  /\ call' = [call EXCEPT ![t] = c]
  /\ UNCHANGED <<file, ans>>

\* The operation t has called takes effect.
Answer(t, a) == ans[t] = Pending /\ ans' = [ans EXCEPT ![t] = a] /\ UNCHANGED call

DoSave(t) ==
  /\ call[t].op = "save"
  /\ \/ /\ file' = [file EXCEPT ![call[t].id] = call[t].val]
        /\ Answer(t, OK({}))
     \/ /\ "disk" \in Faults
        /\ file' \in {file, [file EXCEPT ![call[t].id] = Torn]}
        /\ Answer(t, Error)

DoDelete(t) ==
  /\ call[t].op = "delete"
  /\ \/ /\ file[call[t].id] # Absent
        /\ file' = [file EXCEPT ![call[t].id] = Absent]
        /\ Answer(t, OK({}))
     \/ /\ file[call[t].id] = Absent \/ "disk" \in Faults
        /\ UNCHANGED file
        /\ Answer(t, Error)

DoGet(t) ==
  /\ call[t].op = "get"
  /\ \/ /\ file[call[t].id] \in Values
        /\ Answer(t, OK({<<call[t].id, file[call[t].id]>>}))
     \/ /\ file[call[t].id] \notin Values \/ "disk" \in Faults
        /\ Answer(t, Error)
  /\ UNCHANGED file

\* A file that cannot be read is left out of the listing; a directory that
\* cannot be read is an error.
DoGetAll(t) ==
  /\ call[t].op = "getall"
  /\ \/ Answer(t, OK(Listing))
     \/ "disk" \in Faults /\ \E s \in SUBSET Listing : Answer(t, OK(s))
     \/ "disk" \in Faults /\ Answer(t, Error)
  /\ UNCHANGED file

Return(t) ==
  /\ ans[t] # Pending
  /\ call' = [call EXCEPT ![t] = NoCall]
  /\ ans' = [ans EXCEPT ![t] = Pending]
  /\ UNCHANGED file

Crash ==
  /\ "crash" \in Faults
  /\ call' = [t \in Threads |-> NoCall]
  /\ ans' = [t \in Threads |-> Pending]
  /\ \/ UNCHANGED file
     \/ \E t \in Threads : /\ call[t].op = "save"
                           /\ file' = [file EXCEPT ![call[t].id] = Torn]

-----------------------------------------------------------------------------
Init ==
  /\ file = [i \in Ids |-> Absent]
  /\ call = [t \in Threads |-> NoCall]
  /\ ans = [t \in Threads |-> Pending]

Step(t) ==
  \/ \E c \in Calls : Invoke(t, c)
  \/ DoSave(t) \/ DoDelete(t) \/ DoGet(t) \/ DoGetAll(t)
  \/ Return(t)

Next == (\E t \in Threads : Step(t)) \/ Crash

Spec == Init /\ [][Next]_<<file, call, ans>>
=============================================================================
