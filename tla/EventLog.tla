------------------------------ MODULE EventLog ------------------------------
(***************************************************************************)
(* The event log: Logger.Log adds one file per event, and GetRecent lists  *)
(* the newest of the files.  What is known of an event here is its time.   *)
(* The files are in the order of their names, which are random, so a new   *)
(* one comes anywhere among them; and a goroutine takes the time of an     *)
(* event before it waits for the store, so that it may be any time too.    *)
(***************************************************************************)
EXTENDS Integers, Sequences, FiniteSets
SX == INSTANCE SequencesExt

CONSTANTS
  Times,      \* Event.CreatedAt
  MaxEvents,  \* a bound: no more events are kept
  MaxLimit    \* a bound: limits up to this one are looked at

ASSUME EventLogAssumption == Times \subseteq Nat /\ {MaxEvents, MaxLimit} \subseteq Nat

\* The times of the files in data/events that parse, in the order of the
\* files.  One that does not, or cannot be read, is skipped, as good as none
\* (GetRecent takes any such directory); where GetAll fails nothing is listed.
VARIABLE events

MutantExchange(s, i, j) ==  \* the other way round
  IF s[j] < s[i] THEN [s EXCEPT ![i] = s[j], ![j] = s[i]] ELSE s

\* One comparison of the sort: the newer of two comes first.
Exchange(s, i, j) ==
  IF s[j] > s[i] THEN [s EXCEPT ![i] = s[j], ![j] = s[i]] ELSE s

\* The inner loop: event i is compared with every later one in turn, and
\* changes places with a newer one.
Pass(s, i) ==
  LET upTo[j \in i .. Len(s)] ==
        IF j = i THEN s ELSE Exchange(upTo[j - 1], i, j)
  IN  upTo[Len(s)]

\* The outer loop.
Sort(s) ==
  LET after[i \in 0 .. Len(s)] == IF i = 0 THEN s ELSE Pass(after[i - 1], i)
  IN  after[Len(s)]

Cut(s, limit) == IF limit > 0 /\ Len(s) > limit THEN SubSeq(s, 1, limit) ELSE s

MutantGetRecent(dir, limit) == Sort(Cut(dir, limit))  \* cut off before it is sorted

\* The first limit events (all, if limit is 0), once they are sorted.
GetRecent(dir, limit) == Cut(Sort(dir), limit)

-----------------------------------------------------------------------------
EventLogInit == events = <<>>

\* The file of a new event is written, or not, or not all of it, if the disk
\* does not let it; no caller hears of it.
Log ==
  \/ /\ Len(events) < MaxEvents
     /\ \E time \in Times, place \in 1 .. Len(events) + 1 :
          events' = SX!InsertAt(events, place, time)
  \/ UNCHANGED events

-----------------------------------------------------------------------------
(* Properties.                                                             *)

\* GetRecent as a table, for TLC to compute once.
Recent == [dir \in SX!BoundedSeq(Times, MaxEvents) |->
             [limit \in 0 .. MaxLimit |-> GetRecent(dir, limit)]]

Since(s, time) == Cardinality({i \in DOMAIN s : s[i] >= time})

(* In whatever order the files have come, the listing is newest first, and *)
(* has as many of the events since any time as there are and the limit     *)
(* allows: none is lost or doubled by the exchanges, and none left out is  *)
(* newer than one that is listed.                                          *)
RecentIsNewest ==
  \A limit \in 0 .. MaxLimit :
    LET recent == Recent[events][limit]
    IN /\ \A i, j \in DOMAIN recent : i < j => recent[i] >= recent[j]
       /\ \A time \in Times :
            LET there == Since(events, time)
            IN Since(recent, time) =
                 IF limit > 0 /\ there > limit THEN limit ELSE there

(* One more event, wherever its file comes and however old it is, makes no *)
(* place of the listing older: nothing is pushed out but by something as   *)
(* new.                                                                    *)
LoggingKeepsNewer ==
  [][events' # events =>
       \A limit \in 0 .. MaxLimit :
         LET old == Recent[events][limit]
             new == Recent[events'][limit]
         IN /\ DOMAIN old \subseteq DOMAIN new
            /\ \A i \in DOMAIN old : new[i] >= old[i]]_events
=============================================================================
