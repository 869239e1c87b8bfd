------------------------------ MODULE Gateway ------------------------------
(***************************************************************************)
(* The gateway: gateway.Proxy looks up the deployment that a chat request  *)
(* names among the records, which handlers and the health scheduler keep   *)
(* writing, and forwards the request to the record's host and port.        *)
(*                                                                         *)
(* Proxy only reads, so it is composed with Records, what the control      *)
(* plane promises to readers; and with the servers, which come and go as   *)
(* they please.  Reads may fail, and connections break or take too long.   *)
(* Nothing makes the names of deployments unique, nor their addresses (a   *)
(* record created without a host gets "0.0.0.0", which from here is the    *)
(* control plane's own machine).                                           *)
(***************************************************************************)
EXTENDS Records, Naturals

CONSTANTS
  Clients,    \* the goroutines that serve ChatCompletions
  Names,      \* the names that requests may ask for
  NameOf,     \* Deployment.Name
  AddressOf,  \* Deployment.Host and Port: what is dialled
  BindsAt,    \* the address at which the server of a deployment is reached
  Rank,       \* the place of each id in the order of file names
  Faults      \* "disk": a read may fail; "network": a connection may break,
              \* or bring nothing for 120 seconds

ASSUME GatewayAssumption ==
  /\ NameOf \in [Deployments -> Names]
  /\ DOMAIN AddressOf = Deployments /\ DOMAIN BindsAt = Deployments
  /\ Rank \in [Deployments -> Nat]
  /\ \A d, e \in Deployments : Rank[d] = Rank[e] => d = e
  /\ "none" \notin Names \cup Deployments
  /\ Faults \subseteq {"disk", "network"}

VARIABLES
  serving,  \* the deployments whose server listens
  at,       \* where each client's request is
  asked,    \* the name it asks for
  target,   \* the deployment whose address it is forwarded to
  by,       \* history: the deployment whose server is dialled for it
  missed,   \* history: the records of its name that could not be read for it
  steady    \* history: the deployments that have been good ever since it came

vars == <<rec, executed, serving, at, asked, target, by, missed, steady>>

Readable(d) == rec[d] \notin Unreadable
Goto(q, label) == at' = [at EXCEPT ![q] = label]

\* Who listens at the address of d: its own server, another one, or nobody.
Listeners(d) == {e \in serving : BindsAt[e] = AddressOf[d]}

-----------------------------------------------------------------------------
(* What Proxy reads.                                                       *)

\* The records of name n that parse.
Candidates(n) == {d \in Deployments : Readable(d) /\ NameOf[d] = n}

\* Those whose file GetAll may fail to read: it skips them.
Misses(n) == IF "disk" \in Faults THEN SUBSET Candidates(n) ELSE {{}}

MutantFirst(s) ==  \* the loop without its break
  {d \in s : \A e \in s : Rank[e] <= Rank[d]}

\* The one of s that the loop stops at, if any.
First(s) == {d \in s : \A e \in s : Rank[d] <= Rank[e]}

-----------------------------------------------------------------------------
(* POST /v1/chat/completions                                               *)

\* The body of the request is read and parsed.
Arrive(q, n) ==
  /\ at[q] = "idle"
  /\ asked' = [asked EXCEPT ![q] = n]
  /\ Goto(q, "lookup")
  /\ UNCHANGED <<rec, executed, serving, target, by, missed>>

MutantLookup(q) ==  \* a name found is forwarded, whatever its status
  /\ at[q] = "lookup"
  /\ \E m \in Misses(asked[q]) :
       LET chosen == First(Candidates(asked[q]) \ m)
       IN /\ missed' = [missed EXCEPT ![q] = m]
          /\ \/ \E d \in chosen :
                  /\ target' = [target EXCEPT ![q] = d]
                  /\ Goto(q, "forward")
             \/ /\ chosen = {}
                /\ Goto(q, "refused")
                /\ UNCHANGED target
  /\ UNCHANGED <<rec, executed, serving, asked, by>>

\* GetAll, and the loop over the copies it returns; 503 unless the first of
\* the name is running.
Lookup(q) ==
  /\ at[q] = "lookup"
  /\ \E m \in Misses(asked[q]) :
       LET chosen == First(Candidates(asked[q]) \ m)
       IN /\ missed' = [missed EXCEPT ![q] = m]
          /\ \/ \E d \in chosen :
                  /\ rec[d] = "running"
                  /\ target' = [target EXCEPT ![q] = d]
                  /\ Goto(q, "forward")
             \/ /\ \A d \in chosen : rec[d] # "running"
                /\ Goto(q, "refused")
                /\ UNCHANGED target
  /\ UNCHANGED <<rec, executed, serving, asked, by>>

\* GetAll fails since the directory cannot be read: 500.
LookupFails(q) ==
  /\ at[q] = "lookup"
  /\ "disk" \in Faults
  /\ missed' = [missed EXCEPT ![q] = Candidates(asked[q])]
  /\ Goto(q, "refused")
  /\ UNCHANGED <<rec, executed, serving, asked, target, by>>

\* The address is dialled and the request sent, or 503.
Forward(q) ==
  /\ at[q] = "forward"
  /\ \/ \E e \in Listeners(target[q]) :
          /\ by' = [by EXCEPT ![q] = e]
          /\ Goto(q, "await")
     \/ /\ Listeners(target[q]) = {}
        /\ Goto(q, "refused")
        /\ UNCHANGED by
  /\ UNCHANGED <<rec, executed, serving, asked, target, missed>>

MutantAwait(q) ==  \* a connection that breaks is not answered
  /\ at[q] = "await"
  /\ Goto(q, IF by[q] \in serving THEN "answered" ELSE "broken")
  /\ UNCHANGED <<rec, executed, serving, asked, target, by, missed>>

\* The status and the body that come back are passed on, whatever they say
\* (and however much of the body comes); a server that ends before gives 503.
Await(q) ==
  /\ at[q] = "await"
  /\ Goto(q, IF by[q] \in serving THEN "answered" ELSE "refused")
  /\ UNCHANGED <<rec, executed, serving, asked, target, by, missed>>

\* So does the client's time limit, which runs while it dials, sends and
\* waits, and a broken connection, however well the server is.
TimeOut(q) ==
  /\ at[q] = "await"
  /\ "network" \in Faults
  /\ Goto(q, "lost")
  /\ UNCHANGED <<rec, executed, serving, asked, target, by, missed>>

Reply(q) ==
  /\ at[q] \in {"answered", "refused", "lost"}
  /\ Goto(q, "idle")
  /\ asked' = [asked EXCEPT ![q] = "none"]
  /\ target' = [target EXCEPT ![q] = "none"]
  /\ by' = [by EXCEPT ![q] = "none"]
  /\ missed' = [missed EXCEPT ![q] = {}]
  /\ UNCHANGED <<rec, executed, serving>>

-----------------------------------------------------------------------------
(* The rest of the world.                                                  *)

ControlPlaneStep ==
  /\ RecordsNext
  /\ UNCHANGED <<serving, at, asked, target, by, missed>>

\* Of two servers with one address only one can listen.  A server serves
\* only if its commands have run.
ServerStarts(d) ==
  /\ d \in executed
  /\ \A e \in serving : BindsAt[e] # BindsAt[d]
  /\ serving' = serving \cup {d}
  /\ UNCHANGED <<rec, executed, at, asked, target, by, missed>>

ServerEnds(d) ==
  /\ d \in serving
  /\ serving' = serving \ {d}
  /\ UNCHANGED <<rec, executed, at, asked, target, by, missed>>

\* The process of the control plane, and with it every request, is gone.
Crash ==
  /\ at' = [q \in Clients |-> "idle"]
  /\ asked' = [q \in Clients |-> "none"]
  /\ target' = [q \in Clients |-> "none"]
  /\ by' = [q \in Clients |-> "none"]
  /\ missed' = [q \in Clients |-> {}]
  /\ UNCHANGED <<rec, executed, serving>>

-----------------------------------------------------------------------------
\* The deployments that requests for their names ought to reach: the first
\* of the name, recorded running, its own server listening at its address.
Good == {d \in Deployments :
           /\ \A e \in Deployments :
                NameOf[e] = NameOf[d] /\ Readable(e) => Rank[d] <= Rank[e]
           /\ rec[d] = "running"
           /\ d \in Listeners(d)}

Watch ==
  steady' = [q \in Clients |->
    {d \in Good' : /\ NameOf[d] = asked'[q]
                   /\ d \in steady[q] \/ at[q] = "idle"}]

Init ==
  /\ RecordsInit
  /\ serving = {}
  /\ at = [q \in Clients |-> "idle"]
  /\ asked = [q \in Clients |-> "none"]
  /\ target = [q \in Clients |-> "none"]
  /\ by = [q \in Clients |-> "none"]
  /\ missed = [q \in Clients |-> {}]
  /\ steady = [q \in Clients |-> {}]

GatewayStep(q) ==
  Lookup(q) \/ LookupFails(q) \/ Forward(q) \/ Await(q) \/ TimeOut(q) \/ Reply(q)

Next ==
  /\ \/ ControlPlaneStep
     \/ \E d \in Deployments : ServerStarts(d) \/ ServerEnds(d)
     \/ \E q \in Clients, n \in Names : Arrive(q, n)
     \/ \E q \in Clients : GatewayStep(q)
     \/ Crash
  /\ Watch

Spec == Init /\ [][Next]_vars

-----------------------------------------------------------------------------
(* Properties.                                                             *)

TypeOK ==
  /\ rec \in [Deployments -> Contents \cup {"absent"}]
  /\ executed \subseteq Deployments
  /\ serving \subseteq Deployments
  /\ at \in [Clients -> {"idle", "lookup", "forward", "await", "answered", "refused", "lost"}]
  /\ asked \in [Clients -> Names \cup {"none"}]
  /\ target \in [Clients -> Deployments \cup {"none"}]
  /\ by \in [Clients -> Deployments \cup {"none"}]
  /\ missed \in [Clients -> SUBSET Deployments]
  /\ steady \in [Clients -> SUBSET Deployments]

(* A chat request is only ever sent to the address of a deployment of the  *)
(* name it asks for whose start commands have run, whatever is written,    *)
(* deleted or left torn meanwhile.                                         *)
ForwardedWasStarted ==
  \A q \in Clients :
    target[q] # "none" => target[q] \in executed /\ NameOf[target[q]] = asked[q]

(* If the first deployment of a name is recorded running, and its own      *)
(* server listens at its address, all the while a request for the name is  *)
(* served, then that server is dialled, whatever happens to other records, *)
(* readable or not, of that name or that address; and the request is       *)
(* answered unless its time runs out or its connection breaks.  The one    *)
(* exception is that this very record could not be read, alone or with the *)
(* directory: then the request is refused, or goes to another of the name. *)
RefusalJustified ==
  \A q \in Clients :
    /\ at[q] = "refused" => steady[q] \subseteq missed[q]
    /\ at[q] \in {"answered", "lost"} => steady[q] \subseteq missed[q] \cup {by[q]}
=============================================================================
