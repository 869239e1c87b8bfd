------------------------ MODULE LoggedGateway_proofs ------------------------
(***************************************************************************)
(* TLAPS proofs of the properties of Gateway and of EventLog, and so of    *)
(* the two together: for any number of records, names, addresses, requests *)
(* and events.                                                             *)
(*                                                                         *)
(* What makes RefusalJustified hold lasts over several steps: the          *)
(* deployment that has been good since the request came is the one that    *)
(* Lookup chooses if it reads its record, whatever others it reads; still  *)
(* the one that Forward reaches, and alone at its address.  Steady says so *)
(* for each place a request can be at.                                     *)
(*                                                                         *)
(* What the two loops of Sort come to is shown by induction over their     *)
(* counters: Iterated gives the listings a loop comes to one after the     *)
(* other, and Induct what holds of all of them, both from the fact that a  *)
(* set of numbers has a least one.                                         *)
(***************************************************************************)
EXTENDS LoggedGateway, TLAPS, FiniteSetTheorems, WellFoundedInduction

\* A server has an address for itself.
Alone == \A d, e \in serving : BindsAt[d] = BindsAt[e] => d = e

\* The deployments that have been good are good, and on the request's way
\* unless their records were not read.
Steady(q) ==
  /\ steady[q] \subseteq {d \in Good : NameOf[d] = asked[q]}
  /\ at[q] = "forward" => steady[q] \subseteq missed[q] \cup {target[q]}
  /\ at[q] \in {"await", "answered", "lost"} => steady[q] \subseteq missed[q] \cup {by[q]}
  /\ at[q] = "refused" => steady[q] \subseteq missed[q]

\* Recorded running, so its commands have run.
StatusEarned == \A d \in Deployments : rec[d] \in Earned => d \in executed

\* Where there is a target.
Targeted(q) == at[q] \in {"idle", "lookup"} => target[q] = "none"

IInv ==
  /\ TypeOK
  /\ Alone
  /\ StatusEarned
  /\ ForwardedWasStarted
  /\ \A q \in Clients : Targeted(q) /\ Steady(q)

-----------------------------------------------------------------------------
LEMMA InitInv == Init => IInv
BY GatewayAssumption
   DEF Init, RecordsInit, IInv, TypeOK, Alone, StatusEarned, Earned, ForwardedWasStarted,
       Targeted, Steady

(* The first of a listing is one at most.                                  *)
LEMMA FirstIsOne ==
  ASSUME NEW s \in SUBSET Deployments, NEW d \in First(s), NEW e \in First(s)
  PROVE  d = e
<1>1. d \in Deployments /\ e \in Deployments /\ Rank[d] \in Nat /\ Rank[e] \in Nat
  BY GatewayAssumption DEF First
<1>2. Rank[d] <= Rank[e] /\ Rank[e] <= Rank[d]
  BY DEF First
<1> QED BY <1>1, <1>2, GatewayAssumption

(* A good deployment is the first of its name in every listing that has it *)
(* and is running.                                                         *)
LEMMA GoodIsFirst ==
  ASSUME NEW d \in Good
  PROVE  /\ d \in Deployments
         /\ \A s \in SUBSET Candidates(NameOf[d]) : d \in s => d \in First(s)
         /\ d \in Candidates(NameOf[d])
         /\ rec[d] = "running"
         /\ d \in serving
         /\ BindsAt[d] = AddressOf[d]
BY DEF Good, First, Candidates, Readable, Unreadable, Listeners

-----------------------------------------------------------------------------
(* The types, and what holds of servers and records.                       *)
LEMMA WorldStep ==
  ASSUME IInv, [Next]_vars
  PROVE  TypeOK' /\ Alone' /\ StatusEarned'
<1> USE GatewayAssumption
<1>1. CASE UNCHANGED vars
  BY <1>1 DEF IInv, vars, TypeOK, Alone, StatusEarned
<1>2. CASE Next
  <2>1. steady' \in [Clients -> SUBSET Deployments]
    BY <1>2 DEF Next, Watch, Good
  <2>2. CASE ControlPlaneStep
    <3>1. PICK d \in Deployments : RunCommands(d) \/ \E s \in Contents : Write(d, s)
      BY <2>2 DEF ControlPlaneStep, RecordsNext
    <3>2. /\ rec' \in [Deployments -> Contents \cup {"absent"}]
          /\ executed' \subseteq Deployments
      BY <3>1 DEF IInv, TypeOK, RunCommands, Write
    <3>3. StatusEarned'
      BY <3>1 DEF IInv, TypeOK, StatusEarned, RunCommands, Write
    <3> QED BY <2>1, <2>2, <3>2, <3>3 DEF IInv, ControlPlaneStep, TypeOK, Alone
  <2>3. CASE \E d \in Deployments : ServerStarts(d) \/ ServerEnds(d)
    BY <2>1, <2>3 DEF IInv, TypeOK, Alone, StatusEarned, ServerStarts, ServerEnds
  <2>4. CASE \E q \in Clients, n \in Names : Arrive(q, n)
    BY <2>1, <2>4 DEF IInv, TypeOK, Alone, StatusEarned, Arrive, Goto
  <2>5. CASE \E q \in Clients : GatewayStep(q)
    <3>1. PICK q \in Clients :
             Lookup(q) \/ LookupFails(q) \/ Forward(q) \/ Await(q) \/ TimeOut(q) \/ Reply(q)
      BY <2>5 DEF GatewayStep
    <3>2. UNCHANGED <<rec, executed, serving>>
      BY <3>1 DEF Lookup, LookupFails, Forward, Await, TimeOut, Reply
    <3>3. /\ at' \in [Clients -> {"idle", "lookup", "forward", "await", "answered", "refused",
                                  "lost"}]
          /\ asked' \in [Clients -> Names \cup {"none"}]
      BY <3>1 DEF IInv, TypeOK, Lookup, LookupFails, Forward, Await, TimeOut, Reply, Goto
    <3>4. /\ target' \in [Clients -> Deployments \cup {"none"}]
          /\ by' \in [Clients -> Deployments \cup {"none"}]
      BY <3>1 DEF IInv, TypeOK, Lookup, LookupFails, Forward, Await, TimeOut, Reply, First,
         Candidates, Listeners
    <3>5. missed' \in [Clients -> SUBSET Deployments]
      <4>1. Candidates(asked[q]) \subseteq Deployments
        BY DEF Candidates
      <4>2. \A m \in Misses(asked[q]) : m \in SUBSET Deployments
        BY <4>1 DEF Misses
      <4>3. \/ missed' = missed
            \/ \E m \in SUBSET Deployments : missed' = [missed EXCEPT ![q] = m]
        <5>1. CASE Lookup(q)
          BY <4>2, <5>1 DEF Lookup
        <5>2. CASE LookupFails(q) \/ Reply(q)
          BY <4>1, <5>2 DEF LookupFails, Reply
        <5> QED BY <3>1, <5>1, <5>2 DEF Forward, Await, TimeOut
      <4> QED BY <4>3 DEF IInv, TypeOK
    <3> QED BY <2>1, <3>2, <3>3, <3>4, <3>5 DEF IInv, TypeOK, Alone, StatusEarned
  <2>6. CASE Crash
    BY <2>1, <2>6 DEF IInv, TypeOK, Alone, StatusEarned, Crash
  <2> QED BY <1>2, <2>2, <2>3, <2>4, <2>5, <2>6 DEF Next
<1> QED BY <1>1, <1>2

(* Only Lookup gives a request a target, a deployment that is running.     *)
LEMMA TargetStep ==
  ASSUME IInv, [Next]_vars
  PROVE  ForwardedWasStarted' /\ \A q \in Clients : Targeted(q)'
<1> USE GatewayAssumption
<1>1. executed \subseteq executed'
  BY DEF Next, vars, ControlPlaneStep, RecordsNext, RunCommands, Write, ServerStarts,
         ServerEnds, Arrive, GatewayStep, Lookup, LookupFails, Forward, Await, TimeOut, Reply,
         Crash
<1>2. CASE UNCHANGED <<at, asked, target>>
  BY <1>1, <1>2 DEF IInv, ForwardedWasStarted, Targeted
<1>3. ASSUME NEW q \in Clients, NEW n \in Names, Arrive(q, n)
      PROVE  ForwardedWasStarted' /\ \A r \in Clients : Targeted(r)'
  <2>1. target[q] = "none"
    BY <1>3 DEF IInv, Arrive, Targeted
  <2> QED BY <1>1, <1>3, <2>1 DEF IInv, TypeOK, Arrive, Goto, ForwardedWasStarted, Targeted
<1>4. ASSUME NEW q \in Clients, Lookup(q)
      PROVE  ForwardedWasStarted' /\ \A r \in Clients : Targeted(r)'
  <2>1. ASSUME NEW m, NEW d \in First(Candidates(asked[q]) \ m), rec[d] = "running"
        PROVE  d \in executed /\ NameOf[d] = asked[q]
    BY <2>1 DEF IInv, StatusEarned, Earned, First, Candidates
  <2>2. \A r \in Clients : Targeted(r)'
    BY <1>4 DEF IInv, TypeOK, Lookup, Goto, Targeted
  <2>3. /\ asked' = asked
        /\ \/ target' = target
           \/ \E d \in executed : NameOf[d] = asked[q] /\ target' = [target EXCEPT ![q] = d]
    BY <1>4, <2>1 DEF Lookup
  <2> QED BY <1>1, <2>2, <2>3 DEF IInv, TypeOK, ForwardedWasStarted
<1>5. ASSUME NEW q \in Clients,
             LookupFails(q) \/ Forward(q) \/ Await(q) \/ TimeOut(q) \/ Reply(q)
      PROVE  ForwardedWasStarted' /\ \A r \in Clients : Targeted(r)'
  BY <1>1, <1>5 DEF IInv, TypeOK, LookupFails, Forward, Await, TimeOut, Reply, Goto,
     ForwardedWasStarted, Targeted
<1>6. CASE Crash
  BY <1>6 DEF Crash, ForwardedWasStarted, Targeted
<1> QED BY <1>2, <1>3, <1>4, <1>5, <1>6
     DEF Next, vars, ControlPlaneStep, ServerStarts, ServerEnds, GatewayStep

-----------------------------------------------------------------------------
(* A deployment that has been good so far was good before the step, unless *)
(* the request has just come.                                              *)
LEMMA SteadyBefore ==
  ASSUME IInv, Next, NEW q \in Clients, at[q] # "idle"
  PROVE  steady'[q] \subseteq steady[q]
BY DEF Next, Watch

(* A step of one request leaves the others where they are.                 *)
LEMMA OthersStay ==
  ASSUME IInv, NEW q \in Clients, NEW r \in Clients, r # q, GatewayStep(r)
  PROVE  /\ at'[q] = at[q] /\ target'[q] = target[q]
         /\ by'[q] = by[q] /\ missed'[q] = missed[q]
<1>1. CASE Lookup(r)
  BY <1>1 DEF IInv, TypeOK, Lookup, Goto
<1>2. CASE LookupFails(r)
  BY <1>2 DEF IInv, TypeOK, LookupFails, Goto
<1>3. CASE Forward(r)
  BY <1>3 DEF IInv, TypeOK, Forward, Goto
<1>4. CASE Await(r) \/ TimeOut(r)
  BY <1>4 DEF IInv, TypeOK, Await, TimeOut, Goto
<1>5. CASE Reply(r)
  BY <1>5 DEF IInv, TypeOK, Reply, Goto
<1> QED BY <1>1, <1>2, <1>3, <1>4, <1>5 DEF GatewayStep

LEMMA SteadyStep ==
  ASSUME IInv, TypeOK', [Next]_vars, NEW q \in Clients
  PROVE  Steady(q)'
<1> USE GatewayAssumption
<1>1. CASE UNCHANGED vars
  BY <1>1 DEF IInv, vars, Steady, Good, Readable, Listeners
<1> SUFFICES ASSUME Next PROVE Steady(q)'
  BY <1>1
<1>2. steady'[q] \subseteq {d \in Good' : NameOf[d] = asked'[q]}
  BY DEF Next, Watch
<1>3. CASE at[q] = "idle"
  <2>1. ~GatewayStep(q)
    BY <1>3 DEF GatewayStep, Lookup, LookupFails, Forward, Await, TimeOut, Reply
  <2>2. CASE \E r \in Clients : GatewayStep(r)
    BY <1>2, <1>3, <2>1, <2>2, OthersStay DEF Steady
  <2>3. CASE ~ \E r \in Clients : GatewayStep(r)
    <3>1. at'[q] \in {"idle", "lookup"}
      BY <1>3, <2>3 DEF IInv, TypeOK, Next, ControlPlaneStep, ServerStarts, ServerEnds, Arrive,
         Crash, Goto
    <3> QED BY <1>2, <3>1 DEF Steady
  <2> QED BY <2>2, <2>3
<1>4. CASE /\ at[q] # "idle" /\ at'[q] = at[q]
           /\ target'[q] = target[q] /\ by'[q] = by[q] /\ missed'[q] = missed[q]
  BY <1>2, <1>4, SteadyBefore DEF IInv, Steady
<1>5. CASE at[q] # "idle" /\ Lookup(q)
  <2>1. PICK m \in Misses(asked[q]) :
           /\ missed' = [missed EXCEPT ![q] = m]
           /\ \/ /\ \E d \in First(Candidates(asked[q]) \ m) : target' = [target EXCEPT ![q] = d]
                 /\ Goto(q, "forward")
              \/ /\ \A d \in First(Candidates(asked[q]) \ m) : rec[d] # "running"
                 /\ Goto(q, "refused")
    BY <1>5 DEF Lookup
  <2> DEFINE listed == Candidates(asked[q]) \ m
  <2>2. listed \in SUBSET Candidates(asked[q]) /\ listed \in SUBSET Deployments
    BY DEF Candidates
  <2>3. ASSUME NEW d \in steady[q], d \notin m
        PROVE  d \in First(listed) /\ rec[d] = "running"
    BY <2>2, <2>3, GoodIsFirst DEF IInv, Steady
  <2>4. missed'[q] = m /\ \A label : Goto(q, label) => at'[q] = label
    BY <2>1 DEF IInv, TypeOK, Goto
  <2>5. \/ /\ \E d \in First(listed) : target' = [target EXCEPT ![q] = d]
           /\ at'[q] = "forward"
        \/ /\ \A d \in First(listed) : rec[d] # "running"
           /\ at'[q] = "refused"
    BY <2>1, <2>4
  <2> HIDE DEF listed
  <2>6. CASE at'[q] = "refused"
    <3>1. \A d \in First(listed) : rec[d] # "running"
      BY <2>5, <2>6
    <3>2. steady[q] \subseteq m
      BY <2>3, <3>1
    <3> QED BY <1>2, <1>5, <2>4, <2>6, <3>2, SteadyBefore DEF Steady
  <2>7. CASE at'[q] = "forward"
    <3>1. PICK d \in First(listed) : target' = [target EXCEPT ![q] = d]
      BY <2>5, <2>7
    <3>2. target'[q] = d
      BY <3>1 DEF IInv, TypeOK
    <3>3. steady[q] \subseteq m \cup {target'[q]}
      BY <2>2, <2>3, <3>2, FirstIsOne
    <3> QED BY <1>2, <1>5, <2>4, <2>7, <3>3, SteadyBefore DEF Steady
  <2> QED BY <2>5, <2>6, <2>7
<1>6. CASE at[q] # "idle" /\ LookupFails(q)
  <2>1. at'[q] = "refused" /\ missed'[q] = Candidates(asked[q])
    BY <1>6 DEF IInv, TypeOK, LookupFails, Goto
  <2>2. steady[q] \subseteq Candidates(asked[q])
    BY GoodIsFirst DEF IInv, Steady
  <2> QED BY <1>2, <1>6, <2>1, <2>2, SteadyBefore DEF Steady
<1>7. CASE at[q] # "idle" /\ Forward(q)
  <2>1. ASSUME NEW d \in steady[q], d \notin missed[q]
        PROVE  d = target[q] /\ d \in serving /\ BindsAt[d] = AddressOf[d]
    BY <1>7, <2>1, GoodIsFirst DEF IInv, Steady, Forward
  <2>2. ASSUME NEW d \in steady[q], d \notin missed[q], NEW e \in Listeners(target[q])
        PROVE  d = e
    BY <2>1, <2>2 DEF IInv, Alone, Listeners
  <2>3. ASSUME NEW d \in steady[q], d \notin missed[q]
        PROVE  d \in Listeners(target[q])
    BY <2>1, <2>3 DEF Listeners
  <2>4. /\ missed'[q] = missed[q]
        /\ \/ at'[q] = "await" /\ steady[q] \subseteq missed[q] \cup {by'[q]}
           \/ at'[q] = "refused" /\ steady[q] \subseteq missed[q]
    BY <1>7, <2>2, <2>3 DEF IInv, TypeOK, Forward, Goto
  <2> QED BY <1>2, <1>7, <2>4, SteadyBefore DEF Steady
<1>8. CASE at[q] # "idle" /\ (Await(q) \/ TimeOut(q))
  <2>1. ASSUME NEW d \in steady[q], d \notin missed[q]
        PROVE  d = by[q] /\ d \in serving
    BY <1>8, <2>1, GoodIsFirst DEF IInv, Steady, Await, TimeOut
  <2>2. /\ missed'[q] = missed[q]
        /\ \/ at'[q] \in {"answered", "lost"} /\ by'[q] = by[q]
           \/ at'[q] = "refused" /\ steady[q] \subseteq missed[q]
    BY <1>8, <2>1 DEF IInv, TypeOK, Await, TimeOut, Goto
  <2>3. steady[q] \subseteq missed[q] \cup {by[q]}
    BY <2>1
  <2> QED BY <1>2, <1>8, <2>2, <2>3, SteadyBefore DEF Steady
<1>9. CASE Reply(q) \/ Crash
  <2>1. at'[q] = "idle"
    BY <1>9 DEF IInv, TypeOK, Reply, Crash, Goto
  <2> QED BY <1>2, <2>1 DEF Steady
<1>10. CASE \E r \in Clients : (r # q \/ at[q] = "idle") /\ GatewayStep(r)
  BY <1>3, <1>4, <1>10, OthersStay
<1>11. CASE \E r \in Clients, n \in Names : Arrive(r, n)
  BY <1>3, <1>4, <1>11 DEF IInv, TypeOK, Arrive, Goto
<1>12. CASE ControlPlaneStep \/ \E d \in Deployments : ServerStarts(d) \/ ServerEnds(d)
  BY <1>3, <1>4, <1>12 DEF ControlPlaneStep, ServerStarts, ServerEnds
<1> QED BY <1>5, <1>6, <1>7, <1>8, <1>9, <1>10, <1>11, <1>12 DEF Next, GatewayStep

LEMMA NextInv == IInv /\ [Next]_vars => IInv'
BY WorldStep, TargetStep, SteadyStep DEF IInv

LEMMA Invariance == Spec => []IInv
BY InitInv, NextInv, PTL DEF Spec

-----------------------------------------------------------------------------
(* The types hold in every reachable state.                                *)
THEOREM GatewayTypeCorrect == Spec => []TypeOK
<1>1. IInv => TypeOK
  BY DEF IInv
<1> QED BY <1>1, Invariance, PTL

(* A chat request only goes to a deployment of the name it asks for whose  *)
(* start commands have run.                                                *)
THEOREM OnlyStartedIsAsked == Spec => []ForwardedWasStarted
<1>1. IInv => ForwardedWasStarted
  BY DEF IInv
<1> QED BY <1>1, Invariance, PTL

(* A request whose deployment is well all the while, and whose record is   *)
(* read, is sent to it, and answered unless it takes too long or the       *)
(* connection breaks.                                                      *)
THEOREM RefusalsAreJustified == Spec => []RefusalJustified
<1>1. IInv => RefusalJustified
  BY DEF IInv, Steady, RefusalJustified
<1> QED BY <1>1, Invariance, PTL

-----------------------------------------------------------------------------
(* A set of natural numbers that is not empty has a least element.         *)
LEMMA Least ==
  ASSUME NEW T \in SUBSET Nat, T # {}
  PROVE  \E x \in T : \A y \in T : x <= y
<1>1. PICK x \in T : \A y \in T : ~ (<<y, x>> \in OpToRel(<, Nat))
  BY NatLessThanWellFounded, WFMin
<1>2. \A y \in T : ~ (y < x)
  BY <1>1 DEF OpToRel
<1> QED BY <1>2

(* Induction from a to b, in terms of the set of numbers it is true of.    *)
LEMMA Induct ==
  ASSUME NEW a \in Int, NEW b \in Int, NEW T, a <= b => a \in T,
         \A k \in a .. b - 1 : k \in T => k + 1 \in T
  PROVE  a .. b \subseteq T
<1> DEFINE bad == {n \in Nat : a + n \in (a .. b) \ T}
<1> SUFFICES ASSUME bad # {} PROVE FALSE
  <2> SUFFICES ASSUME NEW x \in a .. b, x \notin T PROVE bad # {}
    OBVIOUS
  <2> x - a \in bad
    OBVIOUS
  <2> QED OBVIOUS
<1>1. PICK n \in bad : \A y \in bad : n <= y
  BY Least
<1>2. n # 0
  OBVIOUS
<1>3. n - 1 \notin bad
  BY <1>1
<1>4. n - 1 \in Nat /\ a + (n - 1) \in a .. b - 1
  BY <1>2
<1>5. a + (n - 1) \in T
  BY <1>3, <1>4
<1> QED BY <1>4, <1>5

\* f is x at a, and up to b comes from its value before by G.
Iterates(f, x, G, a, b) == f[a] = x /\ \A k \in a + 1 .. b : f[k] = G[<<k, f[k - 1]>>]

(* A function that is given at a, and at k in terms of k and its value at  *)
(* k - 1, exists: G is what it does with the two.                          *)
LEMMA Iterated ==
  ASSUME NEW a \in Int, NEW b \in Int, a <= b, NEW S, NEW x \in S, NEW G,
         \A k \in a + 1 .. b, y \in S : G[<<k, y>>] \in S
  PROVE  \E f \in [a .. b -> S] : Iterates(f, x, G, a, b)
<1> DEFINE Solves(f, m) == f[a] = x /\ \A k \in a + 1 .. m : f[k] = G[<<k, f[k - 1]>>]
           T == {m \in a .. b : \E f \in [a .. m -> S] : Solves(f, m)}
<1>1. a \in T
  <2> DEFINE f == [k \in a .. a |-> x]
  <2>1. f \in [a .. a -> S] /\ Solves(f, a)
    OBVIOUS
  <2> HIDE DEF f, Solves
  <2> QED BY <2>1
<1>2. ASSUME NEW m \in a .. b - 1, m \in T
      PROVE  m + 1 \in T
  <2>1. PICK f \in [a .. m -> S] : Solves(f, m)
    BY <1>2
  <2> DEFINE g == [k \in a .. m + 1 |-> IF k = m + 1 THEN G[<<k, f[m]>>] ELSE f[k]]
  <2>2. g \in [a .. m + 1 -> S]
    OBVIOUS
  <2>3. ASSUME NEW k \in a + 1 .. m + 1
        PROVE  g[k] = G[<<k, g[k - 1]>>]
    <3>1. CASE k = m + 1
      <4>1. g[k] = G[<<k, f[m]>>] /\ g[m] = f[m] /\ k - 1 = m
        BY <3>1
      <4> QED BY <4>1
    <3>2. CASE k \in a + 1 .. m
      <4>1. f[k] = G[<<k, f[k - 1]>>]
        BY <2>1, <3>2
      <4>2. g[k] = f[k] /\ g[k - 1] = f[k - 1]
        BY <3>2
      <4> HIDE DEF g
      <4> QED BY <4>1, <4>2
    <3> QED BY <3>1, <3>2
  <2>4. g[a] = x
    BY <2>1
  <2>5. Solves(g, m + 1)
    BY <2>3, <2>4
  <2> HIDE DEF g, Solves
  <2> QED BY <2>2, <2>5
<1>3. \A m \in a .. b - 1 : m \in T => m + 1 \in T
  BY <1>2
<1> HIDE DEF T
<1>4. a .. b \subseteq T
  BY <1>1, <1>3, Induct
<1>5. b \in T
  BY <1>4
<1> QED BY <1>5 DEF T, Iterates

-----------------------------------------------------------------------------
\* What is at k after an exchange of i and j.
Swapped(s, i, j, k) ==
  IF s[j] > s[i] THEN IF k = i THEN s[j] ELSE IF k = j THEN s[i] ELSE s[k] ELSE s[k]

(* An exchange gives a listing of the same length.                         *)
LEMMA ExchangeIs ==
  ASSUME NEW V \in SUBSET Nat, NEW n \in Nat, NEW s \in [1 .. n -> V],
         NEW i \in 1 .. n, NEW j \in 1 .. n, i # j
  PROVE  /\ Exchange(s, i, j) \in [1 .. n -> V]
         /\ \A k \in 1 .. n : Exchange(s, i, j)[k] = Swapped(s, i, j, k)
<1>1. Exchange(s, i, j) \in [1 .. n -> V]
  <2>1. s[i] \in V /\ s[j] \in V
    OBVIOUS
  <2> QED BY <2>1 DEF Exchange
<1>2. ASSUME NEW k \in 1 .. n
      PROVE  Exchange(s, i, j)[k] = Swapped(s, i, j, k)
  BY DEF Exchange, Swapped
<1> QED BY <1>1, <1>2

(* And loses and doubles none.                                             *)
LEMMA ExchangeKeepsSince ==
  ASSUME NEW V \in SUBSET Nat, NEW n \in Nat, NEW s \in [1 .. n -> V],
         NEW i \in 1 .. n, NEW j \in 1 .. n, i # j, NEW time \in Nat
  PROVE  Since(Exchange(s, i, j), time) = Since(s, time)
<1> DEFINE r == Exchange(s, i, j)
           A == {k \in 1 .. n : s[k] >= time}
           B == {k \in 1 .. n : r[k] >= time}
           f == [k \in A |-> IF s[j] > s[i] THEN IF k = i THEN j ELSE IF k = j THEN i ELSE k
                                            ELSE k]
<1>1. DOMAIN s = 1 .. n /\ DOMAIN r = 1 .. n
  <2>1. r \in [1 .. n -> V]
    BY ExchangeIs
  <2> HIDE DEF r
  <2> QED BY <2>1
<1>2. ASSUME NEW k \in 1 .. n
      PROVE  r[k] = Swapped(s, i, j, k)
  BY DEF Exchange, Swapped
<1>3. IsFiniteSet(A)
  BY FS_Interval, FS_Subset
<1>4. f \in [A -> B]
  <2> HIDE DEF r
  <2> QED BY <1>2 DEF Swapped
<1>5. \A k, l \in A : f[k] = f[l] => k = l
  OBVIOUS
<1>6. \A l \in B : \E k \in A : f[k] = l
  <2> SUFFICES ASSUME NEW l \in B PROVE \E k \in A : f[k] = l
    OBVIOUS
  <2> DEFINE k == IF s[j] > s[i] THEN IF l = i THEN j ELSE IF l = j THEN i ELSE l ELSE l
  <2>1. k \in A /\ f[k] = l
    <3> HIDE DEF r
    <3> QED BY <1>2 DEF Swapped
  <2> QED BY <2>1
<1>7. f \in Bijection(A, B)
  <2> HIDE DEF f, A, B
  <2> QED BY <1>4, <1>5, <1>6 DEF Bijection, Injection, Surjection, IsInjective
<1>8. Cardinality(B) = Cardinality(A)
  <2> HIDE DEF f, A, B
  <2> QED BY <1>3, <1>7, FS_Bijection DEF ExistsBijection
<1> QED BY <1>1, <1>8 DEF Since

-----------------------------------------------------------------------------
\* The listings f[i] to f[n] that Pass(s, i) comes to.
PassBy(f, s, i, n) ==
  /\ Pass(s, i) = f[n]
  /\ f[i] = s
  /\ \A j \in i + 1 .. n : f[j] = Exchange(f[j - 1], i, j)

(* The inner loop of event i, as the listings it comes to.                 *)
LEMMA PassIs ==
  ASSUME NEW V \in SUBSET Nat, NEW n \in Nat, NEW s \in [1 .. n -> V], NEW i \in 1 .. n
  PROVE  \E f \in [i .. n -> [1 .. n -> V]] : PassBy(f, s, i, n)
<1> DEFINE Lists == [1 .. n -> V]
           G == [p \in (i + 1 .. n) \X Lists |-> Exchange(p[2], i, p[1])]
           upTo(f) == f = [j \in i .. Len(s) |-> IF j = i THEN s ELSE Exchange(f[j - 1], i, j)]
           Solves(f) == /\ f[i] = s
                        /\ \A j \in i + 1 .. n : f[j] = Exchange(f[j - 1], i, j)
           u == CHOOSE f : upTo(f)
<1>1. Len(s) = n
  OBVIOUS
<1>2. \A j \in i + 1 .. n, r \in Lists : Exchange(r, i, j) \in Lists
  <2> SUFFICES ASSUME NEW j \in i + 1 .. n, NEW r \in Lists PROVE Exchange(r, i, j) \in Lists
    OBVIOUS
  <2>1. j \in 1 .. n /\ i # j
    OBVIOUS
  <2> QED BY <2>1, ExchangeIs
<1>3. \A j \in i + 1 .. n, r \in Lists : G[<<j, r>>] = Exchange(r, i, j)
  OBVIOUS
<1>4. \E f \in [i .. n -> Lists] : Solves(f)
  <2>1. s \in Lists /\ i \in Int /\ n \in Int /\ i <= n
    OBVIOUS
  <2> HIDE DEF G, Lists
  <2>2. \A j \in i + 1 .. n, r \in Lists : G[<<j, r>>] \in Lists
    BY <1>2, <1>3
  <2>3. PICK f \in [i .. n -> Lists] : Iterates(f, s, G, i, n)
    BY <2>1, <2>2, Iterated
  <2>4. \A j \in i + 1 .. n : f[j - 1] \in Lists
    BY <2>1
  <2> QED BY <1>3, <2>3, <2>4 DEF Iterates
<1>5. \E f : upTo(f)
  <2> HIDE DEF Lists
  <2>1. PICK f \in [i .. n -> Lists] : Solves(f)
    BY <1>4
  <2>2. f = [j \in i .. n |-> IF j = i THEN s ELSE Exchange(f[j - 1], i, j)]
    <3>1. f = [j \in i .. n |-> f[j]]
      OBVIOUS
    <3>2. \A j \in i .. n : f[j] = IF j = i THEN s ELSE Exchange(f[j - 1], i, j)
      BY <2>1
    <3> QED BY <3>1, <3>2
  <2> QED BY <1>1, <2>2
<1>6. upTo(u)
  <2> HIDE DEF upTo
  <2> QED BY <1>5
<1> HIDE DEF u, G
<1>7. u = [j \in i .. n |-> IF j = i THEN s ELSE Exchange(u[j - 1], i, j)]
  BY <1>1, <1>6
<1>8. DOMAIN u = i .. n /\ Solves(u)
  BY <1>7
<1>9. i .. n \subseteq {j \in i .. n : u[j] \in Lists}
  <2> DEFINE T == {j \in i .. n : u[j] \in Lists}
  <2>1. u[i] \in Lists /\ i \in i .. n
    BY <1>8
  <2> HIDE DEF Lists
  <2>2. \A j \in i .. n - 1 : j \in T => j + 1 \in T
    <3> SUFFICES ASSUME NEW j \in i .. n - 1, u[j] \in Lists
                 PROVE  j + 1 \in i .. n /\ u[j + 1] \in Lists
      OBVIOUS
    <3>1. j + 1 \in i + 1 .. n /\ (j + 1) - 1 = j
      OBVIOUS
    <3>2. u[j + 1] = Exchange(u[j], i, j + 1)
      BY <1>8, <3>1
    <3> QED BY <1>2, <3>1, <3>2
  <2>3. i \in T
    BY <2>1
  <2> HIDE DEF T
  <2>4. i .. n \subseteq T
    BY <2>2, <2>3, Induct
  <2> QED BY <2>4 DEF T
<1>10. u \in [i .. n -> Lists]
  <2> HIDE DEF Lists
  <2>1. u = [j \in i .. n |-> u[j]]
    BY <1>7
  <2> QED BY <1>9, <2>1
<1>11. Pass(s, i) = u[n]
  BY <1>1 DEF Pass, u
<1> QED BY <1>8, <1>10, <1>11 DEF PassBy

\* The listings f[0] to f[n] that Sort(s) comes to.
SortBy(f, s, n) ==
  /\ Sort(s) = f[n]
  /\ f[0] = s
  /\ \A i \in 1 .. n : f[i] = Pass(f[i - 1], i)

(* The same of the outer loop.                                             *)
LEMMA SortIs ==
  ASSUME NEW V \in SUBSET Nat, NEW n \in Nat, NEW s \in [1 .. n -> V]
  PROVE  \E f \in [0 .. n -> [1 .. n -> V]] : SortBy(f, s, n)
<1> DEFINE Lists == [1 .. n -> V]
           G == [p \in (1 .. n) \X Lists |-> Pass(p[2], p[1])]
           after(f) == f = [i \in 0 .. Len(s) |-> IF i = 0 THEN s ELSE Pass(f[i - 1], i)]
           Solves(f) == f[0] = s /\ \A i \in 1 .. n : f[i] = Pass(f[i - 1], i)
           u == CHOOSE f : after(f)
<1>1. Len(s) = n
  OBVIOUS
<1>2. \A i \in 1 .. n, r \in Lists : Pass(r, i) \in Lists
  <2> SUFFICES ASSUME NEW i \in 1 .. n, NEW r \in Lists PROVE Pass(r, i) \in Lists
    OBVIOUS
  <2>1. PICK f \in [i .. n -> Lists] : PassBy(f, r, i, n)
    BY PassIs
  <2> HIDE DEF Lists
  <2> QED BY <2>1 DEF PassBy
<1>3. \A i \in 1 .. n, r \in Lists : G[<<i, r>>] = Pass(r, i)
  OBVIOUS
<1>4. \E f \in [0 .. n -> Lists] : Solves(f)
  <2>1. s \in Lists /\ 0 \in Int /\ n \in Int /\ 0 <= n
    OBVIOUS
  <2> HIDE DEF G, Lists
  <2>2. \A i \in 0 + 1 .. n, r \in Lists : G[<<i, r>>] \in Lists
    <3> SUFFICES ASSUME NEW i \in 0 + 1 .. n, NEW r \in Lists PROVE G[<<i, r>>] \in Lists
      OBVIOUS
    <3>1. i \in 1 .. n
      OBVIOUS
    <3> QED BY <1>2, <1>3, <3>1
  <2>3. PICK f \in [0 .. n -> Lists] : Iterates(f, s, G, 0, n)
    BY <2>1, <2>2, Iterated
  <2>4. \A i \in 1 .. n : f[i - 1] \in Lists
    BY <2>1
  <2>5. Solves(f)
    <3> SUFFICES ASSUME NEW i \in 1 .. n PROVE f[i] = Pass(f[i - 1], i)
      BY <2>3 DEF Iterates
    <3>1. i \in 0 + 1 .. n
      OBVIOUS
    <3> QED BY <1>3, <2>3, <2>4, <3>1 DEF Iterates
  <2> QED BY <2>5
<1>5. \E f : after(f)
  <2> HIDE DEF Lists
  <2>1. PICK f \in [0 .. n -> Lists] : Solves(f)
    BY <1>4
  <2>2. f = [i \in 0 .. n |-> IF i = 0 THEN s ELSE Pass(f[i - 1], i)]
    <3>1. f = [i \in 0 .. n |-> f[i]]
      OBVIOUS
    <3>2. \A i \in 0 .. n : f[i] = IF i = 0 THEN s ELSE Pass(f[i - 1], i)
      BY <2>1
    <3> QED BY <3>1, <3>2
  <2> QED BY <1>1, <2>2
<1>6. after(u)
  <2> HIDE DEF after
  <2> QED BY <1>5
<1> HIDE DEF u, G
<1>7. u = [i \in 0 .. n |-> IF i = 0 THEN s ELSE Pass(u[i - 1], i)]
  BY <1>1, <1>6
<1>8. DOMAIN u = 0 .. n /\ Solves(u)
  BY <1>7
<1>9. 0 .. n \subseteq {i \in 0 .. n : u[i] \in Lists}
  <2> DEFINE T == {i \in 0 .. n : u[i] \in Lists}
  <2>1. u[0] \in Lists /\ 0 \in 0 .. n
    BY <1>8
  <2> HIDE DEF Lists
  <2>2. \A i \in 0 .. n - 1 : i \in T => i + 1 \in T
    <3> SUFFICES ASSUME NEW i \in 0 .. n - 1, u[i] \in Lists
                 PROVE  i + 1 \in 0 .. n /\ u[i + 1] \in Lists
      OBVIOUS
    <3>1. i + 1 \in 1 .. n /\ (i + 1) - 1 = i
      OBVIOUS
    <3>2. u[i + 1] = Pass(u[i], i + 1)
      BY <1>8, <3>1
    <3> QED BY <1>2, <3>1, <3>2
  <2>3. 0 \in T
    BY <2>1
  <2> HIDE DEF T
  <2>4. 0 .. n \subseteq T
    BY <2>2, <2>3, Induct
  <2> QED BY <2>4 DEF T
<1>10. u \in [0 .. n -> Lists]
  <2> HIDE DEF Lists
  <2>1. u = [i \in 0 .. n |-> u[i]]
    BY <1>7
  <2> QED BY <1>9, <2>1
<1>11. Sort(s) = u[n]
  BY <1>1 DEF Sort, u
<1> QED BY <1>8, <1>10, <1>11 DEF SortBy

-----------------------------------------------------------------------------
(* The inner loop of event i leaves the ones before it alone, and makes it *)
(* the newest of the rest.                                                 *)
LEMMA PassSelects ==
  ASSUME NEW V \in SUBSET Nat, NEW n \in Nat, NEW s \in [1 .. n -> V], NEW i \in 1 .. n
  PROVE  /\ Pass(s, i) \in [1 .. n -> V]
         /\ \A time \in Nat : Since(Pass(s, i), time) = Since(s, time)
         /\ \A k \in 1 .. i - 1 : Pass(s, i)[k] = s[k]
         /\ \A k \in i + 1 .. n : Pass(s, i)[i] >= Pass(s, i)[k]
         /\ \A b \in Nat : (\A k \in i .. n : b >= s[k]) =>
                             \A k \in i .. n : b >= Pass(s, i)[k]
<1>1. PICK f \in [i .. n -> [1 .. n -> V]] : PassBy(f, s, i, n)
  BY PassIs
<1> DEFINE Same(r) == \A time \in Nat : Since(r, time) = Since(s, time)
           Before(r) == \A k \in 1 .. i - 1 : r[k] = s[k]
           Newest(r, j) == \A k \in i + 1 .. j : r[i] >= r[k]
           Bounded(r) == \A b \in Nat : (\A k \in i .. n : b >= s[k]) =>
                                          \A k \in i .. n : b >= r[k]
           Ok(j) == Same(f[j]) /\ Before(f[j]) /\ Newest(f[j], j) /\ Bounded(f[j])
           T == {j \in i .. n : Ok(j)}
<1>2. i \in T
  BY <1>1 DEF PassBy
<1>3. ASSUME NEW j \in i .. n - 1, Ok(j)
      PROVE  Ok(j + 1)
  <2> DEFINE r == f[j]
             q == Exchange(r, i, j + 1)
  <2>1. f[j + 1] = q
    <3>1. j + 1 \in i + 1 .. n /\ (j + 1) - 1 = j
      OBVIOUS
    <3> QED BY <1>1, <3>1 DEF PassBy
  <2>2. r \in [1 .. n -> V] /\ j + 1 \in 1 .. n /\ i # j + 1
    OBVIOUS
  <2>3. /\ q \in [1 .. n -> V]
        /\ \A k \in 1 .. n : q[k] = Swapped(r, i, j + 1, k)
    <3> HIDE DEF r
    <3>1. q \in [1 .. n -> V]
      BY <2>2, ExchangeIs
    <3>2. ASSUME NEW k \in 1 .. n
          PROVE  q[k] = Swapped(r, i, j + 1, k)
      BY <2>2 DEF Exchange, Swapped
    <3> QED BY <3>1, <3>2
  <2>4. \A time \in Nat : Since(q, time) = Since(r, time)
    <3> HIDE DEF r
    <3> QED BY <2>2, ExchangeKeepsSince
  <2>5. \A k \in 1 .. n : q[k] \in Nat /\ r[k] \in Nat
    <3> HIDE DEF q, r
    <3> QED BY <2>2, <2>3
  <2>6. Same(r) /\ Before(r) /\ Newest(r, j) /\ Bounded(r)
    BY <1>3
  <2> HIDE DEF q, r
  <2>11. q[i] >= q[j + 1] /\ q[i] >= r[i]
    BY <2>2, <2>3, <2>5 DEF Swapped
  <2>7. Same(q)
    BY <2>4, <2>6
  <2>8. Before(q)
    <3> SUFFICES ASSUME NEW k \in 1 .. i - 1 PROVE q[k] = s[k]
      OBVIOUS
    <3>1. k \in (1 .. n) \ {i, j + 1}
      OBVIOUS
    <3> QED BY <2>3, <2>6, <3>1 DEF Swapped
  <2>9. Newest(q, j + 1)
    <3> SUFFICES ASSUME NEW k \in i + 1 .. j + 1 PROVE q[i] >= q[k]
      OBVIOUS
    <3>1. CASE k = j + 1
      BY <2>11, <3>1
    <3>2. CASE k \in i + 1 .. j
      <4>1. r[i] >= r[k] /\ q[k] = r[k] /\ q[i] >= r[i]
        BY <2>3, <2>6, <2>11, <3>2 DEF Swapped
      <4> QED BY <2>5, <3>2, <4>1
    <3> QED BY <3>1, <3>2
  <2>10. Bounded(q)
    <3> SUFFICES ASSUME NEW b \in Nat, \A k \in i .. n : b >= s[k], NEW k \in i .. n
                 PROVE  b >= q[k]
      OBVIOUS
    <3>1. \A l \in i .. n : b >= r[l]
      BY <2>6
    <3>2. b >= r[i] /\ b >= r[j + 1]
      BY <3>1
    <3>3. q[k] \in {r[i], r[j + 1], r[k]}
      BY <2>3 DEF Swapped
    <3> QED BY <3>1, <3>2, <3>3
  <2> QED BY <2>1, <2>7, <2>8, <2>9, <2>10
<1> HIDE DEF Ok
<1>4. i .. n \subseteq T
  <2>1. \A j \in i .. n - 1 : j \in T => j + 1 \in T
    <3> SUFFICES ASSUME NEW j \in i .. n - 1, Ok(j) PROVE j + 1 \in i .. n /\ Ok(j + 1)
      OBVIOUS
    <3> QED BY <1>3
  <2> HIDE DEF T
  <2>2. i \in Int /\ n \in Int
    OBVIOUS
  <2> QED BY <1>2, <2>1, <2>2, Induct
<1>5. Ok(n)
  BY <1>4
<1> QED BY <1>1, <1>5 DEF Ok, PassBy

(* The sort gives the same events, newest first.                           *)
LEMMA SortSorts ==
  ASSUME NEW V \in SUBSET Nat, NEW n \in Nat, NEW s \in [1 .. n -> V]
  PROVE  /\ Sort(s) \in [1 .. n -> V]
         /\ \A time \in Nat : Since(Sort(s), time) = Since(s, time)
         /\ \A k, l \in 1 .. n : k < l => Sort(s)[k] >= Sort(s)[l]
<1>1. PICK f \in [0 .. n -> [1 .. n -> V]] : SortBy(f, s, n)
  BY SortIs
<1> DEFINE Same(r) == \A time \in Nat : Since(r, time) = Since(s, time)
           Sorted(r, i) == \A k \in 1 .. i, l \in 1 .. n : k < l => r[k] >= r[l]
           Ok(i) == Same(f[i]) /\ Sorted(f[i], i)
           T == {i \in 0 .. n : Ok(i)}
<1>2. 0 \in T
  BY <1>1 DEF SortBy
<1>3. ASSUME NEW i \in 0 .. n - 1, Ok(i)
      PROVE  Ok(i + 1)
  <2> DEFINE r == f[i]
             q == Pass(r, i + 1)
  <2>1. f[i + 1] = q
    <3>1. i + 1 \in 1 .. n /\ (i + 1) - 1 = i
      OBVIOUS
    <3> QED BY <1>1, <3>1 DEF SortBy
  <2>2. r \in [1 .. n -> V] /\ i + 1 \in 1 .. n
    OBVIOUS
  <2>3. /\ q \in [1 .. n -> V]
        /\ \A time \in Nat : Since(q, time) = Since(r, time)
        /\ \A k \in 1 .. (i + 1) - 1 : q[k] = r[k]
        /\ \A k \in (i + 1) + 1 .. n : q[i + 1] >= q[k]
        /\ \A b \in Nat : (\A k \in i + 1 .. n : b >= r[k]) =>
                             \A k \in i + 1 .. n : b >= q[k]
    <3> HIDE DEF r
    <3> QED BY <2>2, PassSelects
  <2>4. \A k \in 1 .. n : q[k] \in Nat /\ r[k] \in Nat
    <3> HIDE DEF q, r
    <3> QED BY <2>2, <2>3
  <2>5. Same(r) /\ Sorted(r, i)
    BY <1>3
  <2> HIDE DEF q, r
  <2>6. Same(q)
    BY <2>3, <2>5
  <2>7. Sorted(q, i + 1)
    <3> SUFFICES ASSUME NEW k \in 1 .. i + 1, NEW l \in 1 .. n, k < l PROVE q[k] >= q[l]
      OBVIOUS
    <3>1. CASE k = i + 1
      BY <2>3, <3>1
    <3>2. CASE k \in 1 .. i /\ l \in 1 .. i
      BY <2>3, <2>5, <3>2
    <3>3. CASE k \in 1 .. i /\ l \in i + 1 .. n
      <4>1. \A m \in i + 1 .. n : r[k] >= r[m]
        BY <2>5, <3>3
      <4>2. r[k] \in Nat
        BY <2>4
      <4>3. r[k] >= q[l]
        BY <2>3, <3>3, <4>1, <4>2
      <4> QED BY <2>3, <3>3, <4>3
    <3> QED BY <3>1, <3>2, <3>3
  <2> QED BY <2>1, <2>6, <2>7
<1> HIDE DEF Ok
<1>4. 0 .. n \subseteq T
  <2>1. \A i \in 0 .. n - 1 : i \in T => i + 1 \in T
    <3> SUFFICES ASSUME NEW i \in 0 .. n - 1, Ok(i) PROVE i + 1 \in 0 .. n /\ Ok(i + 1)
      OBVIOUS
    <3> QED BY <1>3
  <2> HIDE DEF T
  <2>2. 0 \in Int /\ n \in Int
    OBVIOUS
  <2> QED BY <1>2, <2>1, <2>2, Induct
<1>5. Ok(n)
  BY <1>4
<1> QED BY <1>1, <1>5 DEF Ok, SortBy

-----------------------------------------------------------------------------
(* Of a listing that is newest first, the events since a time are the      *)
(* first so many.                                                          *)
LEMMA SinceIsPrefix ==
  ASSUME NEW V \in SUBSET Nat, NEW n \in Nat, NEW r \in [1 .. n -> V],
         \A k, l \in 1 .. n : k < l => r[k] >= r[l],
         NEW time \in Nat
  PROVE  /\ Since(r, time) \in 0 .. n
         /\ \A k \in 1 .. n : r[k] >= time <=> k <= Since(r, time)
<1> DEFINE older == {k \in 1 .. n : ~ (r[k] >= time)}
           there == {k \in 1 .. n : r[k] >= time}
<1>1. Since(r, time) = Cardinality(there)
  <2>1. DOMAIN r = 1 .. n
    OBVIOUS
  <2> QED BY <2>1 DEF Since
<1>2. \E c \in 0 .. n : there = 1 .. c
  <2>1. CASE older = {}
    BY <2>1
  <2>2. CASE older # {}
    <3>1. PICK k \in older : \A l \in older : k <= l
      <4>1. older \in SUBSET Nat
        OBVIOUS
      <4> HIDE DEF older
      <4> QED BY <2>2, <4>1, Least
    <3>2. ASSUME NEW l \in 1 .. n
          PROVE  l \in there <=> l < k
      <4>1. r[l] \in Nat /\ r[k] \in Nat /\ k \in 1 .. n /\ ~ (r[k] >= time)
        OBVIOUS
      <4>2. CASE l < k
        BY <3>1, <4>2
      <4>3. CASE l = k
        BY <4>1, <4>3
      <4>4. CASE l > k
        <5>1. r[k] >= r[l]
          BY <4>1, <4>4
        <5> QED BY <4>1, <4>4, <5>1
      <4> QED BY <4>2, <4>3, <4>4
    <3>3. there = 1 .. k - 1
      <4> HIDE DEF there
      <4>1. there \subseteq 1 .. n
        BY DEF there
      <4>2. k \in 1 .. n
        OBVIOUS
      <4> HIDE DEF older
      <4>3. there \subseteq 1 .. k - 1
        <5> SUFFICES ASSUME NEW l \in there PROVE l \in 1 .. k - 1
          OBVIOUS
        <5>1. l \in 1 .. n
          BY <4>1
        <5> QED BY <3>2, <4>2, <5>1
      <4>4. 1 .. k - 1 \subseteq there
        <5> SUFFICES ASSUME NEW l \in 1 .. k - 1 PROVE l \in there
          OBVIOUS
        <5>1. l \in 1 .. n /\ l < k
          BY <4>2
        <5> QED BY <3>2, <5>1
      <4> QED BY <4>3, <4>4
    <3> QED BY <3>3
  <2> QED BY <2>1, <2>2
<1>3. PICK c \in 0 .. n : there = 1 .. c
  BY <1>2
<1>4. Cardinality(there) = c
  <2> HIDE DEF there
  <2>1. Cardinality(1 .. c) = c
    BY FS_Interval
  <2> QED BY <1>3, <2>1
<1>5. \A k \in 1 .. n : r[k] >= time <=> k <= c
  <2>1. \A k \in 1 .. n : r[k] >= time <=> k \in there
    OBVIOUS
  <2> HIDE DEF there
  <2> QED BY <1>3, <2>1
<1> HIDE DEF there
<1> QED BY <1>1, <1>3, <1>4, <1>5

\* How many of n events are listed.
Shown(n, limit) == IF limit > 0 /\ n > limit THEN limit ELSE n

SameUpTo(m, q, r) == \A k \in 1 .. m : q[k] = r[k]

(* What is cut off is the end.                                             *)
LEMMA CutIs ==
  ASSUME NEW V, NEW n \in Nat, NEW r \in [1 .. n -> V], NEW limit \in Nat
  PROVE  /\ Shown(n, limit) \in 0 .. n
         /\ Cut(r, limit) \in [1 .. Shown(n, limit) -> V]
         /\ SameUpTo(Shown(n, limit), Cut(r, limit), r)
<1>1. Len(r) = n /\ r = [k \in 1 .. n |-> r[k]]
  OBVIOUS
<1>2. CASE limit > 0 /\ n > limit
  <2>1. Cut(r, limit) = SubSeq(r, 1, limit)
    BY <1>1, <1>2 DEF Cut
  <2>2. SubSeq(r, 1, limit) = [k \in 1 .. limit |-> r[k]]
    BY <1>2
  <2>3. Shown(n, limit) = limit
    BY <1>2 DEF Shown
  <2>4. /\ [k \in 1 .. limit |-> r[k]] \in [1 .. limit -> V]
        /\ \A k \in 1 .. limit : [l \in 1 .. limit |-> r[l]][k] = r[k]
    BY <1>2
  <2>5. limit \in 0 .. n
    BY <1>2
  <2> QED BY <2>1, <2>2, <2>3, <2>4, <2>5 DEF SameUpTo
<1>3. CASE ~ (limit > 0 /\ n > limit)
  <2>1. Shown(n, limit) = n /\ Cut(r, limit) = r
    BY <1>1, <1>3 DEF Shown, Cut
  <2> QED BY <1>1, <2>1 DEF SameUpTo
<1> QED BY <1>2, <1>3

NewestFirst(q) == \A i, j \in DOMAIN q : i < j => q[i] >= q[j]

\* q has the events of s since any time, as far as the limit goes, in front.
HasSince(q, s, limit) ==
  \A time \in Nat :
    /\ Since(s, time) \in Nat
    /\ Since(q, time) = Shown(Since(s, time), limit)
    /\ \A i \in DOMAIN q : q[i] >= time <=> i <= Since(s, time)

(* The listing has the events since any time, as far as the limit goes.    *)
LEMMA RecentSince ==
  ASSUME NEW V \in SUBSET Nat, NEW n \in Nat, NEW s \in [1 .. n -> V], NEW limit \in Nat
  PROVE  /\ GetRecent(s, limit) \in [1 .. Shown(n, limit) -> V]
         /\ NewestFirst(GetRecent(s, limit))
         /\ HasSince(GetRecent(s, limit), s, limit)
<1> DEFINE r == Sort(s)
           m == Shown(n, limit)
           q == Cut(r, limit)
<1>1. /\ r \in [1 .. n -> V]
      /\ \A time \in Nat : Since(r, time) = Since(s, time)
      /\ \A k, l \in 1 .. n : k < l => r[k] >= r[l]
  BY SortSorts
<1> HIDE DEF r
<1>2. m \in 0 .. n /\ q \in [1 .. m -> V] /\ \A k \in 1 .. m : q[k] = r[k]
  <2>1. r \in [1 .. n -> V]
    BY <1>1
  <2>2. Shown(n, limit) \in 0 .. n
    BY <2>1, CutIs
  <2>3. /\ Cut(r, limit) \in [1 .. Shown(n, limit) -> V]
        /\ SameUpTo(Shown(n, limit), Cut(r, limit), r)
    BY <2>1, CutIs
  <2> QED BY <2>2, <2>3 DEF SameUpTo
<1>3. GetRecent(s, limit) = q
  BY DEF GetRecent, r
<1> HIDE DEF m, q
<1>4. q \in [1 .. m -> V] /\ DOMAIN q = 1 .. m
  BY <1>1, <1>2
<1>5. \A k \in 1 .. m : q[k] = r[k] /\ k \in 1 .. n
  BY <1>2
<1>6. \A k, l \in 1 .. m : k < l => q[k] >= q[l]
  BY <1>1, <1>5
<1>7. ASSUME NEW time \in Nat
      PROVE  /\ Since(s, time) \in 0 .. n
             /\ Since(q, time) = Shown(Since(s, time), limit)
             /\ \A i \in 1 .. m : q[i] >= time <=> i <= Since(s, time)
  <2>1. /\ Since(r, time) \in 0 .. n
        /\ \A k \in 1 .. n : r[k] >= time <=> k <= Since(r, time)
    BY <1>1, SinceIsPrefix
  <2>2. Since(r, time) = Since(s, time)
    BY <1>1
  <2>3. \A k \in 1 .. m : q[k] >= time <=> k <= Since(s, time)
    BY <1>5, <2>1, <2>2
  <2>4. /\ Since(q, time) \in 0 .. m
        /\ \A k \in 1 .. m : q[k] >= time <=> k <= Since(q, time)
    <3>1. m \in Nat
      BY <1>2
    <3> QED BY <1>4, <1>6, <3>1, SinceIsPrefix
  <2> DEFINE a == Since(q, time)
             b == Since(s, time)
  <2>5. a \in 0 .. m /\ b \in 0 .. n /\ \A k \in 1 .. m : k <= a <=> k <= b
    BY <2>1, <2>2, <2>3, <2>4
  <2>6. m \in 0 .. n /\ m = IF limit > 0 /\ n > limit THEN limit ELSE n
    BY <1>2 DEF m, Shown
  <2> HIDE DEF a, b
  <2>7. a = IF b > m THEN m ELSE b
    <3>1. a <= b
      <4>1. CASE a = 0
        BY <2>5, <4>1
      <4>2. CASE a # 0
        BY <2>5, <4>2
      <4> QED BY <4>1, <4>2
    <3>2. CASE b > m
      <4>1. m = 0 \/ m \in 1 .. m
        BY <2>6
      <4> QED BY <2>5, <2>6, <3>2, <4>1
    <3>3. CASE ~ (b > m)
      <4>1. b = 0 \/ b \in 1 .. m
        BY <2>5, <2>6, <3>3
      <4> QED BY <2>5, <2>6, <3>1, <3>3, <4>1
    <3> QED BY <3>2, <3>3
  <2>8. a = Shown(b, limit)
    BY <2>5, <2>6, <2>7 DEF Shown
  <2> QED BY <2>1, <2>2, <2>3, <2>8 DEF a, b
<1>8. NewestFirst(q)
  BY <1>4, <1>6 DEF NewestFirst
<1>9. HasSince(q, s, limit)
  <2> SUFFICES ASSUME NEW time \in Nat
               PROVE  /\ Since(s, time) \in Nat
                      /\ Since(q, time) = Shown(Since(s, time), limit)
                      /\ \A i \in DOMAIN q : q[i] >= time <=> i <= Since(s, time)
    BY DEF HasSince
  <2>1. /\ Since(s, time) \in 0 .. n
        /\ Since(q, time) = Shown(Since(s, time), limit)
        /\ \A i \in 1 .. m : q[i] >= time <=> i <= Since(s, time)
    BY <1>7
  <2>2. 0 .. n \subseteq Nat
    OBVIOUS
  <2> QED BY <1>4, <2>1, <2>2, Zenon
<1> QED BY <1>3, <1>4, <1>8, <1>9 DEF m

-----------------------------------------------------------------------------
(* One more event does not make the events since a time fewer.             *)
LEMMA InsertKeepsSince ==
  ASSUME NEW V \in SUBSET Nat, NEW n \in Nat, NEW s \in [1 .. n -> V],
         NEW place \in 1 .. n + 1, NEW new \in V
  PROVE  /\ SX!InsertAt(s, place, new) \in [1 .. n + 1 -> V]
         /\ \A time \in Nat : Since(SX!InsertAt(s, place, new), time) >= Since(s, time)
<1> DEFINE r == SX!InsertAt(s, place, new)
<1>1. Len(s) = n /\ s \in Seq(V)
  OBVIOUS
<1>2. /\ Len(r) = n + 1
      /\ r \in Seq(V)
      /\ \A k \in 1 .. n + 1 : r[k] = IF k < place THEN s[k]
                                      ELSE IF k = place THEN new ELSE s[k - 1]
  <2> DEFINE a == SubSeq(s, 1, place - 1)
             b == SubSeq(s, place, n)
  <2>1. a \in Seq(V) /\ Len(a) = place - 1 /\ \A k \in 1 .. place - 1 : a[k] = s[k]
    BY <1>1
  <2>2. b \in Seq(V) /\ Len(b) = n + 1 - place
        /\ \A k \in 1 .. n + 1 - place : b[k] = s[place + k - 1]
    BY <1>1
  <2>3. r = (a \o <<new>>) \o b
    BY <1>1 DEF SX!InsertAt
  <2> HIDE DEF a, b, r
  <2>4. /\ a \o <<new>> \in Seq(V)
        /\ Len(a \o <<new>>) = place
        /\ \A k \in 1 .. place - 1 : (a \o <<new>>)[k] = s[k]
        /\ (a \o <<new>>)[place] = new
    BY <2>1
  <2> DEFINE c == a \o <<new>>
  <2> HIDE DEF c
  <2>5. c \in Seq(V) /\ Len(c) = place /\ c[place] = new
        /\ \A k \in 1 .. place - 1 : c[k] = s[k]
    BY <2>4 DEF c
  <2>6. r = c \o b
    BY <2>3 DEF c
  <2>7. r \in Seq(V) /\ Len(r) = n + 1
    <3>1. b \in Seq(V) /\ Len(b) = n + 1 - place /\ c \in Seq(V) /\ Len(c) = place
      BY <2>2, <2>5
    <3>2. c \o b \in Seq(V) /\ Len(c \o b) = Len(c) + Len(b)
      BY <3>1
    <3>3. Len(c \o b) = n + 1
      BY <3>1, <3>2
    <3> QED BY <2>6, <3>2, <3>3
  <2>8. ASSUME NEW k \in 1 .. n + 1
        PROVE  r[k] = IF k < place THEN s[k] ELSE IF k = place THEN new ELSE s[k - 1]
    <3>1. r[k] = IF k <= place THEN c[k] ELSE b[k - place]
      BY <2>2, <2>5, <2>6
    <3>2. CASE k <= place
      BY <2>5, <3>1, <3>2
    <3>3. CASE k > place
      <4>1. k - place \in 1 .. n + 1 - place /\ place + (k - place) - 1 = k - 1
        BY <3>3
      <4> QED BY <2>2, <3>1, <3>3, <4>1
    <3> QED BY <3>2, <3>3
  <2> QED BY <2>7, <2>8
<1> HIDE DEF r
<1>3. r \in [1 .. n + 1 -> V]
  BY <1>2
<1>4. ASSUME NEW time \in Nat
      PROVE  Since(r, time) >= Since(s, time)
  <2> DEFINE A == {k \in 1 .. n : s[k] >= time}
             B == {k \in 1 .. n + 1 : r[k] >= time}
             f == [k \in A |-> IF k < place THEN k ELSE k + 1]
  <2>1. DOMAIN s = 1 .. n /\ DOMAIN r = 1 .. n + 1
    BY <1>3
  <2>2. IsFiniteSet(A) /\ IsFiniteSet(B)
    <3>1. A \subseteq 1 .. n /\ B \subseteq 1 .. n + 1 /\ n + 1 \in Int
      OBVIOUS
    <3> HIDE DEF A, B
    <3>2. IsFiniteSet(1 .. n) /\ IsFiniteSet(1 .. n + 1)
      BY <3>1, FS_Interval
    <3>3. IsFiniteSet(A)
      BY <3>1, <3>2, FS_Subset
    <3>4. IsFiniteSet(B)
      BY <3>1, <3>2, FS_Subset
    <3> QED BY <3>3, <3>4
  <2>3. f \in [A -> B]
    <3> SUFFICES ASSUME NEW k \in A
                 PROVE  (IF k < place THEN k ELSE k + 1) \in B
      OBVIOUS
    <3>1. CASE k < place
      BY <1>2, <3>1
    <3>2. CASE ~ (k < place)
      <4>1. k + 1 \in 1 .. n + 1 /\ ~ (k + 1 < place) /\ k + 1 # place /\ (k + 1) - 1 = k
        BY <3>2
      <4> QED BY <1>2, <3>2, <4>1
    <3> QED BY <3>1, <3>2
  <2>4. \A k, l \in A : f[k] = f[l] => k = l
    OBVIOUS
  <2>5. f \in Injection(A, B)
    <3> HIDE DEF f, A, B
    <3> QED BY <2>3, <2>4 DEF Injection, IsInjective
  <2>6. Cardinality(A) <= Cardinality(B)
    <3> HIDE DEF f, A, B
    <3> QED BY <2>2, <2>5, FS_Injection
  <2>7. Cardinality(A) \in Nat /\ Cardinality(B) \in Nat
    <3> HIDE DEF f, A, B
    <3> QED BY <2>2, FS_CardinalityType
  <2> QED BY <2>1, <2>6, <2>7 DEF Since
<1> QED BY <1>3, <1>4 DEF r

-----------------------------------------------------------------------------
\* The events are so many at most.
LogInv == events \in SX!BoundedSeq(Times, MaxEvents)

(* In terms of functions, for the lemmas above.                            *)
LEMMA EventsAre ==
  ASSUME NEW s
  PROVE  s \in SX!BoundedSeq(Times, MaxEvents) <=>
           \E n \in 0 .. MaxEvents : s \in [1 .. n -> Times]
BY DEF SX!BoundedSeq, SX!SeqOf

LEMMA RecentIs ==
  ASSUME NEW s \in SX!BoundedSeq(Times, MaxEvents), NEW limit \in 0 .. MaxLimit
  PROVE  Recent[s][limit] = GetRecent(s, limit)
BY DEF Recent

\* There are n events, and one more after the step.
OneMore(n) ==
  /\ events \in [1 .. n -> Times]
  /\ events' \in [1 .. n + 1 -> Times]
  /\ \A time \in Nat : Since(events', time) >= Since(events, time)

(* One step of the log.                                                    *)
LEMMA LogStep ==
  ASSUME LogInv, [LoggedNext]_<<vars, events>>
  PROVE  /\ LogInv'
         /\ events' # events => \E n \in 0 .. MaxEvents - 1 : OneMore(n)
<1>1. CASE UNCHANGED events
  BY <1>1 DEF LogInv
<1>2. CASE ~ UNCHANGED events
  <2>1. PICK time \in Times, place \in 1 .. Len(events) + 1 :
          Len(events) < MaxEvents /\ events' = SX!InsertAt(events, place, time)
    BY <1>2 DEF LoggedNext, LogGateway, Log, vars
  <2>2. PICK n \in 0 .. MaxEvents : events \in [1 .. n -> Times]
    BY EventsAre DEF LogInv
  <2>3. n \in Nat /\ Len(events) = n /\ n + 1 \in 0 .. MaxEvents /\ n \in 0 .. MaxEvents - 1
    BY <2>1, <2>2, EventLogAssumption
  <2>4. place \in 1 .. n + 1 /\ Times \in SUBSET Nat
    BY <2>3, EventLogAssumption
  <2>5. /\ events' \in [1 .. n + 1 -> Times]
        /\ \A t \in Nat : Since(events', t) >= Since(events, t)
    BY <2>1, <2>2, <2>3, <2>4, InsertKeepsSince
  <2>6. LogInv'
    BY <2>3, <2>5, EventsAre DEF LogInv
  <2> QED BY <2>2, <2>3, <2>5, <2>6 DEF OneMore
<1> QED BY <1>1, <1>2

LEMMA LogInvariance == LoggedSpec => []LogInv
<1>1. LoggedInit => LogInv
  <2>1. <<>> \in [1 .. 0 -> Times] /\ 0 \in 0 .. MaxEvents
    BY EventLogAssumption
  <2> QED BY <2>1, EventsAre DEF LoggedInit, EventLogInit, LogInv
<1>2. LogInv /\ [LoggedNext]_<<vars, events>> => LogInv'
  BY LogStep
<1> QED BY <1>1, <1>2, PTL DEF LoggedSpec

-----------------------------------------------------------------------------
(* The gateway does with the log what it does without, so that what is     *)
(* true of every behaviour of Gateway is true of one with the log.         *)
THEOREM LoggedGatewayIsGateway == LoggedSpec => Spec
<1>1. LoggedInit => Init
  BY DEF LoggedInit
<1>2. [LoggedNext]_<<vars, events>> => [Next]_vars
  BY DEF LoggedNext, vars
<1> QED BY <1>1, <1>2, PTL DEF LoggedSpec, Spec

(* The listing is newest first, and has of the events since any time as    *)
(* many as there are and the limit allows.                                 *)
THEOREM ListingIsNewest == LoggedSpec => []RecentIsNewest
<1>1. LogInv => RecentIsNewest
  <2> SUFFICES ASSUME LogInv, NEW limit \in 0 .. MaxLimit
               PROVE  /\ \A i, j \in DOMAIN Recent[events][limit] :
                           i < j => Recent[events][limit][i] >= Recent[events][limit][j]
                      /\ \A time \in Times :
                           Since(Recent[events][limit], time)
                             = Shown(Since(events, time), limit)
    BY DEF RecentIsNewest, Shown
  <2>1. Recent[events][limit] = GetRecent(events, limit)
    BY RecentIs DEF LogInv
  <2>2. PICK n \in 0 .. MaxEvents : events \in [1 .. n -> Times]
    BY EventsAre DEF LogInv
  <2>3. Times \in SUBSET Nat /\ n \in Nat /\ limit \in Nat
    BY EventLogAssumption
  <2>4. /\ NewestFirst(GetRecent(events, limit))
        /\ HasSince(GetRecent(events, limit), events, limit)
    BY <2>2, <2>3, RecentSince
  <2> QED BY <2>1, <2>3, <2>4 DEF NewestFirst, HasSince
<1> QED BY <1>1, LogInvariance, PTL

(* One more event makes no place of the listing older.                     *)
THEOREM LoggingPushesOutTheOldest == LoggedSpec => LoggingKeepsNewer
<1> DEFINE Kept == \A limit \in 0 .. MaxLimit :
              LET old == Recent[events][limit]
                  new == Recent[events'][limit]
              IN /\ DOMAIN old \subseteq DOMAIN new
                 /\ \A i \in DOMAIN old : new[i] >= old[i]
<1>1. LogInv /\ [LoggedNext]_<<vars, events>> => [events' # events => Kept]_events
  <2> SUFFICES ASSUME LogInv, [LoggedNext]_<<vars, events>>, events' # events,
                      NEW limit \in 0 .. MaxLimit
               PROVE  /\ DOMAIN Recent[events][limit] \subseteq DOMAIN Recent[events'][limit]
                      /\ \A i \in DOMAIN Recent[events][limit] :
                           Recent[events'][limit][i] >= Recent[events][limit][i]
    OBVIOUS
  <2> DEFINE old == GetRecent(events, limit)
             new == GetRecent(events', limit)
  <2>1. LogInv'
    BY LogStep
  <2>2. Recent[events][limit] = old /\ Recent[events'][limit] = new
    BY <2>1, RecentIs DEF LogInv
  <2>3. PICK n \in 0 .. MaxEvents - 1 : OneMore(n)
    BY LogStep
  <2>4. Times \in SUBSET Nat /\ n \in Nat /\ n + 1 \in Nat /\ limit \in Nat
    BY EventLogAssumption
  <2>5. old \in [1 .. Shown(n, limit) -> Times] /\ HasSince(old, events, limit)
    BY <2>3, <2>4, RecentSince DEF OneMore
  <2>6. new \in [1 .. Shown(n + 1, limit) -> Times] /\ HasSince(new, events', limit)
    BY <2>3, <2>4, RecentSince DEF OneMore
  <2> HIDE DEF old, new
  <2>7. DOMAIN old = 1 .. Shown(n, limit) /\ DOMAIN new = 1 .. Shown(n + 1, limit)
    BY <2>5, <2>6
  <2>8. DOMAIN old \subseteq DOMAIN new
    BY <2>4, <2>7 DEF Shown
  <2>9. ASSUME NEW i \in DOMAIN old
        PROVE  new[i] >= old[i]
    <3>1. old[i] \in Nat /\ i \in Nat /\ i \in DOMAIN new
      <4>1. i \in 1 .. Shown(n, limit)
        BY <2>7
      <4>2. old[i] \in Times
        BY <2>5, <4>1
      <4>3. Shown(n, limit) \in Nat
        BY <2>4 DEF Shown
      <4>4. old[i] \in Nat
        BY <2>4, <4>2
      <4>5. i \in Nat
        BY <4>1, <4>3
      <4>6. i \in DOMAIN new
        BY <2>8
      <4> QED BY <4>4, <4>5, <4>6
    <3>2. i <= Since(events, old[i]) /\ Since(events, old[i]) \in Nat
      BY <2>5, <3>1 DEF HasSince
    <3>3. Since(events', old[i]) \in Nat /\ Since(events', old[i]) >= Since(events, old[i])
      BY <2>3, <2>6, <3>1 DEF HasSince, OneMore
    <3>4. i <= Since(events', old[i])
      BY <3>1, <3>2, <3>3
    <3> QED BY <2>6, <3>1, <3>4 DEF HasSince
  <2> QED BY <2>2, <2>8, <2>9
<1>2. LoggingKeepsNewer <=> [][events' # events => Kept]_events
  BY DEF LoggingKeepsNewer
<1> HIDE DEF Kept
<1> QED BY <1>1, <1>2, LogInvariance, PTL DEF LoggedSpec
=============================================================================
