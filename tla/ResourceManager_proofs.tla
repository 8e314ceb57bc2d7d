------------------------ MODULE ResourceManager_proofs ------------------------
(***************************************************************************)
(* For any requests, gates, limits and budgets of attempts: the gates a    *)
(* request owns match its progress, no requests wait for one another in a  *)
(* circle, every call is paid for, and the breaker counts operations.      *)
(***************************************************************************)
EXTENDS ResourceManager, FiniteSetTheorems, WellFoundedInduction, TLAPS

\* What r has paid and called at each place of its way.
AccountInv(r) ==
    /\ pc[r] \in {"idle", "queue"} => attempts[r] = 0 /\ paid[r] = 0
    /\ pc[r] \in {"pacing", "ceiling", "admission"} => attempts[r] = 0 /\ paid[r] = 1
    /\ pc[r] \in {"call", "backoff"} => attempts[r] > 0 /\ paid[r] = attempts[r]
    /\ pc[r] = "repacing" => paid[r] = attempts[r] + 1
    /\ pc[r] \in Retrying => attempts[r] < MaxAttempts

IInv ==
    /\ TypeOK
    /\ \A r \in Requests : AccountInv(r)
    /\ GatesMatchProgress
    /\ OneFailurePerOperation

-----------------------------------------------------------------------------
(* The breaker                                                             *)

LEMMA BreakerTypes ==
    ASSUME NEW b \in BreakerType
    PROVE  /\ Settled(b) \in BreakerType
           /\ Acquired(b) \in BreakerType
           /\ Freed(b) \in BreakerType
           /\ OnSuccess(b) \in BreakerType
           /\ OnFailure(b) \in BreakerType
<1>1. Settled(b) \in BreakerType  BY DEF Settled, BreakerType, BreakerStates
<1>2. Acquired(b) \in BreakerType  BY DEF Acquired, BreakerType, BreakerStates
<1>3. Freed(b) \in BreakerType  BY DEF Freed, BreakerType, BreakerStates
<1>4. Opened \in BreakerType /\ Closed \in BreakerType
  BY DEF Opened, Closed, Fresh, BreakerType, BreakerStates
<1>5. OnSuccess(b) \in BreakerType
  BY <1>1, <1>4 DEF OnSuccess, BreakerType, BreakerStates
<1>6. OnFailure(b) \in BreakerType
  BY <1>1, <1>4 DEF OnFailure, BreakerType, BreakerStates
<1>7. QED  BY <1>1, <1>2, <1>3, <1>5, <1>6

\* What the methods do to the count of failures of a breaker that is CLOSED after.
LEMMA BreakerCounts ==
    ASSUME NEW b \in BreakerType
    PROVE  /\ Settled(b).state = "CLOSED" => Settled(b) = b
           /\ Acquired(b).state = b.state /\ Acquired(b).failures = b.failures
           /\ Freed(b).state = b.state /\ Freed(b).failures = b.failures
           /\ OnSuccess(b).state = "CLOSED" => OnSuccess(b).failures = 0
           /\ OnFailure(b).state = "CLOSED" =>
                 b.state = "CLOSED" /\ OnFailure(b).failures = b.failures + 1
<1>1. Settled(b).state = "CLOSED" => Settled(b) = b
  BY DEF Settled, BreakerType, BreakerStates
<1>2. Acquired(b).state = b.state /\ Acquired(b).failures = b.failures
  BY DEF Acquired, BreakerType, BreakerStates
<1>3. Freed(b).state = b.state /\ Freed(b).failures = b.failures
  BY DEF Freed, BreakerType, BreakerStates
<1>4. Settled(b) \in BreakerType  BY BreakerTypes
<1>5. OnSuccess(b).state = "CLOSED" => OnSuccess(b).failures = 0
  BY <1>4 DEF OnSuccess, Closed, Fresh, BreakerType, BreakerStates
<1>6. OnFailure(b).state = "CLOSED" =>
         b.state = "CLOSED" /\ OnFailure(b).failures = b.failures + 1
  BY <1>1, <1>4 DEF OnFailure, Opened, Fresh, BreakerType, BreakerStates
<1>7. QED  BY <1>1, <1>2, <1>3, <1>5, <1>6

\* One breaker changes from b to its successor and its row with it.
LEMMA BreakerStep ==
    ASSUME TypeOK, OneFailurePerOperation, NEW r \in Requests,
           NEW new \in BreakerType, NEW b \in BreakerType,
           NEW verdict \in {"success", "failure", "none"},
           new.state = b.state, new.failures = b.failures,
           verdict = "none" /\ b.state = "CLOSED" =>
               /\ breaker[Resource[r]].state = "CLOSED"
               /\ b.failures = breaker[Resource[r]].failures,
           verdict = "failure" /\ b.state = "CLOSED" =>
               /\ breaker[Resource[r]].state = "CLOSED"
               /\ b.failures = breaker[Resource[r]].failures + 1,
           verdict = "success" /\ b.state = "CLOSED" => b.failures = 0,
           breaker' = [breaker EXCEPT ![Resource[r]] = new],
           row' = [row EXCEPT ![Resource[r]] = RowAfter(Resource[r], b, verdict)]
    PROVE  /\ breaker' \in [Resources -> BreakerType]
           /\ row' \in [Resources -> Nat]
           /\ OneFailurePerOperation'
<1> DEFINE key == Resource[r]
           after == RowAfter(key, b, verdict)
<1>1. key \in Resources  BY ManagerAssumption
<1>2. /\ breaker' \in [Resources -> BreakerType]
      /\ breaker'[key] = new
      /\ \A k \in Resources \ {key} : breaker'[k] = breaker[k]
  BY <1>1 DEF TypeOK
<1>3. row[key] \in Nat  BY <1>1 DEF TypeOK
<1>4. /\ after \in Nat
      /\ b.state = "CLOSED" /\ verdict = "success" => after = 0
      /\ b.state = "CLOSED" /\ verdict = "failure" => after = row[key] + 1
      /\ b.state = "CLOSED" /\ verdict = "none" => after = row[key]
  BY <1>3 DEF RowAfter
<1> HIDE DEF after
<1>5. row' = [row EXCEPT ![key] = after]  BY DEF after
<1>6. /\ row' \in [Resources -> Nat]
      /\ row'[key] = after
      /\ \A k \in Resources \ {key} : row'[k] = row[k]
  BY <1>1, <1>4, <1>5 DEF TypeOK
<1>7. ASSUME NEW k \in Resources, breaker'[k].state = "CLOSED"
      PROVE  breaker'[k].failures = row'[k]
  <2>1. CASE k # key  BY <1>2, <1>6, <1>7, <2>1 DEF OneFailurePerOperation
  <2>2. CASE k = key
    BY <1>1, <1>2, <1>4, <1>6, <1>7, <2>2 DEF OneFailurePerOperation
  <2>3. QED  BY <2>1, <2>2
<1>8. QED  BY <1>2, <1>6, <1>7 DEF OneFailurePerOperation

\* A method that gives no verdict.
LEMMA QuietBreaker ==
    ASSUME TypeOK, OneFailurePerOperation, NEW r \in Requests,
           NEW b \in {Settled(breaker[Resource[r]]),
                      Acquired(Settled(breaker[Resource[r]]))},
           BreakerBecomes(r, b)
    PROVE  /\ breaker' \in [Resources -> BreakerType]
           /\ row' \in [Resources -> Nat]
           /\ OneFailurePerOperation'
<1> DEFINE old == breaker[Resource[r]]
<1>1. old \in BreakerType  BY ManagerAssumption DEF TypeOK
<1>2. Settled(old) \in BreakerType  BY <1>1, BreakerTypes
<1>3. b \in BreakerType  BY <1>1, <1>2, BreakerTypes
<1>4. b.state = "CLOSED" => old.state = "CLOSED" /\ b.failures = old.failures
  BY <1>1, <1>2, BreakerCounts
<1>5. QED  BY <1>3, <1>4, BreakerStep DEF BreakerBecomes

\* The end of a run.
LEMMA EndOfRun ==
    ASSUME TypeOK, OneFailurePerOperation, NEW r \in Requests,
           \/ EndRun(r, OnSuccess(breaker[Resource[r]]), "success")
           \/ EndRun(r, OnFailure(breaker[Resource[r]]), "failure")
           \/ EndRun(r, breaker[Resource[r]], "none")
    PROVE  /\ breaker' \in [Resources -> BreakerType]
           /\ row' \in [Resources -> Nat]
           /\ OneFailurePerOperation'
           /\ Finish(r)
<1> DEFINE old == breaker[Resource[r]]
<1>1. old \in BreakerType  BY ManagerAssumption DEF TypeOK
<1>2. ASSUME NEW b \in BreakerType, NEW verdict \in {"success", "failure", "none"},
             EndRun(r, b, verdict),
             verdict = "none" /\ b.state = "CLOSED" =>
               old.state = "CLOSED" /\ b.failures = old.failures,
             verdict = "failure" /\ b.state = "CLOSED" =>
               old.state = "CLOSED" /\ b.failures = old.failures + 1,
             verdict = "success" /\ b.state = "CLOSED" => b.failures = 0
      PROVE  /\ breaker' \in [Resources -> BreakerType]
             /\ row' \in [Resources -> Nat]
             /\ OneFailurePerOperation'
             /\ Finish(r)
  <2>1. Freed(b) \in BreakerType /\ Freed(b).state = b.state /\ Freed(b).failures = b.failures
    BY <1>2, BreakerTypes, BreakerCounts
  <2>2. QED  BY <1>2, <2>1, BreakerStep DEF EndRun
<1>3. CASE EndRun(r, OnSuccess(old), "success")
  BY <1>1, <1>2, <1>3, BreakerTypes, BreakerCounts
<1>4. CASE EndRun(r, OnFailure(old), "failure")
  BY <1>1, <1>2, <1>4, BreakerTypes, BreakerCounts
<1>5. CASE EndRun(r, old, "none")
  BY <1>1, <1>2, <1>5
<1>6. QED  BY <1>3, <1>4, <1>5

-----------------------------------------------------------------------------
(* The requests                                                            *)

\* The places are distinct.
LEMMA PlaceNames ==
    /\ Places = {"idle", "pacing", "admission", "queue", "ceiling", "call", "backoff",
                 "repacing"}
    /\ InRun = {"call", "backoff", "repacing"}
    /\ Retrying = {"backoff", "repacing"}
    /\ Waiting = {"queue", "ceiling"}
BY DEF Places, InRun, Retrying, Waiting

\* The gates of a resource are gates, and none of them is the ceiling.
LEMMA GatesOf ==
    ASSUME NEW r \in Requests, NEW i \in 1..Len(GatesFor[Resource[r]])
    PROVE  GatesFor[Resource[r]][i] \in Gates \ {Ceiling}
BY ManagerAssumption

\* What another request does leaves the gates of k in order.
LEMMA OthersKeep ==
    ASSUME NEW k \in Requests, OwnsByProgress(k), pc'[k] = pc[k],
           \A g \in Gates : k \in inside'[g] <=> k \in inside[g]
    PROVE  OwnsByProgress(k)'
<1> DEFINE gates == GatesFor[Resource[k]]
<1>1. \A i \in 1..Len(gates) : k \in inside'[gates[i]] <=> k \in inside[gates[i]]
  BY GatesOf
<1>2. pc'[k] \in InRun \cup {"admission"} => k \in inside'[Ceiling]
  BY ManagerAssumption DEF OwnsByProgress
<1>3. pc'[k] \notin {"idle", "queue"} => \A i \in 1..Len(gates) : k \in inside'[gates[i]]
  BY <1>1 DEF OwnsByProgress
<1>4. ASSUME NEW g \in Gates, k \in inside'[g]
      PROVE  /\ pc'[k] # "idle"
             /\ \/ g = Ceiling /\ pc'[k] \in InRun \cup {"admission"}
                \/ \E j \in 1..Len(gates) :
                       g = gates[j] /\ \A i \in 1..j : k \in inside'[gates[i]]
  <2>1. /\ pc[k] # "idle"
        /\ \/ g = Ceiling /\ pc[k] \in InRun \cup {"admission"}
           \/ \E j \in 1..Len(gates) :
                  g = gates[j] /\ \A i \in 1..j : k \in inside[gates[i]]
    BY <1>4 DEF OwnsByProgress
  <2>2. \A j \in 1..Len(gates) : \A i \in 1..j : i \in 1..Len(gates)  OBVIOUS
  <2>3. QED  BY <1>1, <2>1, <2>2
<1>5. QED  BY <1>2, <1>3, <1>4 DEF OwnsByProgress

\* A request goes to the place p and no gate changes hands.
LEMMA Moves ==
    ASSUME IInv, NEW r \in Requests, NEW p \in Places,
           pc' = [pc EXCEPT ![r] = p], UNCHANGED inside,
           p = "idle" => pc[r] = "idle",
           pc[r] \in InRun \cup {"admission"} => p \in InRun \cup {"admission"},
           p \in InRun \cup {"admission"} => r \in inside[Ceiling],
           p \notin {"idle", "queue"} =>
              \A i \in 1..Len(GatesFor[Resource[r]]) : r \in inside[GatesFor[Resource[r]][i]]
    PROVE  /\ pc' \in [Requests -> Places]
           /\ inside' \in [Gates -> SUBSET Requests]
           /\ GatesMatchProgress'
<1>1. pc' \in [Requests -> Places] /\ inside' = inside /\ pc'[r] = p  BY DEF IInv, TypeOK
<1>2. OwnsByProgress(r)'
  BY <1>1, PlaceNames DEF IInv, GatesMatchProgress, OwnsByProgress
<1>3. \A k \in Requests \ {r} : OwnsByProgress(k)'
  <2>1. ASSUME NEW k \in Requests \ {r} PROVE pc'[k] = pc[k] /\ OwnsByProgress(k)
    BY DEF IInv, TypeOK, GatesMatchProgress
  <2>2. QED  BY <1>1, <2>1 DEF OwnsByProgress
<1>4. QED  BY <1>1, <1>2, <1>3 DEF IInv, TypeOK, GatesMatchProgress

\* The accounts of a request that pays and calls as its new place demands.
LEMMA Accounts ==
    ASSUME IInv, NEW r \in Requests, NEW p \in Places,
           NEW a \in 0..MaxAttempts, NEW c \in Nat,
           pc' = [pc EXCEPT ![r] = p],
           attempts' = [attempts EXCEPT ![r] = a], paid' = [paid EXCEPT ![r] = c],
           p \in {"idle", "queue"} => a = 0 /\ c = 0,
           p \in {"pacing", "ceiling", "admission"} => a = 0 /\ c = 1,
           p \in {"call", "backoff"} => a > 0 /\ c = a,
           p = "repacing" => c = a + 1,
           p \in Retrying => a < MaxAttempts
    PROVE  /\ attempts' \in [Requests -> 0..MaxAttempts]
           /\ paid' \in [Requests -> Nat]
           /\ \A k \in Requests : AccountInv(k)'
BY DEF IInv, TypeOK, AccountInv

\* However a request ends, it gives every gate back.
LEMMA Finishes ==
    ASSUME IInv, NEW r \in Requests, Finish(r)
    PROVE  /\ pc' \in [Requests -> Places]
           /\ inside' \in [Gates -> SUBSET Requests]
           /\ GatesMatchProgress'
           /\ attempts' \in [Requests -> 0..MaxAttempts]
           /\ paid' \in [Requests -> Nat]
           /\ \A k \in Requests : AccountInv(k)'
<1>1. /\ inside' = [g \in Gates |-> inside[g] \ {r}]
      /\ pc' = [pc EXCEPT ![r] = "idle"]
      /\ attempts' = [attempts EXCEPT ![r] = 0]
      /\ paid' = [paid EXCEPT ![r] = 0]
  BY DEF Finish, ReleaseGates
<1>2. pc' \in [Requests -> Places] /\ inside' \in [Gates -> SUBSET Requests]
  BY <1>1, PlaceNames DEF IInv, TypeOK
<1>3. OwnsByProgress(r)'
  <2>1. pc'[r] = "idle" /\ \A g \in Gates : r \notin inside'[g]
    BY <1>1 DEF IInv, TypeOK
  <2>2. QED  BY <2>1, PlaceNames DEF OwnsByProgress
<1>4. GatesMatchProgress'
  <2>1. ASSUME NEW k \in Requests \ {r} PROVE OwnsByProgress(k)'
    <3>1. pc'[k] = pc[k] /\ OwnsByProgress(k)
      BY <1>1 DEF IInv, TypeOK, GatesMatchProgress
    <3>2. \A g \in Gates : k \in inside'[g] <=> k \in inside[g]  BY <1>1
    <3>3. QED  BY <3>1, <3>2, OthersKeep
  <2>2. QED  BY <1>3, <2>1 DEF GatesMatchProgress
<1>5. "idle" \in Places /\ 0 \in 0..MaxAttempts /\ 0 \in Nat /\ "idle" \notin Retrying
  BY PlaceNames, ManagerAssumption
<1>6. /\ attempts' \in [Requests -> 0..MaxAttempts]
      /\ paid' \in [Requests -> Nat]
      /\ \A k \in Requests : AccountInv(k)'
  BY <1>1, <1>5, Accounts
<1>7. QED  BY <1>2, <1>4, <1>6

\* A request takes the next gate of its resource, or the ceiling after them all.
LEMMA Takes ==
    ASSUME IInv, NEW r \in Requests, NEW g \in Gates, Take(r, g),
           NEW p \in {"queue", "admission"}, pc' = [pc EXCEPT ![r] = p],
           p = "admission" => g = Ceiling /\ pc[r] = "ceiling",
           p = "queue" => pc[r] = "queue" /\ NextGate(r, g)
    PROVE  /\ pc' \in [Requests -> Places]
           /\ inside' \in [Gates -> SUBSET Requests]
           /\ GatesMatchProgress'
<1> DEFINE gates == GatesFor[Resource[r]]
<1>1. inside' = [inside EXCEPT ![g] = @ \cup {r}]  BY DEF Take
<1>2. /\ pc' \in [Requests -> Places] /\ inside' \in [Gates -> SUBSET Requests]
      /\ r \in inside'[g]
      /\ \A h \in Gates : inside[h] \subseteq inside'[h]
      /\ \A h \in Gates \ {g} : inside'[h] = inside[h]
      /\ \A h \in Gates, k \in Requests \ {r} : k \in inside'[h] <=> k \in inside[h]
  BY <1>1, PlaceNames DEF IInv, TypeOK
<1>3. OwnsByProgress(r)'
  <2>1. pc'[r] = p /\ p # "idle" /\ p \notin InRun  BY PlaceNames DEF IInv, TypeOK
  <2>2. OwnsByProgress(r)  BY DEF IInv, GatesMatchProgress
  <2>3. p = "admission" => r \in inside'[Ceiling]  BY <1>2
  <2>4. ASSUME p = "admission", NEW i \in 1..Len(gates) PROVE r \in inside'[gates[i]]
    <3>1. r \in inside[gates[i]]  BY <2>2, <2>4, PlaceNames DEF OwnsByProgress
    <3>2. QED  BY <1>2, <3>1, GatesOf
  <2>5. ASSUME NEW h \in Gates, r \in inside'[h]
        PROVE  \/ h = Ceiling /\ p = "admission"
               \/ \E j \in 1..Len(gates) :
                     h = gates[j] /\ \A i \in 1..j : r \in inside'[gates[i]]
    <3>1. CASE h = g /\ p = "admission"  BY <3>1
    <3>2. CASE h = g /\ p = "queue"
      <4>1. PICK j \in 1..Len(gates) :
               gates[j] = g /\ \A i \in 1..(j - 1) : r \in inside[gates[i]]
        BY <3>2 DEF NextGate
      <4>2. ASSUME NEW i \in 1..j PROVE r \in inside'[gates[i]]
        <5>1. CASE i = j  BY <1>2, <4>1, <5>1
        <5>2. CASE i # j
          <6>1. i \in 1..(j - 1) /\ i \in 1..Len(gates)  BY <5>2
          <6>2. gates[i] \in Gates /\ r \in inside[gates[i]]  BY <4>1, <6>1, GatesOf
          <6>3. QED  BY <1>2, <6>2
        <5>3. QED  BY <5>1, <5>2
      <4>3. QED  BY <3>2, <4>1, <4>2
    <3>3. CASE h # g
      <4>1. r \in inside[h]  BY <1>2, <2>5, <3>3
      <4>2. pc[r] \notin InRun \cup {"admission"}  BY PlaceNames
      <4>3. PICK j \in 1..Len(gates) :
               h = gates[j] /\ \A i \in 1..j : r \in inside[gates[i]]
        BY <2>2, <4>1, <4>2 DEF OwnsByProgress
      <4>4. \A i \in 1..j : gates[i] \in Gates
        <5>1. \A i \in 1..j : i \in 1..Len(gates)  OBVIOUS
        <5>2. QED  BY <5>1, GatesOf
      <4>5. QED  BY <1>2, <4>3, <4>4
    <3>4. QED  BY <3>1, <3>2, <3>3
  <2>6. QED  BY <2>1, <2>3, <2>4, <2>5 DEF OwnsByProgress
<1>4. ASSUME NEW k \in Requests \ {r} PROVE OwnsByProgress(k)'
  <2>1. pc'[k] = pc[k] /\ OwnsByProgress(k)  BY DEF IInv, TypeOK, GatesMatchProgress
  <2>2. QED  BY <1>2, <2>1, OthersKeep
<1>5. QED  BY <1>2, <1>3, <1>4 DEF GatesMatchProgress

LEMMA InitInv == Init => IInv
<1> SUFFICES ASSUME Init PROVE IInv  OBVIOUS
<1>1. Closed \in BreakerType /\ Closed.failures = 0
  BY DEF Closed, Fresh, BreakerType, BreakerStates
<1>2. TypeOK  BY <1>1, PlaceNames, ManagerAssumption DEF Init, TypeOK
<1>3. \A r \in Requests : AccountInv(r)  BY PlaceNames DEF Init, AccountInv
<1>4. GatesMatchProgress  BY PlaceNames DEF Init, GatesMatchProgress, OwnsByProgress
<1>5. OneFailurePerOperation  BY <1>1 DEF Init, OneFailurePerOperation
<1>6. QED  BY <1>2, <1>3, <1>4, <1>5 DEF IInv

-----------------------------------------------------------------------------
(* The inductive step                                                      *)

\* The parts of the invariant, for a step whose parts are known.
LEMMA Together ==
    ASSUME pc' \in [Requests -> Places], inside' \in [Gates -> SUBSET Requests],
           breaker' \in [Resources -> BreakerType], row' \in [Resources -> Nat],
           attempts' \in [Requests -> 0..MaxAttempts], paid' \in [Requests -> Nat],
           \A k \in Requests : AccountInv(k)',
           GatesMatchProgress', OneFailurePerOperation'
    PROVE  IInv'
BY DEF IInv, TypeOK

\* A step that does not touch the breakers.
LEMMA BreakersStay ==
    ASSUME IInv, UNCHANGED <<breaker, row>>
    PROVE  /\ breaker' \in [Resources -> BreakerType]
           /\ row' \in [Resources -> Nat]
           /\ OneFailurePerOperation'
BY DEF IInv, TypeOK, OneFailurePerOperation

\* On the way to the call nothing has been paid yet, or the first slot.
LEMMA NotYetCalled ==
    ASSUME IInv, NEW r \in Requests, pc' = [pc EXCEPT ![r] = pc'[r]],
           UNCHANGED <<attempts, paid>>,
           \/ pc[r] \in {"idle", "queue"} /\ pc'[r] \in {"idle", "queue"}
           \/ /\ pc[r] \in {"pacing", "ceiling", "admission"}
              /\ pc'[r] \in {"pacing", "ceiling", "admission"}
    PROVE  /\ attempts' \in [Requests -> 0..MaxAttempts]
           /\ paid' \in [Requests -> Nat]
           /\ \A k \in Requests : AccountInv(k)'
BY PlaceNames DEF IInv, TypeOK, AccountInv

\* Up to the call.
LEMMA StartInv == ASSUME IInv, NEW r \in Requests, Start(r) PROVE IInv'
<1> DEFINE b == Settled(breaker[Resource[r]])
           p == IF Allows(b) THEN "queue" ELSE "idle"
<1>1. /\ pc[r] = "idle" /\ BreakerBecomes(r, b)
      /\ pc' = [pc EXCEPT ![r] = p] /\ p \in {"idle", "queue"}
      /\ UNCHANGED <<inside, attempts, paid>>
  BY DEF Start
<1> HIDE DEF p
<1>2. pc'[r] = p  BY <1>1 DEF IInv, TypeOK
<1>3. /\ pc' \in [Requests -> Places]
      /\ inside' \in [Gates -> SUBSET Requests]
      /\ GatesMatchProgress'
  <2>1. p \in Places /\ p \notin InRun \cup {"admission"}  BY <1>1, PlaceNames
  <2>2. pc[r] \notin InRun \cup {"admission"}  BY <1>1, PlaceNames
  <2>3. p = "idle" => pc[r] = "idle"  BY <1>1
  <2>4. QED  BY <1>1, <2>1, <2>2, <2>3, PlaceNames, Moves
<1>4. /\ attempts' \in [Requests -> 0..MaxAttempts]
      /\ paid' \in [Requests -> Nat]
      /\ \A k \in Requests : AccountInv(k)'
  BY <1>1, <1>2, NotYetCalled
<1>5. /\ breaker' \in [Resources -> BreakerType]
      /\ row' \in [Resources -> Nat]
      /\ OneFailurePerOperation'
  BY <1>1, QuietBreaker DEF IInv
<1>6. QED  BY <1>3, <1>4, <1>5, Together

LEMMA EnterInv ==
    ASSUME IInv, NEW r \in Requests, EnterGate(r) \/ EnterCeiling(r) PROVE IInv'
<1>1. PICK g \in Gates, p \in {"queue", "admission"} :
        /\ Take(r, g)
        /\ pc' = [pc EXCEPT ![r] = p]
        /\ p = "admission" => g = Ceiling /\ pc[r] = "ceiling"
        /\ p = "queue" => pc[r] = "queue" /\ NextGate(r, g)
        /\ UNCHANGED <<breaker, attempts, paid, row>>
  <2>1. CASE EnterGate(r)
    <3>1. pc' = [pc EXCEPT ![r] = "queue"]  BY <2>1 DEF EnterGate, IInv, TypeOK
    <3>2. QED  BY <2>1, <3>1 DEF EnterGate
  <2>2. CASE EnterCeiling(r)
    BY <2>2, ManagerAssumption DEF EnterCeiling
  <2>3. QED  BY <2>1, <2>2
<1>2. pc'[r] = p  BY <1>1 DEF IInv, TypeOK
<1>3. /\ pc' \in [Requests -> Places]
      /\ inside' \in [Gates -> SUBSET Requests]
      /\ GatesMatchProgress'
  BY <1>1, Takes
<1>4. /\ attempts' \in [Requests -> 0..MaxAttempts]
      /\ paid' \in [Requests -> Nat]
      /\ \A k \in Requests : AccountInv(k)'
  BY <1>1, <1>2, NotYetCalled
<1>5. QED  BY <1>1, <1>3, <1>4, BreakersStay, Together

LEMMA ReserveInv == ASSUME IInv, NEW r \in Requests, Reserve(r) PROVE IInv'
<1>1. /\ pc[r] = "queue"
      /\ \A i \in 1..Len(GatesFor[Resource[r]]) : r \in inside[GatesFor[Resource[r]][i]]
      /\ pc' = [pc EXCEPT ![r] = "pacing"]
      /\ paid' = [paid EXCEPT ![r] = @ + 1]
      /\ UNCHANGED <<inside, breaker, attempts, row>>
  BY DEF Reserve
<1>2. attempts[r] = 0 /\ paid[r] = 0  BY <1>1 DEF IInv, AccountInv
<1>3. /\ attempts' = [attempts EXCEPT ![r] = 0]
      /\ paid' = [paid EXCEPT ![r] = 1]
  BY <1>1, <1>2 DEF IInv, TypeOK
<1>4. /\ "pacing" \in Places /\ "pacing" \notin InRun \cup {"admission"}
      /\ "pacing" \notin Retrying /\ 0 \in 0..MaxAttempts /\ 1 \in Nat
  BY PlaceNames, ManagerAssumption
<1>5. /\ pc' \in [Requests -> Places]
      /\ inside' \in [Gates -> SUBSET Requests]
      /\ GatesMatchProgress'
  BY <1>1, <1>4, PlaceNames, Moves
<1>6. /\ attempts' \in [Requests -> 0..MaxAttempts]
      /\ paid' \in [Requests -> Nat]
      /\ \A k \in Requests : AccountInv(k)'
  <2>1. pc' = [pc EXCEPT ![r] = "pacing"]  BY <1>1
  <2>2. QED  BY <1>3, <1>4, <2>1, Accounts
<1>7. QED  BY <1>1, <1>5, <1>6, BreakersStay, Together

LEMMA PacedInv == ASSUME IInv, NEW r \in Requests, Paced(r) PROVE IInv'
<1>1. /\ pc[r] = "pacing" /\ pc' = [pc EXCEPT ![r] = "ceiling"]
      /\ UNCHANGED <<inside, breaker, attempts, paid, row>>
  BY DEF Paced
<1>2. pc'[r] = "ceiling"  BY <1>1 DEF IInv, TypeOK
<1>3. "ceiling" \in Places /\ "ceiling" \notin InRun \cup {"admission"}  BY PlaceNames
<1>4. \A i \in 1..Len(GatesFor[Resource[r]]) : r \in inside[GatesFor[Resource[r]][i]]
  BY <1>1, PlaceNames DEF IInv, GatesMatchProgress, OwnsByProgress
<1>5. /\ pc' \in [Requests -> Places]
      /\ inside' \in [Gates -> SUBSET Requests]
      /\ GatesMatchProgress'
  BY <1>1, <1>3, <1>4, PlaceNames, Moves
<1>6. /\ attempts' \in [Requests -> 0..MaxAttempts]
      /\ paid' \in [Requests -> Nat]
      /\ \A k \in Requests : AccountInv(k)'
  BY <1>1, <1>2, NotYetCalled
<1>7. QED  BY <1>1, <1>5, <1>6, BreakersStay, Together

LEMMA AdmitInv == ASSUME IInv, NEW r \in Requests, Admit(r) PROVE IInv'
<1> DEFINE b == Acquired(Settled(breaker[Resource[r]]))
<1>1. /\ pc[r] = "admission" /\ BreakerBecomes(r, b)
      /\ pc' = [pc EXCEPT ![r] = "call"]
      /\ attempts' = [attempts EXCEPT ![r] = 1]
      /\ UNCHANGED <<inside, paid>>
  BY DEF Admit
<1>2. paid' = [paid EXCEPT ![r] = 1]  BY <1>1 DEF IInv, TypeOK, AccountInv
<1>3. /\ "call" \in Places /\ "call" \notin Retrying
      /\ 1 \in 0..MaxAttempts /\ 1 \in Nat /\ 1 > 0
  BY PlaceNames, ManagerAssumption
<1>4. /\ r \in inside[Ceiling]
      /\ \A i \in 1..Len(GatesFor[Resource[r]]) : r \in inside[GatesFor[Resource[r]][i]]
  BY <1>1, PlaceNames DEF IInv, GatesMatchProgress, OwnsByProgress
<1>5. /\ pc' \in [Requests -> Places]
      /\ inside' \in [Gates -> SUBSET Requests]
      /\ GatesMatchProgress'
  BY <1>1, <1>3, <1>4, PlaceNames, Moves
<1>6. /\ attempts' \in [Requests -> 0..MaxAttempts]
      /\ paid' \in [Requests -> Nat]
      /\ \A k \in Requests : AccountInv(k)'
  BY <1>1, <1>2, <1>3, Accounts
<1>7. /\ breaker' \in [Resources -> BreakerType]
      /\ row' \in [Resources -> Nat]
      /\ OneFailurePerOperation'
  BY <1>1, QuietBreaker DEF IInv
<1>8. QED  BY <1>5, <1>6, <1>7, Together

\* Every end of a request.
LEMMA EndInv ==
    ASSUME IInv, NEW r \in Requests,
           \/ Refuse(r) \/ GiveUp(r)
           \/ Succeed(r) \/ FailForGood(r) \/ EndUncounted(r)
    PROVE  IInv'
<1>1. CASE Refuse(r)
  <2>1. Finish(r) /\ BreakerBecomes(r, Settled(breaker[Resource[r]]))
    BY <1>1 DEF Refuse
  <2>2. /\ breaker' \in [Resources -> BreakerType]
        /\ row' \in [Resources -> Nat]
        /\ OneFailurePerOperation'
    BY <2>1, QuietBreaker DEF IInv
  <2>3. QED  BY <2>1, <2>2, Finishes, Together
<1>2. CASE GiveUp(r)
  BY <1>2, Finishes, BreakersStay, Together DEF GiveUp
<1>3. CASE Succeed(r) \/ FailForGood(r) \/ EndUncounted(r)
  <2>1. \/ EndRun(r, OnSuccess(breaker[Resource[r]]), "success")
        \/ EndRun(r, OnFailure(breaker[Resource[r]]), "failure")
        \/ EndRun(r, breaker[Resource[r]], "none")
    BY <1>3 DEF Succeed, FailForGood, EndUncounted
  <2>2. QED  BY <2>1, EndOfRun, Finishes, Together DEF IInv
<1>4. QED  BY <1>1, <1>2, <1>3

\* A repetition: the next attempt is allowed, paid for and made.
LEMMA RetryInv ==
    ASSUME IInv, NEW r \in Requests, FailAndRetry(r) \/ Repace(r) \/ Retry(r)
    PROVE  IInv'
<1>1. /\ pc[r] \in InRun
      /\ UNCHANGED <<inside, breaker, row>>
  BY PlaceNames DEF FailAndRetry, Repace, Retry
<1>2. /\ r \in inside[Ceiling]
      /\ \A i \in 1..Len(GatesFor[Resource[r]]) : r \in inside[GatesFor[Resource[r]][i]]
  BY <1>1, PlaceNames DEF IInv, GatesMatchProgress, OwnsByProgress
<1>3. /\ attempts[r] \in 0..MaxAttempts /\ paid[r] \in Nat /\ MaxAttempts \in Nat
      /\ AccountInv(r)
  BY ManagerAssumption DEF IInv, TypeOK
<1>4. ASSUME NEW p \in InRun, NEW a \in 0..MaxAttempts, NEW c \in Nat,
             pc' = [pc EXCEPT ![r] = p],
             attempts' = [attempts EXCEPT ![r] = a],
             paid' = [paid EXCEPT ![r] = c],
             p \in {"call", "backoff"} => a > 0 /\ c = a,
             p = "repacing" => c = a + 1,
             p \in Retrying => a < MaxAttempts
      PROVE  IInv'
  <2>1. /\ p \in Places
        /\ p \notin {"idle", "queue", "pacing", "ceiling", "admission"}
    BY PlaceNames
  <2>2. /\ pc' \in [Requests -> Places]
        /\ inside' \in [Gates -> SUBSET Requests]
        /\ GatesMatchProgress'
    BY <1>1, <1>2, <1>4, <2>1, PlaceNames, Moves
  <2>3. /\ attempts' \in [Requests -> 0..MaxAttempts]
        /\ paid' \in [Requests -> Nat]
        /\ \A k \in Requests : AccountInv(k)'
    BY <1>4, <2>1, Accounts
  <2>4. QED  BY <1>1, <2>2, <2>3, BreakersStay, Together
<1>5. CASE FailAndRetry(r)
  <2>1. /\ pc[r] = "call" /\ attempts[r] < MaxAttempts
        /\ pc' = [pc EXCEPT ![r] = "backoff"]
        /\ attempts' = [attempts EXCEPT ![r] = attempts[r]]
        /\ paid' = [paid EXCEPT ![r] = paid[r]]
    BY <1>5 DEF FailAndRetry, IInv, TypeOK
  <2>2. "backoff" \in InRun /\ attempts[r] > 0 /\ paid[r] = attempts[r]
    BY <1>3, <2>1, PlaceNames DEF AccountInv
  <2>3. QED  BY <1>3, <1>4, <2>1, <2>2
<1>6. CASE Repace(r)
  <2>1. /\ pc[r] = "backoff"
        /\ pc' = [pc EXCEPT ![r] = "repacing"]
        /\ attempts' = [attempts EXCEPT ![r] = attempts[r]]
        /\ paid' = [paid EXCEPT ![r] = paid[r] + 1]
    BY <1>6 DEF Repace, IInv, TypeOK
  <2>2. /\ "repacing" \in InRun /\ attempts[r] < MaxAttempts
        /\ paid[r] + 1 = attempts[r] + 1 /\ paid[r] + 1 \in Nat
    BY <1>3, <2>1, PlaceNames DEF AccountInv
  <2>3. QED  BY <1>3, <1>4, <2>1, <2>2
<1>7. CASE Retry(r)
  <2>1. /\ pc[r] = "repacing"
        /\ pc' = [pc EXCEPT ![r] = "call"]
        /\ attempts' = [attempts EXCEPT ![r] = attempts[r] + 1]
        /\ paid' = [paid EXCEPT ![r] = paid[r]]
    BY <1>7 DEF Retry, IInv, TypeOK
  <2>2. /\ "call" \in InRun /\ "call" \notin Retrying
        /\ attempts[r] + 1 \in 0..MaxAttempts /\ attempts[r] + 1 > 0
        /\ paid[r] = attempts[r] + 1
    BY <1>3, <2>1, PlaceNames DEF AccountInv
  <2>3. QED  BY <1>3, <1>4, <2>1, <2>2
<1>8. QED  BY <1>5, <1>6, <1>7

LEMMA RecoveryInv == ASSUME IInv, NEW k \in Resources, RecoveryElapses(k) PROVE IInv'
<1>1. /\ breaker[k] \in BreakerType
      /\ breaker' = [breaker EXCEPT ![k] = [breaker[k] EXCEPT !.elapsed = TRUE]]
      /\ UNCHANGED <<pc, inside, attempts, paid, row>>
  BY DEF RecoveryElapses, IInv, TypeOK
<1>2. /\ [breaker[k] EXCEPT !.elapsed = TRUE] \in BreakerType
      /\ [breaker[k] EXCEPT !.elapsed = TRUE].state = breaker[k].state
      /\ [breaker[k] EXCEPT !.elapsed = TRUE].failures = breaker[k].failures
  BY <1>1 DEF BreakerType
<1>3. TypeOK'  BY <1>1, <1>2 DEF IInv, TypeOK
<1>4. OneFailurePerOperation'
  BY <1>1, <1>2 DEF IInv, TypeOK, OneFailurePerOperation
<1>5. (\A r \in Requests : AccountInv(r)') /\ GatesMatchProgress'
  BY <1>1 DEF IInv, AccountInv, GatesMatchProgress, OwnsByProgress
<1>6. QED  BY <1>3, <1>4, <1>5 DEF IInv

LEMMA NextInv == IInv /\ [Next]_vars => IInv'
<1> SUFFICES ASSUME IInv, [Next]_vars PROVE IInv'  OBVIOUS
<1>1. CASE UNCHANGED vars
  BY <1>1 DEF vars, IInv, TypeOK, AccountInv, GatesMatchProgress, OwnsByProgress,
              OneFailurePerOperation
<1>2. CASE Next
  BY <1>2, StartInv, EnterInv, ReserveInv, PacedInv, AdmitInv, EndInv, RetryInv,
     RecoveryInv DEF Next
<1>3. QED  BY <1>1, <1>2

LEMMA Invariance == Spec => []IInv
<1>1. QED  BY InitInv, NextInv, PTL DEF Spec

-----------------------------------------------------------------------------
\* The places, gates, breakers and accounts have their types: in particular no
\* operation is called more than max_attempts times.
THEOREM TypeCorrect == Spec => []TypeOK
<1>1. IInv => TypeOK  BY DEF IInv
<1>2. QED  BY <1>1, Invariance, PTL

\* A request owns the gates its progress demands, and none when it is over.
THEOREM GatesFollowProgress == Spec => []GatesMatchProgress
<1>1. IInv => GatesMatchProgress  BY DEF IInv
<1>2. QED  BY <1>1, Invariance, PTL

\* No call of an operation is made without a slot of the rate.
THEOREM CallsArePaid == Spec => []EveryCallPaid
<1>1. ASSUME IInv PROVE EveryCallPaid
  <2> SUFFICES ASSUME NEW r \in Requests
               PROVE  attempts[r] <= paid[r] /\ paid[r] <= attempts[r] + 1
    BY <1>1 DEF EveryCallPaid, IInv
  <2>1. /\ AccountInv(r) /\ pc[r] \in Places
        /\ attempts[r] \in 0..MaxAttempts /\ paid[r] \in Nat /\ MaxAttempts \in Nat
    BY <1>1, ManagerAssumption DEF IInv, TypeOK
  <2>2. QED  BY <2>1, PlaceNames DEF AccountInv
<1>2. QED  BY <1>1, Invariance, PTL

\* The breaker counts logical operations, however often they were attempted.
THEOREM OperationsAreCounted == Spec => []OneFailurePerOperation
<1>1. IInv => OneFailurePerOperation  BY DEF IInv
<1>2. QED  BY <1>1, Invariance, PTL

-----------------------------------------------------------------------------
(* No circle of waits                                                      *)

\* A request that waits at a gate owns wider ones only.
LEMMA OwnsWider ==
    ASSUME IInv, NEW k \in Requests, NEW g \in Gates, NEW h \in Gates,
           k \in inside[g], WaitsAt(k, h)
    PROVE  Depth[g] < Depth[h]
<1> DEFINE gates == GatesFor[Resource[k]]
<1>1. OwnsByProgress(k)  BY DEF IInv, GatesMatchProgress
<1>2. pc[k] \in {"queue", "ceiling"}  BY DEF WaitsAt
<1>3. PICK j \in 1..Len(gates) : g = gates[j] /\ \A i \in 1..j : k \in inside[gates[i]]
  BY <1>1, <1>2, PlaceNames DEF OwnsByProgress
<1>4. CASE pc[k] = "ceiling"
  <2>1. h = Ceiling  BY <1>4 DEF WaitsAt
  <2>2. g \in Gates \ {Ceiling}  BY <1>3, GatesOf
  <2>3. QED  BY <2>1, <2>2, OrderAssumption
<1>5. CASE pc[k] = "queue"
  <2>1. PICK n \in 1..Len(gates) : gates[n] = h /\ k \notin inside[h]
    BY <1>5 DEF WaitsAt, NextGate
  <2>2. Len(gates) \in Nat  BY ManagerAssumption
  <2>3. ~(n \in 1..j)  BY <1>3, <2>1
  <2>4. j \in 1..(n - 1)  BY <2>2, <2>3
  <2>5. Resource[k] \in Resources  BY ManagerAssumption
  <2>6. Depth[gates[j]] < Depth[gates[n]]  BY <2>4, <2>5, OrderAssumption
  <2>7. QED  BY <1>3, <2>1, <2>6
<1>6. QED  BY <1>2, <1>4, <1>5

\* Among requests that are all blocked, one wants a gate that none of the others
\* wants a deeper one than.
LEMMA DeepestWait ==
    ASSUME NEW blocked \in SUBSET Requests, NEW r0 \in blocked, NEW g0 \in Gates,
           WaitsAt(r0, g0)
    PROVE  \E r \in blocked, g \in Gates :
              /\ WaitsAt(r, g)
              /\ \A k \in blocked, h \in Gates : WaitsAt(k, h) => Depth[h] <= Depth[g]
<1> DEFINE Above(g) == Depth[Ceiling] - Depth[g]
           Levels == {n \in Nat : \E r \in blocked, g \in Gates : WaitsAt(r, g) /\ n = Above(g)}
<1>1. /\ Ceiling \in Gates /\ Depth[Ceiling] \in Nat
      /\ \A g \in Gates : Depth[g] \in Nat /\ Above(g) \in Nat
  <2>1. Ceiling \in Gates /\ \A g \in Gates : Depth[g] \in Nat
    BY ManagerAssumption, OrderAssumption
  <2>2. \A g \in Gates : Depth[g] <= Depth[Ceiling]
    <3>1. \A g \in Gates \ {Ceiling} : Depth[g] < Depth[Ceiling]  BY OrderAssumption
    <3>2. QED  BY <2>1, <3>1
  <2>3. QED  BY <2>1, <2>2
<1>2. Above(g0) \in Levels  BY <1>1
<1>3. PICK n \in Levels : \A m \in Levels : ~(<<m, n>> \in OpToRel(<, Nat))
  <2>1. Levels \subseteq Nat /\ Levels # {}  BY <1>2
  <2> HIDE DEF Levels
  <2>2. QED  BY <2>1, NatLessThanWellFounded, WFMin
<1>4. PICK r \in blocked, g \in Gates : WaitsAt(r, g) /\ n = Above(g)  OBVIOUS
<1>5. ASSUME NEW k \in blocked, NEW h \in Gates, WaitsAt(k, h) PROVE Depth[h] <= Depth[g]
  <2>1. Above(h) \in Levels /\ Above(h) \in Nat /\ n \in Nat  BY <1>1, <1>5
  <2>2. ~(Above(h) < n)  BY <1>3, <2>1 DEF OpToRel
  <2>3. QED  BY <1>1, <1>4, <2>1, <2>2
<1>6. QED  BY <1>4, <1>5

\* Whatever the scopes, their limits and the resources behind them: no requests
\* ever wait for one another only, nor for a slot that its owner has forgotten.
THEOREM WaitsFormNoCircle == Spec => []NoCircularWait
<1>1. ASSUME IInv PROVE NoCircularWait
  <2> SUFFICES ASSUME NEW blocked \in (SUBSET Requests) \ {{}},
                      \A r \in blocked : \E g \in Gates : WaitsAt(r, g)
               PROVE  \E r \in blocked, g \in Gates :
                         WaitsAt(r, g) /\ \E k \in inside[g] : pc[k] # "idle" /\ k \notin blocked
    BY DEF NoCircularWait
  <2>1. PICK r0 \in blocked, g0 \in Gates : WaitsAt(r0, g0)
    <3>1. PICK r0 \in blocked : TRUE  OBVIOUS
    <3>2. QED  BY <3>1
  <2>2. PICK r \in blocked, g \in Gates :
           /\ WaitsAt(r, g)
           /\ \A k \in blocked, h \in Gates : WaitsAt(k, h) => Depth[h] <= Depth[g]
    BY <2>1, DeepestWait
  <2>3. PICK k \in inside[g] : TRUE
    <3>1. Cardinality(inside[g]) >= Limit[g]  BY <2>2 DEF WaitsAt
    <3>2. Limit[g] \in Nat \ {0}  BY ManagerAssumption
    <3>3. CASE inside[g] = {}
      <4>1. Cardinality(inside[g]) = 0  BY <3>3, FS_EmptySet
      <4>2. QED  BY <3>1, <3>2, <4>1
    <3>4. QED  BY <3>3
  <2>4. k \in Requests /\ pc[k] # "idle"
    BY <1>1 DEF IInv, TypeOK, GatesMatchProgress, OwnsByProgress
  <2>5. k \notin blocked
    <3> SUFFICES ASSUME k \in blocked PROVE FALSE  OBVIOUS
    <3>1. PICK h \in Gates : WaitsAt(k, h)  OBVIOUS
    <3>2. Depth[g] < Depth[h]  BY <1>1, <2>4, <3>1, OwnsWider
    <3>3. Depth[h] <= Depth[g]  BY <2>2, <3>1
    <3>4. Depth[g] \in Nat /\ Depth[h] \in Nat  BY OrderAssumption
    <3>5. QED  BY <3>2, <3>3, <3>4
  <2>6. QED  BY <2>2, <2>4, <2>5
<1>2. QED  BY <1>1, Invariance, PTL
=============================================================================
