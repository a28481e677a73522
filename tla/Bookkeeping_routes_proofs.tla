---------------------- MODULE Bookkeeping_routes_proofs ----------------------
(***************************************************************************)
(* Proofs about the last stages of the bookkeeping, for every system that  *)
(* a boot file may describe: the ports of the routers, who is pointed at   *)
(* which, the init fragments that are waited for, that nothing is refused  *)
(* that is in order, and that every step gets on.                          *)
(***************************************************************************)
EXTENDS Bookkeeping_proofs

-----------------------------------------------------------------------------
(* The ports of the routers *)

\* The keys of a subsystem's routers, and those of all the routers.
Keys(s) == {<<s, Target(p)>> : p \in RoutersOf(s)}
AllKeys == UNION {Keys(s) : s \in Subs}

Untold == Early \union {"tables"}
Told == {"routes", "init", "done"}

\* The subsystems that AssignPorts is done with have their keys, numbered from 0 on
\* without a repetition, and no two routers of one have the same target.
PortsInv ==
    /\ IsFiniteSet(DOMAIN token)
    /\ \A k \in DOMAIN token : token[k] \in 0..(Cardinality(DOMAIN token) - 1)
    /\ \A k, l \in DOMAIN token : token[k] = token[l] => k = l
    /\ DOMAIN token \subseteq AllKeys
    /\ pc \in Untold => DOMAIN token = {}
    /\ pc = "ports" => todo \subseteq Subs
    /\ pc \in {"ports"} \union Told =>
          \A s \in Subs : pc \in Told \/ s \notin todo =>
              /\ Keys(s) \subseteq DOMAIN token
              /\ \A p, q \in RoutersOf(s) : Target(p) = Target(q) => p = q
    /\ pc = "ports" => \A s \in todo : Keys(s) \cap DOMAIN token = {}

\* The routers of a subsystem are processes, finitely many.
LEMMA RoutersTyped ==
    ASSUME BookkeepingAssumption, system \in Systems, NEW s \in Subs
    PROVE  /\ RoutersOf(s) \subseteq Procs /\ IsFiniteSet(RoutersOf(s))
           /\ \A k \in Keys(s) : k[1] = s /\ k \in Subs \X Types
<1>1. RoutersOf(s) \subseteq Procs
  BY SystemFacts DEF RoutersOf, RoutingManagers
<1>2. IsFiniteSet(RoutersOf(s))
  BY <1>1, SystemFacts, FS_Subset
<1>3. \A p \in RoutersOf(s) : Target(p) \in Types
  BY <1>1, SystemFacts DEF Types
<1> QED
  BY <1>1, <1>2, <1>3 DEF Keys

\* How AssignPorts numbers the routers of a subsystem: each is offset by those that
\* come before it.
LEMMA Numbering ==
    ASSUME BookkeepingAssumption, system \in Systems, NEW R, R \subseteq Procs,
           NEW p \in R, NEW q \in R, p # q
    PROVE  /\ Cardinality({r \in R : Before(r, p)}) \in 0..(Cardinality(R) - 1)
           /\ Cardinality({r \in R : Before(r, p)}) # Cardinality({r \in R : Before(r, q)})
<1> DEFINE B(x) == {r \in R : Before(r, x)}
<1>1. IsFiniteSet(R)
  BY SystemFacts, FS_Subset
<1>2. ASSUME NEW x \in R PROVE /\ IsFiniteSet(B(x)) /\ Cardinality(B(x)) \in Nat
                               /\ Cardinality(B(x)) < Cardinality(R)
  <2>1. B(x) \in SUBSET R /\ x \notin B(x)
    BY BeforeOrder
  <2>2. /\ IsFiniteSet(B(x)) /\ Cardinality(B(x)) <= Cardinality(R)
        /\ Cardinality(R) = Cardinality(B(x)) => R = B(x)
    <3> HIDE DEF B
    <3> QED
      BY <1>1, <2>1, FS_Subset
  <2>3. Cardinality(B(x)) \in Nat /\ Cardinality(R) \in Nat
    BY <1>1, <2>2, FS_CardinalityType
  <2>4. Cardinality(B(x)) # Cardinality(R)
    BY <2>1, <2>2
  <2> HIDE DEF B
  <2> QED
    BY <2>2, <2>3, <2>4
<1>3. ASSUME NEW x \in R, NEW y \in R, Before(x, y) PROVE Cardinality(B(x)) # Cardinality(B(y))
  <2>1. B(x) \in SUBSET B(y)
    BY <1>3, BeforeOrder
  <2>2. x \in B(y) /\ x \notin B(x)
    BY <1>3, BeforeOrder
  <2>3. IsFiniteSet(B(y))
    BY <1>2
  <2> HIDE DEF B
  <2>4. Cardinality(B(y)) = Cardinality(B(x)) => B(y) = B(x)
    BY <2>1, <2>3, FS_Subset
  <2> QED
    BY <2>2, <2>4
<1>4. Before(p, q) \/ Before(q, p)
  BY BeforeOrder
<1>5. Cardinality(B(p)) # Cardinality(B(q))
  BY <1>3, <1>4
<1>6. Cardinality(B(p)) \in Nat /\ Cardinality(B(p)) < Cardinality(R) /\ Cardinality(R) \in Nat
  BY <1>1, <1>2, FS_CardinalityType
<1>7. Cardinality(B(p)) \in 0..(Cardinality(R) - 1)
  <2> HIDE DEF B
  <2> QED
    BY <1>6
<1> QED
  BY <1>5, <1>7

\* Nothing but AssignPorts and PortsDone has to do with the ports.
LEMMA OutsidePorts ==
    ASSUME [Next]_vars, ~\E s \in Subs : AssignPorts(s), ~PortsDone
    PROVE  /\ UNCHANGED <<system, token>>
           /\ pc' \in Untold => pc \in Untold
           /\ pc' \in Told => pc \in Told
           /\ pc' = "ports" => (pc = "ports" /\ todo' = todo) \/ (pc = "tables" /\ todo' = Subs)
<1>1. UNCHANGED <<system, token>>
  BY DEF Next, vars, routing, CheckBootInfo, CountFragments, SearchFrom, Descend, FindCycle,
         Return, NoCycle, Expect, CheckDFOs, FillTable, NextTables, InitCounts, RoutesDone,
         RouteTables
<1>2. pc' \in Untold => pc \in Untold
  BY DEF Next, vars, CheckBootInfo, CountFragments, SearchFrom, Descend, FindCycle,
         Return, NoCycle, Expect, CheckDFOs, FillTable, NextTables, InitCounts, RoutesDone,
         RouteTables, Goto, Raise, Untold, Early
<1>3. pc' \in Told => pc \in Told
  BY DEF Next, vars, CheckBootInfo, CountFragments, SearchFrom, Descend, FindCycle,
         Return, NoCycle, Expect, CheckDFOs, FillTable, NextTables, InitCounts, RoutesDone,
         RouteTables, Goto, Raise, Told
<1>4. pc' = "ports" => pc = "ports" \/ NextTables
  BY DEF Next, vars, CheckBootInfo, CountFragments, SearchFrom, Descend, FindCycle,
         Return, NoCycle, Expect, CheckDFOs, FillTable, InitCounts, RoutesDone,
         RouteTables, Goto, Raise
<1>5. pc' = "ports" /\ NextTables => pc = "tables" /\ todo' = Subs
  BY DEF NextTables, Goto
<1>6. pc' = "ports" /\ pc = "ports" => todo' = todo
  BY DEF Next, vars, routing, CheckBootInfo, CountFragments, SearchFrom, Descend, FindCycle,
         Return, NoCycle, Expect, CheckDFOs, FillTable, NextTables, InitCounts, RoutesDone,
         RouteTables
<1>7. pc' = "ports" => (pc = "ports" /\ todo' = todo) \/ (pc = "tables" /\ todo' = Subs)
  BY <1>4, <1>5, <1>6
<1> QED
  BY <1>1, <1>2, <1>3, <1>7

\* The routers are in the order of their processes, and no two have the same port.
LEMMA PortsStep ==
    ASSUME BookkeepingAssumption, system \in Systems, PortsInv, [Next]_vars
    PROVE  PortsInv'
<1>1. CASE (~\E s \in Subs : AssignPorts(s)) /\ ~PortsDone
  <2>1. /\ UNCHANGED <<system, token>>
        /\ pc' \in Untold => pc \in Untold
        /\ pc' \in Told => pc \in Told
        /\ pc' = "ports" => (pc = "ports" /\ todo' = todo) \/ (pc = "tables" /\ todo' = Subs)
    BY <1>1, OutsidePorts
  <2>2. /\ UNCHANGED <<Subs, AllKeys>>
        /\ \A s : UNCHANGED <<Keys(s), RoutersOf(s)>> /\ \A p : UNCHANGED Target(p)
    BY <2>1 DEF Subs, AllKeys, Keys, RoutersOf, Target, RoutingManagers, Procs, Sources
  <2>3. pc = "tables" => DOMAIN token = {}
    BY DEF PortsInv, Untold
  <2>4. /\ IsFiniteSet(DOMAIN token') /\ DOMAIN token' \subseteq AllKeys'
        /\ \A k \in DOMAIN token' : token'[k] \in 0..(Cardinality(DOMAIN token') - 1)
        /\ \A k, l \in DOMAIN token' : token'[k] = token'[l] => k = l
    BY <2>1, <2>2 DEF PortsInv
  <2>5. pc' \in Untold => DOMAIN token' = {}
    BY <2>1 DEF PortsInv
  <2>6. pc' = "ports" => todo' \subseteq Subs' /\ \A s \in todo' : Keys(s)' \cap DOMAIN token' = {}
    BY <2>1, <2>2, <2>3 DEF PortsInv
  <2>7. ASSUME pc' \in {"ports"} \union Told, NEW s \in Subs', pc' \in Told \/ s \notin todo'
        PROVE  /\ Keys(s)' \subseteq DOMAIN token'
               /\ \A p, q \in RoutersOf(s)' : Target(p)' = Target(q)' => p = q
    <3>1. pc \in {"ports"} \union Told /\ (pc \in Told \/ s \notin todo) /\ s \in Subs
      BY <2>1, <2>2, <2>7 DEF Told
    <3> QED
      BY <2>1, <2>2, <3>1 DEF PortsInv
  <2> QED
    BY <2>4, <2>5, <2>6, <2>7 DEF PortsInv
<1>2. CASE PortsDone
  <2>1. /\ pc = "ports" /\ todo = {} /\ pc' = "routes" /\ UNCHANGED <<system, token>>
    BY <1>2 DEF PortsDone, Goto
  <2>2. /\ UNCHANGED <<Subs, AllKeys>>
        /\ \A s : UNCHANGED <<Keys(s), RoutersOf(s)>> /\ \A p : UNCHANGED Target(p)
    BY <2>1 DEF Subs, AllKeys, Keys, RoutersOf, Target, RoutingManagers, Procs, Sources
  <2>3. /\ IsFiniteSet(DOMAIN token') /\ DOMAIN token' \subseteq AllKeys'
        /\ \A k \in DOMAIN token' : token'[k] \in 0..(Cardinality(DOMAIN token') - 1)
        /\ \A k, l \in DOMAIN token' : token'[k] = token'[l] => k = l
    BY <2>1, <2>2 DEF PortsInv
  <2>4. pc' \notin Untold /\ pc' # "ports"
    BY <2>1 DEF Untold, Early
  <2>5. \A s \in Subs' : /\ Keys(s)' \subseteq DOMAIN token'
                         /\ \A p, q \in RoutersOf(s)' : Target(p)' = Target(q)' => p = q
    BY <2>1, <2>2 DEF PortsInv
  <2> QED
    BY <2>3, <2>4, <2>5 DEF PortsInv
<1>3. CASE \E s \in Subs : AssignPorts(s)
  <2>1. PICK s \in Subs : AssignPorts(s)
    BY <1>3
  <2> DEFINE R == RoutersOf(s)
             router(t) == CHOOSE p \in R : Target(p) = t
             targets == {Target(p) : p \in R}
             B(p) == Cardinality({r \in R : Before(r, p)})
             n == Cardinality(DOMAIN token)
  <2>2. /\ pc = "ports" /\ s \in todo /\ system' = system
        /\ IF Cardinality(targets) < Cardinality(R)
           THEN pc' = "raised" /\ UNCHANGED <<token, todo>>
           ELSE /\ token' = [k \in DOMAIN token \union ({s} \X targets) |->
                                IF k[1] # s THEN token[k] ELSE n + B(router(k[2]))]
                /\ todo' = todo \ {s} /\ pc' = "ports"
    BY <2>1 DEF AssignPorts, Raise
  <2>3. /\ UNCHANGED <<Subs, AllKeys>>
        /\ \A r : UNCHANGED <<Keys(r), RoutersOf(r)>> /\ \A p : UNCHANGED Target(p)
    <3>1. system' = system
      BY <2>2
    <3> HIDE DEF R, router, targets, B, n
    <3> QED
      BY <3>1 DEF Subs, AllKeys, Keys, RoutersOf, Target, RoutingManagers, Procs, Sources
  <2>4. CASE pc' = "raised"
    <3>1. token' = token /\ pc' \notin Untold /\ pc' \notin {"ports"} \union Told
      BY <2>2, <2>4 DEF Untold, Early, Told
    <3>2. /\ IsFiniteSet(DOMAIN token') /\ DOMAIN token' \subseteq AllKeys'
          /\ \A k \in DOMAIN token' : token'[k] \in 0..(Cardinality(DOMAIN token') - 1)
          /\ \A k, l \in DOMAIN token' : token'[k] = token'[l] => k = l
      BY <2>3, <3>1 DEF PortsInv
    <3> QED
      BY <3>1, <3>2 DEF PortsInv
  <2>5. CASE ~(Cardinality(targets) < Cardinality(R))
    <3>1. /\ R \subseteq Procs /\ IsFiniteSet(R) /\ \A k \in Keys(s) : k[1] = s
      BY RoutersTyped
    <3>2. /\ Cardinality(targets) = Cardinality(R) /\ IsFiniteSet(targets)
          /\ Cardinality(R) \in Nat
          /\ \A p, q \in R : Target(p) = Target(q) => p = q
      <4> DEFINE f == [p \in R |-> Target(p)]
      <4>1. targets = {f[p] : p \in R} /\ \A p \in R : f[p] = Target(p)
        OBVIOUS
      <4> HIDE DEF f, R
      <4>2. IsFiniteSet({f[p] : p \in R}) /\ Cardinality({f[p] : p \in R}) <= Cardinality(R)
        BY <3>1, ImageFinite
      <4>3. Cardinality(targets) \in Nat /\ Cardinality(R) \in Nat
        BY <3>1, <4>1, <4>2, FS_CardinalityType
      <4>4. Cardinality(targets) = Cardinality(R)
        BY <2>5, <4>1, <4>2, <4>3
      <4>5. \A p, q \in R : f[p] = f[q] => p = q
        BY <3>1, <4>1, <4>4, ImageApart
      <4> QED
        BY <4>1, <4>2, <4>3, <4>4, <4>5
    <3>3. ASSUME NEW t \in targets PROVE router(t) \in R /\ Target(router(t)) = t
      <4>1. \E p \in R : Target(p) = t
        OBVIOUS
      <4> QED
        BY <4>1
    <3>4. Keys(s) = {s} \X targets
      BY DEF Keys
    <3>5. /\ IsFiniteSet(DOMAIN token) /\ n \in Nat /\ DOMAIN token \cap Keys(s) = {}
          /\ todo \subseteq Subs
          /\ \A k \in DOMAIN token : token[k] \in 0..(n - 1)
          /\ \A k, l \in DOMAIN token : token[k] = token[l] => k = l
          /\ DOMAIN token \subseteq AllKeys
      BY <2>2, FS_CardinalityType DEF PortsInv
    <3>6. /\ DOMAIN token' = DOMAIN token \union Keys(s)
          /\ todo' = todo \ {s} /\ pc' = "ports"
          /\ \A k \in DOMAIN token' :
                token'[k] = IF k[1] # s THEN token[k] ELSE n + B(router(k[2]))
      BY <2>2, <2>5, <3>4
    <3>7. ASSUME NEW k \in DOMAIN token PROVE k[1] # s
      <4>1. PICK r \in Subs : k \in Keys(r)
        BY <3>5 DEF AllKeys
      <4>2. k[1] = r
        BY <4>1, RoutersTyped
      <4>3. k \notin Keys(s)
        BY <3>5, <3>7
      <4> QED
        BY <4>1, <4>2, <4>3
    <3>8. IsFiniteSet(DOMAIN token') /\ Cardinality(DOMAIN token') = n + Cardinality(R)
      <4> DEFINE pair == [t \in targets |-> <<s, t>>]
      <4> HIDE DEF targets
      <4>1. Keys(s) = {pair[t] : t \in targets}
        BY <3>4
      <4>2. \A t, u \in targets : pair[t] = pair[u] => t = u
        OBVIOUS
      <4> HIDE DEF pair
      <4>3. IsFiniteSet(Keys(s)) /\ Cardinality(Keys(s)) = Cardinality(targets)
        <5>1. IsFiniteSet({pair[t] : t \in targets})
          BY <3>2, ImageFinite
        <5>2. Cardinality({pair[t] : t \in targets}) = Cardinality(targets)
          BY <3>2, <4>2, ImageApart
        <5> QED
          BY <4>1, <5>1, <5>2
      <4>4. /\ IsFiniteSet(DOMAIN token \union Keys(s))
            /\ Cardinality(DOMAIN token \union Keys(s)) =
                  n + Cardinality(Keys(s)) - Cardinality(DOMAIN token \cap Keys(s))
        BY <3>5, <4>3, FS_Union
      <4>5. Cardinality(DOMAIN token \cap Keys(s)) = 0
        BY <3>5, FS_EmptySet
      <4> QED
        BY <3>2, <3>5, <3>6, <4>3, <4>4, <4>5
    <3>9. ASSUME NEW k \in Keys(s)
          PROVE  /\ k[2] \in targets /\ k = <<s, k[2]>>
                 /\ token'[k] = n + B(router(k[2]))
                 /\ B(router(k[2])) \in 0..(Cardinality(R) - 1)
      <4>1. k[1] = s /\ k[2] \in targets /\ k = <<s, k[2]>> /\ k \in DOMAIN token'
        BY <3>4, <3>6
      <4>2. router(k[2]) \in R
        BY <3>3, <4>1
      <4> DEFINE x == router(k[2])
      <4>3. B(x) \in 0..(Cardinality(R) - 1)
        <5> HIDE DEF x, R
        <5>1. CASE \E q \in R : q # x
          <6>1. PICK q \in R : q # x
            BY <5>1
          <6>2. x \in R
            BY <4>2 DEF x
          <6>3. Cardinality({r \in R : Before(r, x)}) \in 0..(Cardinality(R) - 1)
            BY <3>1, <6>1, <6>2, Numbering
          <6> QED
            BY <6>3
        <5>2. CASE R = {x}
          <6>1. {r \in R : Before(r, x)} = {}
            BY <3>1, <5>2, BeforeOrder
          <6>2. B(x) = 0 /\ Cardinality(R) = 1
            BY <5>2, <6>1, FS_EmptySet, FS_Singleton
          <6> QED
            BY <6>2
        <5>3. x \in R
          BY <4>2 DEF x
        <5> QED
          BY <5>1, <5>2, <5>3
      <4>4. token'[k] = n + B(router(k[2]))
        BY <3>6, <4>1
      <4> QED
        BY <4>1, <4>3, <4>4
    <3>10. ASSUME NEW k \in DOMAIN token PROVE token'[k] = token[k]
      BY <3>6, <3>7
    <3>11. \A k \in DOMAIN token' : token'[k] \in 0..(Cardinality(DOMAIN token') - 1)
      <4> DEFINE m == n + Cardinality(R)
      <4>0. m = Cardinality(DOMAIN token')
        BY <3>8
      <4> SUFFICES ASSUME NEW k \in DOMAIN token' PROVE token'[k] \in 0..(m - 1)
        <5> HIDE DEF m
        <5> QED
          BY <4>0
      <4>1. CASE k \in DOMAIN token
        <5>1. token[k] \in 0..(n - 1) /\ token'[k] = token[k]
          BY <3>5, <3>10, <4>1
        <5> HIDE DEF n, R
        <5> QED
          BY <3>2, <3>5, <5>1
      <4>2. CASE k \in Keys(s)
        <5> DEFINE b == B(router(k[2]))
        <5>1. token'[k] = n + b /\ b \in 0..(Cardinality(R) - 1)
          BY <3>9, <4>2
        <5> HIDE DEF n, R, b
        <5> QED
          BY <3>2, <3>5, <5>1
      <4> QED
        BY <3>6, <4>1, <4>2
    <3>12. ASSUME NEW k \in DOMAIN token', NEW l \in DOMAIN token', token'[k] = token'[l]
           PROVE  k = l
      <4>1. ASSUME NEW x \in DOMAIN token, NEW y \in Keys(s) PROVE token'[x] # token'[y]
        <5> DEFINE b == B(router(y[2]))
        <5>1. token'[x] \in 0..(n - 1)
          BY <3>5, <3>10
        <5>2. token'[y] = n + b /\ b \in Nat
          BY <3>9
        <5> HIDE DEF n, b
        <5> QED
          BY <3>5, <5>1, <5>2
      <4>2. CASE k \in DOMAIN token /\ l \in DOMAIN token
        BY <3>5, <3>10, <3>12, <4>2
      <4>3. CASE k \in Keys(s) /\ l \in Keys(s)
        <5> DEFINE x == router(k[2])
                   y == router(l[2])
        <5>1. x \in R /\ y \in R /\ Target(x) = k[2] /\ Target(y) = l[2]
          BY <3>3, <3>9, <4>3
        <5>2. /\ token'[k] = n + B(x) /\ token'[l] = n + B(y) /\ B(x) \in Nat /\ B(y) \in Nat
              /\ k = <<s, k[2]>> /\ l = <<s, l[2]>>
          <6>1. /\ token'[k] = n + B(x) /\ token'[l] = n + B(y)
                /\ B(x) \in 0..(Cardinality(R) - 1) /\ B(y) \in 0..(Cardinality(R) - 1)
                /\ k = <<s, k[2]>> /\ l = <<s, l[2]>>
            BY <3>9, <4>3
          <6> HIDE DEF B, n, x, y, R
          <6> QED
            BY <6>1
        <5>3. B(x) = B(y)
          <6>1. n \in Nat
            BY <3>5
          <6>2. n + B(x) = n + B(y)
            BY <3>12, <5>2
          <6> DEFINE b == B(x)
                     c == B(y)
          <6>3. b \in Nat /\ c \in Nat /\ n + b = n + c
            BY <5>2, <6>2
          <6> HIDE DEF b, c, n
          <6>4. b = c
            BY <6>1, <6>3
          <6> QED
            BY <6>4 DEF b, c
        <5>4. x = y
          <6> SUFFICES ASSUME x # y PROVE FALSE
            OBVIOUS
          <6> HIDE DEF x, y, R
          <6>1. Cardinality({r \in R : Before(r, x)}) # Cardinality({r \in R : Before(r, y)})
            BY <3>1, <5>1, Numbering
          <6> QED
            BY <5>3, <6>1
        <5> HIDE DEF x, y
        <5> QED
          BY <5>1, <5>2, <5>4
      <4>4. /\ k \in DOMAIN token \/ k \in Keys(s)
            /\ l \in DOMAIN token \/ l \in Keys(s)
        BY <3>6
      <4> QED
        BY <3>12, <4>1, <4>2, <4>3, <4>4
    <3>13. DOMAIN token' \subseteq AllKeys'
      BY <2>3, <3>5, <3>6 DEF AllKeys
    <3>14. todo' \subseteq Subs' /\ \A r \in todo' : Keys(r)' \cap DOMAIN token' = {}
      <4>1. todo' \subseteq Subs'
        BY <2>3, <3>5, <3>6
      <4>2. ASSUME NEW r \in todo' PROVE Keys(r) \cap DOMAIN token' = {}
        <5>1. r \in todo /\ r # s /\ r \in Subs
          BY <3>5, <3>6
        <5>2. Keys(r) \cap DOMAIN token = {}
          BY <2>2, <5>1 DEF PortsInv
        <5>3. \A k \in Keys(r) : k[1] = r
          BY <5>1, RoutersTyped
        <5> QED
          BY <3>1, <3>6, <5>1, <5>2, <5>3
      <4> QED
        BY <2>3, <4>1, <4>2
    <3>15. ASSUME NEW r \in Subs, r \notin todo'
           PROVE  /\ Keys(r) \subseteq DOMAIN token'
                  /\ \A p, q \in RoutersOf(r) : Target(p) = Target(q) => p = q
      <4>1. CASE r = s
        BY <3>2, <3>6, <4>1
      <4>2. CASE r # s
        <5>1. r \notin todo
          BY <3>6, <3>15, <4>2
        <5> QED
          BY <2>2, <3>6, <5>1 DEF PortsInv
      <4> QED
        BY <4>1, <4>2
    <3>16. pc' = "ports" /\ pc' \notin Untold /\ pc' \notin Told
      BY <3>6 DEF Untold, Early, Told
    <3> HIDE DEF R, router, targets, B, n
    <3> QED
      BY <2>3, <3>8, <3>11, <3>12, <3>13, <3>14, <3>15, <3>16 DEF PortsInv
  <2> QED
    BY <2>2, <2>4, <2>5
<1> QED
  BY <1>1, <1>2, <1>3

\* There are no more keys than routers, of which a partition has room for 45.
LEMMA FewKeys ==
    ASSUME BookkeepingAssumption, system \in Systems, PortsInv
    PROVE  Cardinality(DOMAIN token) \in 0..45
<1> DEFINE f == [x \in Routing(system) |-> <<x[1], Target(x[2])>>]
           image == {f[x] : x \in Routing(system)}
<1>1. IsSystem(system)
  BY DEF BookkeepingAssumption
<1>2. IsFiniteSet(Routing(system)) /\ Cardinality(Routing(system)) <= 45
  <2>1. Routing(system) \subseteq Subs \X Procs
    BY DEF Routing, Subs, Procs
  <2>2. IsFiniteSet(Subs \X Procs)
    BY SystemFacts, FS_Product
  <2>3. IsFiniteSet(Routing(system))
    BY <2>1, <2>2, FS_Subset
  <2> QED
    BY <1>1, <2>3 DEF IsSystem
<1>3. ASSUME NEW k \in DOMAIN token PROVE k \in image
  <2>1. PICK s \in Subs : k \in Keys(s)
    BY DEF PortsInv, AllKeys
  <2>2. PICK p \in RoutersOf(s) : k = <<s, Target(p)>>
    BY <2>1 DEF Keys
  <2>3. p \in Procs
    BY RoutersTyped
  <2>4. <<s, p>> \in Routing(system)
    BY <2>3 DEF RoutersOf, Routing, RoutingManagers, Subs, Procs, Sources
  <2>5. f[<<s, p>>] = k
    BY <2>2, <2>4
  <2> QED
    BY <2>4, <2>5
<1> HIDE DEF f
<1>4. IsFiniteSet(image) /\ Cardinality(image) <= Cardinality(Routing(system))
  BY <1>2, ImageFinite
<1>5. DOMAIN token \in SUBSET image
  BY <1>3
<1> HIDE DEF image
<1>6. Cardinality(DOMAIN token) <= Cardinality(image) /\ IsFiniteSet(DOMAIN token)
  BY <1>4, <1>5, FS_Subset
<1>7. /\ Cardinality(DOMAIN token) \in Nat /\ Cardinality(image) \in Nat
      /\ Cardinality(Routing(system)) \in Nat
  BY <1>2, <1>4, <1>6, FS_CardinalityType
<1> QED
  BY <1>2, <1>4, <1>6, <1>7

\* No two ports are the same, and all are below those of the processes.
LEMMA PortsAreApart ==
    ASSUME BookkeepingAssumption, system \in Systems, PortsInv
    PROVE  PortsApart
<1> DEFINE keys == DOMAIN token
           n == Cardinality(keys)
           base == BasePort + 10 + PortsPerPartition * Partition
           one == [k \in keys |-> RouterPort(k)]
           two == [k \in keys |-> UpdatePort(k)]
           A == {one[k] : k \in keys}
           B == {two[k] : k \in keys}
<1>1. n \in 0..45 /\ IsFiniteSet(keys)
  BY FewKeys DEF PortsInv
<1>2. BasePort \in Nat /\ PortsPerPartition \in Nat /\ Partition \in Nat
  BY DEF BookkeepingAssumption
<1>3. base \in Nat
  BY <1>2
<1>4. \A k \in keys : token[k] \in 0..(n - 1)
  BY DEF PortsInv
<1>5. \A k, l \in keys : token[k] = token[l] => k = l
  BY DEF PortsInv
<1>6. \A k \in keys : one[k] = base + token[k] /\ two[k] = base + token[k] + n
  BY DEF RouterPort, UpdatePort
<1>7. A \union B = {RouterPort(k) : k \in keys} \union {UpdatePort(k) : k \in keys}
  OBVIOUS
<1> HIDE DEF keys, n, base, one, two
<1>8. (\A k, l \in keys : one[k] = one[l] => k = l) /\ (\A k, l \in keys : two[k] = two[l] => k = l)
  <2> SUFFICES ASSUME NEW k \in keys, NEW l \in keys
               PROVE  (one[k] = one[l] => k = l) /\ (two[k] = two[l] => k = l)
    OBVIOUS
  <2>1. token[k] \in Nat /\ token[l] \in Nat /\ n \in Nat
    BY <1>1, <1>4
  <2>2. one[k] = one[l] \/ two[k] = two[l] => token[k] = token[l]
    BY <1>3, <1>6, <2>1
  <2> QED
    BY <1>5, <2>2
<1>9. IsFiniteSet(A) /\ IsFiniteSet(B) /\ Cardinality(A) = n /\ Cardinality(B) = n
  <2>1. IsFiniteSet(A) /\ IsFiniteSet(B)
    BY <1>1, ImageFinite
  <2>2. Cardinality(A) = Cardinality(keys)
    BY <1>1, <1>8, ImageApart
  <2>3. Cardinality(B) = Cardinality(keys)
    BY <1>1, <1>8, ImageApart
  <2> QED
    BY <2>1, <2>2, <2>3 DEF n
<1>10. A \cap B = {}
  <2> SUFFICES ASSUME NEW k \in keys, NEW l \in keys, one[k] = two[l] PROVE FALSE
    OBVIOUS
  <2>1. token[k] \in 0..(n - 1) /\ token[l] \in 0..(n - 1)
    BY <1>4
  <2>2. base + token[k] = base + token[l] + n
    BY <1>6
  <2> QED
    BY <1>1, <1>3, <2>1, <2>2
<1>11. Cardinality(A \union B) = 2 * n
  <2> HIDE DEF A, B
  <2>1. Cardinality(A \union B) = Cardinality(A) + Cardinality(B) - Cardinality(A \cap B)
    BY <1>9, FS_Union
  <2>2. Cardinality(A \cap B) = 0
    BY <1>10, FS_EmptySet
  <2>3. n \in Nat
    BY <1>1
  <2> QED
    BY <1>9, <2>1, <2>2, <2>3
<1>12. ASSUME NEW p \in Procs
       PROVE  /\ \A x \in A \union B : x < ProcessPort(p)
              /\ ProcessPort(p) < BasePort + 10 + PortsPerPartition * (Partition + 1)
  <2>1. p \in Nat /\ p + 90 < PortsPerPartition
    <3>1. IsSystem(system)
      BY DEF BookkeepingAssumption
    <3> QED
      BY <3>1 DEF IsSystem, Procs
  <2>2. ProcessPort(p) = base + 90 + p
    BY <1>2, <2>1 DEF ProcessPort, base
  <2>3. PortsPerPartition * (Partition + 1) = PortsPerPartition * Partition + PortsPerPartition
    BY <1>2
  <2>4. BasePort + 10 + PortsPerPartition * (Partition + 1) = base + PortsPerPartition
    <3>1. PortsPerPartition * Partition \in Nat /\ PortsPerPartition * (Partition + 1) \in Nat
      BY <1>2
    <3> QED
      BY <1>2, <2>3, <3>1 DEF base
  <2>5. ASSUME NEW x \in A \union B PROVE x < base + 90
    <3>1. PICK k \in keys : x = one[k] \/ x = two[k]
      OBVIOUS
    <3>2. token[k] \in 0..(n - 1) /\ (x = base + token[k] \/ x = base + token[k] + n)
      BY <1>4, <1>6, <3>1
    <3> QED
      BY <1>1, <1>3, <3>2
  <2>6. ASSUME NEW x \in A \union B PROVE x \in Nat
    <3>1. PICK k \in keys : x = one[k] \/ x = two[k]
      OBVIOUS
    <3>2. token[k] \in 0..(n - 1) /\ (x = base + token[k] \/ x = base + token[k] + n)
      BY <1>4, <1>6, <3>1
    <3> QED
      BY <1>1, <1>3, <3>2
  <2> HIDE DEF A, B
  <2>7. \A x \in A \union B : x < ProcessPort(p)
    BY <1>3, <2>1, <2>2, <2>5, <2>6
  <2>8. ProcessPort(p) < base + PortsPerPartition
    BY <1>2, <1>3, <2>1, <2>2
  <2> QED
    BY <2>4, <2>7, <2>8
<1> HIDE DEF A, B
<1> QED
  BY <1>7, <1>11, <1>12 DEF PortsApart, keys, n

-----------------------------------------------------------------------------
(* What is refused *)

\* In a legal system every router that a process is pointed at has its key.
LEMMA LegalKeys ==
    ASSUME BookkeepingAssumption, system \in Systems, Legal, PortsInv, pc = "routes",
           NEW p \in Procs
    PROVE  {Route(p).own, Route(p).table} \subseteq DOMAIN token \union {NoRoute}
<1>1. \A s \in Subs : \A q \in RoutersOf(s) : <<s, Target(q)>> \in DOMAIN token
  BY DEF PortsInv, Keys, Told
<1>2. /\ \A s, r \in Subs : r \in Sources(s) <=> Destination(r) = s
      /\ \A s \in Subs : Destination(s) \in Subs \union {None}
  BY DEF Legal, Mutual
<1>3. system.sub[p] \in Subs
  BY SystemFacts
<1>4. CASE p \in RoutingManagers
  <2>1. p \notin system.dfos
    BY <1>4, SystemFacts DEF RoutingManagers
  <2>2. p \in RoutersOf(system.sub[p])
    BY <1>4 DEF RoutersOf
  <2>3. OwnKey(p) = <<system.sub[p], Target(p)>>
    BY <2>1 DEF OwnKey
  <2>4. Route(p).own = OwnKey(p) /\ Route(p).table = NoRoute
    BY <1>4 DEF Route
  <2> QED
    BY <1>1, <1>3, <2>2, <2>3, <2>4
<1>5. CASE p \in system.dfos
  <2> DEFINE d == Destination(system.sub[p])
  <2>1. d \in Subs
    BY <1>2, <1>3, <1>5 DEF Legal
  <2>2. system.sub[p] \in Sources(d)
    BY <1>2, <1>3, <2>1
  <2>3. p \in RoutersOf(d)
    BY <1>5, <2>2 DEF RoutersOf
  <2>4. OwnKey(p) = <<d, Target(p)>>
    BY <1>5 DEF OwnKey
  <2>5. Route(p).own = OwnKey(p) /\ Route(p).table = NoRoute
    BY <1>5 DEF Route
  <2> QED
    BY <1>1, <2>1, <2>3, <2>4, <2>5
<1>6. CASE p \notin system.dfos \union RoutingManagers
  <2>1. Route(p).own = NoRoute /\ Route(p).table = TableKey(p)
    BY <1>6 DEF Route
  <2> DEFINE s == system.sub[p]
  <2>2. CASE system.type[p] = "EventBuilder" /\ s \in ParentsOfRouted
    <3>1. PICK r \in RoutingManagers : s \in Sources(system.sub[r])
      BY <2>2 DEF ParentsOfRouted
    <3>2. system.sub[r] \in Subs
      BY SystemFacts DEF RoutingManagers
    <3>3. Destination(s) = system.sub[r]
      BY <1>2, <1>3, <3>1, <3>2
    <3>4. PICK q \in RoutingManagers : system.sub[q] = system.sub[r] /\ Target(q) = "EventBuilder"
      BY <3>1 DEF Legal
    <3>5. q \in RoutersOf(system.sub[r])
      BY <3>4 DEF RoutersOf
    <3>6. TableKey(p) = <<Destination(s), "EventBuilder">>
      BY <2>2 DEF TableKey
    <3> QED
      BY <1>1, <2>1, <3>2, <3>3, <3>4, <3>5, <3>6
  <2>3. CASE ~(system.type[p] = "EventBuilder" /\ s \in ParentsOfRouted)
    <3>1. TableKey(p) \in DOMAIN token \union {NoRoute}
      BY <2>3 DEF TableKey
    <3> QED
      BY <2>1, <3>1
  <2> QED
    BY <2>2, <2>3
<1> QED
  BY <1>4, <1>5, <1>6

\* Whether a system is legal is said by the boot file.
LEMMA LegalSame == ASSUME UNCHANGED system PROVE Legal' <=> Legal
BY DEF Legal, RoutingManagers, Procs, Subs, Mutual, Sources, Destination, HasCycle, Group,
       RoutersOf, Target

\* Whatever is raised, the system is not a legal one.
LEMMA LegalStep ==
    ASSUME Booked, PortsInv, LegalIsBooked, [Next]_vars
    PROVE  LegalIsBooked'
<1> SUFFICES ASSUME pc' = "raised", pc # "raised" PROVE ~Legal'
  <2>1. CASE pc' = "raised" /\ pc = "raised"
    <3>1. UNCHANGED system
      BY BookkeepingAssumption, StagesStep DEF Booked
    <3> QED
      BY <2>1, <3>1, LegalSame DEF LegalIsBooked
  <2> QED
    BY <2>1 DEF LegalIsBooked
<1>1. BookkeepingAssumption /\ system \in Systems
  BY BookkeepingAssumption DEF Booked
<1>2. UNCHANGED system
  BY <1>1, StagesStep DEF Booked
<1>3. Legal' <=> Legal
  BY <1>2, LegalSame
<1>4. SUFFICES ASSUME Legal PROVE FALSE
  BY <1>3
<1>5. /\ \A s, r \in Subs : r \in Sources(s) <=> Destination(r) = s
      /\ \A s \in Subs : Destination(s) \in Subs \union {None}
      /\ \A s \in Subs : Sources(s) \subseteq Subs
      /\ ~HasCycle /\ Cardinality(RoutingManagers) <= Cardinality(Subs)
  BY <1>4 DEF Legal, Mutual
<1>6. ~CheckBootInfo
  <2> SUFFICES ASSUME CheckBootInfo PROVE FALSE
    OBVIOUS
  <2>1. \A s \in Subs : Destination(s) # None =>
            Destination(s) \in Subs /\ s \in Sources(Destination(s))
    BY <1>5
  <2>2. pc' = "count"
    BY <1>5, <2>1 DEF CheckBootInfo, Goto
  <2> QED
    BY <2>2
<1>7. ~FindCycle
  <2> SUFFICES ASSUME FindCycle PROVE FALSE
    OBVIOUS
  <2>1. reason' = "cycle"
    BY DEF FindCycle, Raise
  <2>2. SearchInv'
    BY FindCycleStep DEF Booked
  <2>3. HasCycle'
    BY <2>1, <2>2 DEF SearchInv
  <2> QED
    BY <1>2, <1>5, <2>3 DEF HasCycle, Subs, Sources
<1>8. ~Expect
  BY <1>5 DEF Expect, Goto
<1>9. ~CheckDFOs
  BY <1>4 DEF CheckDFOs, Legal, Goto
<1>10. ASSUME NEW s \in Subs PROVE ~AssignPorts(s)
  <2> DEFINE R == RoutersOf(s)
             f == [p \in R |-> Target(p)]
             targets == {Target(p) : p \in R}
  <2>1. IsFiniteSet(R)
    BY <1>1, RoutersTyped
  <2>2. \A p, q \in R : f[p] = f[q] => p = q
    BY <1>4 DEF Legal
  <2>3. targets = {f[p] : p \in R}
    OBVIOUS
  <2> HIDE DEF f, R, targets
  <2>4. Cardinality({f[p] : p \in R}) = Cardinality(R)
    BY <2>1, <2>2, ImageApart
  <2>5. Cardinality(R) \in Nat
    BY <2>1, FS_CardinalityType
  <2>6. ~(Cardinality(targets) < Cardinality(R))
    BY <2>3, <2>4, <2>5
  <2> QED
    BY <2>6 DEF AssignPorts, R, targets
<1>11. ASSUME NEW p \in Procs PROVE ~RouteTables(p)
  BY <1>1, <1>4, LegalKeys DEF RouteTables, Booked
<1>12. pc' # "raised"
  BY <1>6, <1>7, <1>8, <1>9, <1>10, <1>11
     DEF Next, vars, CountFragments, SearchFrom, Descend, Return, NoCycle, FillTable, NextTables,
         InitCounts, PortsDone, RoutesDone, Goto
<1> QED
  BY <1>12

-----------------------------------------------------------------------------
(* Who is pointed at which router, and the counts of init fragments *)

\* RouteTables points the processes it is done with where Route says, at routers
\* that there are.
RoutedRight(p) ==
    /\ routes[p] = Route(p)
    /\ {Route(p).own, Route(p).table} \subseteq DOMAIN token \union {NoRoute}

RoutesInv ==
    /\ DOMAIN routes = Procs
    /\ pc = "routes" => todo \subseteq Procs /\ \A p \in Procs \ todo : RoutedRight(p)
    /\ pc \in {"init", "done"} => \A p \in Procs : RoutedRight(p)

\* InitCounts gives the processes of the subsystems it is done with the count of the
\* first of their type.
CountRight(p) == initCount[p] = Incoming(First(Group(system.sub[p], system.type[p])))

CountsInv ==
    /\ pc = "init" => todo \subseteq Subs /\ \A p \in Procs : system.sub[p] \notin todo => CountRight(p)
    /\ pc = "done" => \A p \in Procs : CountRight(p)

\* Nothing else writes the routes.
LEMMA OutsideRoutes ==
    ASSUME [Next]_vars, ~\E p \in Procs : RouteTables(p), ~RoutesDone, ~PortsDone
    PROVE  /\ UNCHANGED <<system, routes>>
           /\ pc' = "routes" => pc = "routes" /\ UNCHANGED <<todo, token>>
           /\ pc' \in {"init", "done"} => pc \in {"init", "done"} /\ UNCHANGED token
<1>1. UNCHANGED <<system, routes>>
  BY DEF Next, vars, routing, CheckBootInfo, CountFragments, SearchFrom, Descend, FindCycle,
         Return, NoCycle, Expect, CheckDFOs, FillTable, NextTables, AssignPorts, InitCounts
<1>2. pc' = "routes" => pc = "routes" /\ UNCHANGED <<todo, token>>
  BY DEF Next, vars, routing, CheckBootInfo, CountFragments, SearchFrom, Descend, FindCycle,
         Return, NoCycle, Expect, CheckDFOs, FillTable, NextTables, AssignPorts, InitCounts,
         Goto, Raise
<1>3. pc' \in {"init", "done"} => pc \in {"init", "done"} /\ UNCHANGED token
  BY DEF Next, vars, routing, CheckBootInfo, CountFragments, SearchFrom, Descend, FindCycle,
         Return, NoCycle, Expect, CheckDFOs, FillTable, NextTables, AssignPorts, InitCounts,
         Goto, Raise
<1> QED
  BY <1>1, <1>2, <1>3

\* The routes are those of Route, and stay so.
LEMMA RoutesStep ==
    ASSUME RoutesInv, [Next]_vars
    PROVE  RoutesInv'
<1>1. ASSUME UNCHANGED <<system, token>>
      PROVE  /\ UNCHANGED <<Procs, Subs>> /\ \A p : UNCHANGED Route(p)
  BY <1>1 DEF Procs, Subs, Route, OwnKey, TableKey, TokensKey, Target, RoutingManagers,
              ParentsOfRouted, Destination, Sources
<1>2. CASE (~\E p \in Procs : RouteTables(p)) /\ ~RoutesDone /\ ~PortsDone
  <2>1. /\ UNCHANGED <<system, routes>>
        /\ pc' = "routes" => pc = "routes" /\ UNCHANGED <<todo, token>>
        /\ pc' \in {"init", "done"} => pc \in {"init", "done"} /\ UNCHANGED token
    BY <1>2, OutsideRoutes
  <2>2. UNCHANGED Procs
    BY <2>1 DEF Procs
  <2>3. DOMAIN routes' = Procs'
    BY <2>1, <2>2 DEF RoutesInv
  <2>4. CASE pc' = "routes" \/ pc' \in {"init", "done"}
    <3>1. UNCHANGED <<system, token, routes>>
      BY <2>1, <2>4
    <3>2. \A p : RoutedRight(p)' <=> RoutedRight(p)
      BY <1>1, <3>1 DEF RoutedRight
    <3> QED
      BY <2>1, <2>2, <2>3, <3>2 DEF RoutesInv
  <2> QED
    BY <2>3, <2>4 DEF RoutesInv
<1>3. CASE PortsDone
  <2>1. pc' = "routes" /\ todo' = Procs /\ UNCHANGED <<system, token, routes>>
    BY <1>3 DEF PortsDone, Goto
  <2> QED
    BY <1>1, <2>1 DEF RoutesInv
<1>4. CASE RoutesDone
  <2>1. pc = "routes" /\ todo = {} /\ pc' = "init" /\ UNCHANGED <<system, token, routes>>
    BY <1>4 DEF RoutesDone, Goto
  <2>2. \A p : RoutedRight(p)' <=> RoutedRight(p)
    BY <1>1, <2>1 DEF RoutedRight
  <2> QED
    BY <1>1, <2>1, <2>2 DEF RoutesInv
<1>5. CASE \E p \in Procs : RouteTables(p)
  <2>1. PICK p \in Procs : RouteTables(p)
    BY <1>5
  <2>2. pc = "routes" /\ UNCHANGED <<system, token>>
    BY <2>1 DEF RouteTables
  <2>3. CASE {Route(p).own, Route(p).table} \subseteq DOMAIN token \union {NoRoute}
    <3>1. /\ routes' = [routes EXCEPT ![p] = Route(p)] /\ todo' = todo \ {p} /\ pc' = "routes"
      BY <2>1, <2>3 DEF RouteTables
    <3>2. /\ DOMAIN routes' = Procs /\ routes'[p] = Route(p)
          /\ \A q \in Procs : q # p => routes'[q] = routes[q]
      BY <3>1 DEF RoutesInv
    <3>3. ASSUME NEW q \in Procs, q \notin todo' PROVE RoutedRight(q)'
      <4>1. CASE q = p
        BY <1>1, <2>2, <2>3, <3>2, <4>1 DEF RoutedRight
      <4>2. CASE q # p
        <5>1. RoutedRight(q)
          BY <2>2, <3>1, <3>3, <4>2 DEF RoutesInv
        <5> QED
          BY <1>1, <2>2, <3>2, <4>2, <5>1 DEF RoutedRight
      <4> QED
        BY <4>1, <4>2
    <3>4. todo' \subseteq Procs
      BY <2>2, <3>1 DEF RoutesInv
    <3> QED
      BY <1>1, <2>2, <3>1, <3>2, <3>3, <3>4 DEF RoutesInv
  <2>4. CASE ~({Route(p).own, Route(p).table} \subseteq DOMAIN token \union {NoRoute})
    <3>1. pc' = "raised" /\ UNCHANGED routes
      BY <2>1, <2>4 DEF RouteTables, Raise
    <3> QED
      BY <1>1, <2>2, <3>1 DEF RoutesInv
  <2> QED
    BY <2>3, <2>4
<1> QED
  BY <1>2, <1>3, <1>4, <1>5

\* Nothing but InitCounts and the stage before it has to do with the counts.
LEMMA OutsideCounts ==
    ASSUME [Next]_vars, ~\E s \in Subs : InitCounts(s), ~RoutesDone
    PROVE  /\ pc' = "init" => pc = "init" /\ UNCHANGED <<todo, initCount, docs>>
           /\ pc' = "done" => pc = "done" /\ UNCHANGED <<initCount, docs>>
BY DEF Next, vars, routing, filling, CheckBootInfo, CountFragments, SearchFrom, Descend,
       FindCycle, Return, NoCycle, Expect, CheckDFOs, FillTable, NextTables, AssignPorts,
       PortsDone, RouteTables, Goto, Raise

\* The counts are those of the first process of each type, and stay so.
LEMMA CountsStep ==
    ASSUME BookkeepingAssumption, system \in Systems, StagesInv, CountsInv, [Next]_vars
    PROVE  CountsInv'
<1>1. system' = system
  BY StagesStep
<1>2. ASSUME UNCHANGED docs
      PROVE  \A p : UNCHANGED Incoming(First(Group(system.sub[p], system.type[p])))
  BY <1>1, <1>2 DEF Incoming, First, Group, FromSenders, SendsViaRootNetOutput, Sources, Procs,
                    Before
<1>3. UNCHANGED <<Procs, Subs>>
  BY <1>1 DEF Procs, Subs
<1>4. CASE (~\E s \in Subs : InitCounts(s)) /\ ~RoutesDone
  <2>1. /\ pc' = "init" => pc = "init" /\ UNCHANGED <<todo, initCount, docs>>
        /\ pc' = "done" => pc = "done" /\ UNCHANGED <<initCount, docs>>
    BY <1>4, OutsideCounts
  <2>2. ASSUME UNCHANGED <<initCount, docs>> PROVE \A p : CountRight(p)' <=> CountRight(p)
    BY <1>2, <2>2 DEF CountRight
  <2>3. pc' = "init" => todo' \subseteq Subs' /\ \A p \in Procs' : system'.sub[p] \notin todo' => CountRight(p)'
    BY <1>1, <1>3, <2>1, <2>2 DEF CountsInv
  <2>4. pc' = "done" => \A p \in Procs' : CountRight(p)'
    BY <1>1, <1>3, <2>1, <2>2 DEF CountsInv
  <2> QED
    BY <2>3, <2>4 DEF CountsInv
<1>5. CASE RoutesDone
  <2>1. pc' = "init" /\ todo' = Subs
    BY <1>5 DEF RoutesDone, Goto
  <2>2. \A p \in Procs : system.sub[p] \in Subs
    BY SystemFacts
  <2> QED
    BY <1>1, <1>3, <2>1, <2>2 DEF CountsInv
<1>6. CASE \E s \in Subs : InitCounts(s)
  <2>1. PICK s \in Subs : InitCounts(s)
    BY <1>6
  <2>2. /\ pc = "init" /\ s \in todo /\ todo' = todo \ {s} /\ docs' = docs
        /\ initCount' = [p \in Procs |->
               IF system.sub[p] = s THEN Incoming(First(Group(s, system.type[p]))) ELSE initCount[p]]
        /\ pc' = IF todo = {s} THEN "done" ELSE "init"
    BY <2>1 DEF InitCounts, filling, Goto
  <2>3. ASSUME NEW p \in Procs, system.sub[p] \notin todo' PROVE CountRight(p)'
    <3>1. CASE system.sub[p] = s
      <4>1. initCount'[p] = Incoming(First(Group(s, system.type[p])))
        BY <2>2, <3>1
      <4>2. Incoming(First(Group(s, system.type[p]))) = Incoming(First(Group(system.sub[p], system.type[p])))
        BY <3>1
      <4>3. Incoming(First(Group(system.sub[p], system.type[p])))'
               = Incoming(First(Group(system.sub[p], system.type[p])))
        BY <1>2, <2>2
      <4> QED
        BY <4>1, <4>2, <4>3 DEF CountRight
    <3>2. CASE system.sub[p] # s
      <4>1. initCount'[p] = initCount[p]
        BY <2>2, <3>2
      <4>2. CountRight(p)
        BY <2>2, <2>3, <3>2 DEF CountsInv
      <4>3. Incoming(First(Group(system.sub[p], system.type[p])))'
               = Incoming(First(Group(system.sub[p], system.type[p])))
        BY <1>2, <2>2
      <4> QED
        BY <4>1, <4>2, <4>3 DEF CountRight
    <3> QED
      BY <3>1, <3>2
  <2>4. todo' \subseteq Subs' /\ (pc' = "done" => todo' = {})
    BY <1>3, <2>2 DEF CountsInv
  <2> QED
    BY <1>1, <1>3, <2>2, <2>3, <2>4 DEF CountsInv
<1> QED
  BY <1>4, <1>5, <1>6

-----------------------------------------------------------------------------
(* The invariant of the last stages *)

Served ==
    /\ Booked
    /\ PortsInv
    /\ LegalIsBooked
    /\ RoutesInv
    /\ CountsInv

\* At boot no router has a port.
LEMMA ServedInit == Init => Served
<1> SUFFICES ASSUME Init PROVE Served
  OBVIOUS
<1>1. /\ pc = "boot" /\ token = [k \in {} |-> 0]
      /\ routes = [p \in Procs |-> [own |-> NoRoute, table |-> NoRoute, tokens |-> NoRoute]]
  BY DEF Init
<1>2. DOMAIN token = {}
  BY <1>1
<1>3. PortsInv
  BY <1>1, <1>2, FS_EmptySet DEF PortsInv, Told
<1>4. RoutesInv
  BY <1>1 DEF RoutesInv
<1>5. LegalIsBooked /\ CountsInv
  BY <1>1 DEF LegalIsBooked, CountsInv
<1> QED
  BY <1>3, <1>4, <1>5, BookedInit DEF Served

\* Every step keeps it.
LEMMA ServedStep == Served /\ [Next]_vars => Served'
<1> SUFFICES ASSUME Served, [Next]_vars PROVE Served'
  OBVIOUS
<1>1. BookkeepingAssumption /\ system \in Systems /\ StagesInv
  BY BookkeepingAssumption DEF Served, Booked
<1>2. Booked'
  BY BookedStep DEF Served
<1>3. PortsInv'
  BY <1>1, PortsStep DEF Served
<1>4. LegalIsBooked'
  BY LegalStep DEF Served
<1>5. RoutesInv'
  BY RoutesStep DEF Served
<1>6. CountsInv'
  BY <1>1, CountsStep DEF Served
<1> QED
  BY <1>2, <1>3, <1>4, <1>5, <1>6 DEF Served

\* For every system the invariant holds through all the stages.
THEOREM ServedInvariant == Spec => []Served
BY ServedInit, ServedStep, PTL DEF Spec

\* Bookkeeping refuses no system that is legal, whatever its routers, DFOs and
\* subsystems are.
THEOREM LegalSystemsAreBooked == Spec => []LegalIsBooked
<1>1. Served => LegalIsBooked
  BY DEF Served
<1> QED
  BY <1>1, ServedInvariant, PTL

\* No port is given twice, to routers or processes, for any number of routers that
\* the ports below those of the processes have room for.
THEOREM RouterPortsApart == Spec => []PortsApart
<1>1. Served => PortsApart
  BY PortsAreApart, BookkeepingAssumption DEF Served, Booked
<1> QED
  BY <1>1, ServedInvariant, PTL

-----------------------------------------------------------------------------
(* What the routes and the counts are worth *)

\* A router is described by its own table under the port that the receivers of its
\* target hand their tokens to, and no other router is.
LEMMA OneOwner ==
    ASSUME Served, pc = "done", WellDescribed, NEW k \in DOMAIN token
    PROVE  /\ \A q \in Group(k[1], k[2]) \ Routers : routes[q].tokens = k
           /\ Cardinality({r \in Routers : routes[r].own = k}) = 1
<1>1. BookkeepingAssumption /\ system \in Systems
  BY BookkeepingAssumption DEF Served, Booked
<1>2. PICK s \in Subs : k \in Keys(s)
  BY DEF Served, PortsInv, AllKeys
<1>3. PICK p \in RoutersOf(s) : k = <<s, Target(p)>>
  BY <1>2 DEF Keys
<1>4. \A q \in Procs : routes[q] = Route(q)
  BY DEF Served, RoutesInv, RoutedRight
<1>5. \A r \in Subs : r \in Sources(s) <=> Destination(r) = s
  BY DEF WellDescribed, Mutual
<1>6. \A q, r \in RoutersOf(s) : Target(q) = Target(r) => q = r
  BY DEF Served, PortsInv, Told
<1>7. p \in Procs /\ Routers \subseteq Procs
  BY <1>1, RoutersTyped, SystemFacts DEF Routers, RoutingManagers
<1>8. ASSUME NEW q \in Group(k[1], k[2]) \ Routers PROVE routes[q].tokens = k
  <2>1. q \in Procs /\ system.sub[q] = s /\ system.type[q] = Target(p)
    BY <1>1, <1>3, GroupMembers
  <2>2. system.type[q] # "BoardReader"
    BY <1>1, <1>7, <2>1, SystemFacts
  <2>3. TokensKey(q) = k
    BY <1>3, <2>1 DEF TokensKey
  <2>4. q \notin system.dfos \union RoutingManagers
    BY <1>8 DEF Routers
  <2>5. Route(q).tokens = TokensKey(q)
    BY <2>2, <2>3, <2>4 DEF Route
  <2> QED
    BY <1>4, <2>1, <2>3, <2>5
<1>9. ASSUME NEW r \in Routers PROVE routes[r].own = OwnKey(r)
  <2>1. Route(r).own = OwnKey(r)
    BY <1>9 DEF Routers, Route
  <2> QED
    BY <1>4, <1>7, <2>1
<1>10. ASSUME NEW r \in Routers
       PROVE  /\ OwnKey(r)[1] = s <=> r \in RoutersOf(s)
              /\ OwnKey(r) = <<OwnKey(r)[1], Target(r)>>
  <2>1. r \in Procs /\ system.sub[r] \in Subs
    BY <1>1, <1>7, SystemFacts
  <2>2. CASE r \in system.dfos
    <3>1. OwnKey(r) = <<Destination(system.sub[r]), Target(r)>>
      BY <2>2 DEF OwnKey
    <3>2. r \notin RoutingManagers
      BY <1>1, <2>2, SystemFacts DEF RoutingManagers
    <3>3. r \in RoutersOf(s) <=> system.sub[r] \in Sources(s)
      BY <2>2, <3>2 DEF RoutersOf
    <3> QED
      BY <1>5, <2>1, <3>1, <3>3
  <2>3. CASE r \notin system.dfos
    <3>1. OwnKey(r) = <<system.sub[r], Target(r)>>
      BY <2>3 DEF OwnKey
    <3>2. r \in RoutersOf(s) <=> system.sub[r] = s
      BY <1>10, <2>3 DEF RoutersOf, Routers
    <3> QED
      BY <3>1, <3>2
  <2> QED
    BY <2>2, <2>3
<1>11. p \in Routers
  BY DEF RoutersOf, Routers
<1>12. {r \in Routers : routes[r].own = k} = {p}
  <2>1. routes[p].own = k
    BY <1>3, <1>9, <1>10, <1>11
  <2>2. ASSUME NEW r \in Routers, routes[r].own = k PROVE r = p
    <3>1. OwnKey(r) = k
      BY <1>9, <2>2
    <3>2. OwnKey(r)[1] = s /\ Target(r) = Target(p)
      BY <1>3, <1>10, <3>1
    <3>3. r \in RoutersOf(s)
      BY <1>10, <3>2
    <3> QED
      BY <1>3, <1>6, <3>2, <3>3
  <2> QED
    BY <1>11, <2>1, <2>2
<1> QED
  BY <1>8, <1>12, FS_Singleton

\* A sender that feeds one routed group follows the table of that group's router.
LEMMA SenderFollows ==
    ASSUME Served, pc = "done", WellDescribed, NEW p \in Procs \ (Routers \union system.silent),
           NEW k \in RoutedGroups(p), RoutedGroups(p) = {k},
           ~(system.type[p] = "EventBuilder" /\ k[2] = "Dispatcher"),
           system.type[p] = "EventBuilder" /\ k[2] = "EventBuilder" =>
               \E r \in RoutingManagers : system.sub[r] = k[1]
    PROVE  routes[p].table = k
<1> DEFINE s == system.sub[p]
<1>1. BookkeepingAssumption /\ system \in Systems
  BY BookkeepingAssumption DEF Served, Booked
<1>2. Filled /\ Booked
  BY DEF Filled, Served
<1>3. PICK q \in Peers(p, "destinations") : k = TokensKey(q) /\ k \in DOMAIN token
  BY DEF RoutedGroups
<1>4. Peers(p, "destinations") = OrdinaryNodes(p) \union InterNodes(p)
  BY <1>2, PeersFilled DEF WellDescribed
<1>5. \A t, type, r : r \in Group(t, type) <=>
         r \in Procs /\ system.sub[r] = t /\ system.type[r] = type
  BY <1>1, GroupMembers
<1>6. /\ k = <<system.sub[q], system.type[q]>>
      /\ system.type[q] = k[2] /\ system.sub[q] = k[1]
  BY <1>3 DEF TokensKey
<1>7. /\ routes[p] = Route(p)
      /\ Route(p).table \in DOMAIN token \union {NoRoute}
  BY DEF Served, RoutesInv, RoutedRight
<1>8. Route(p).table = TableKey(p)
  BY DEF Route, Routers
<1>9. s \in Subs /\ \A r \in Subs : r # None
  BY <1>1, SystemFacts
<1>10. /\ \A r, t \in Subs : r \in Sources(t) <=> Destination(r) = t
       /\ \A r \in Subs : Destination(r) # None => Group(Destination(r), "EventBuilder") # {}
  BY DEF WellDescribed, Mutual
<1>11. CASE q \in OrdinaryNodes(p)
  <2>1. system.sub[q] = s
    BY <1>5, <1>11 DEF OrdinaryNodes
  <2>2. CASE system.type[p] = "EventBuilder"
    <3>1. system.type[q] = "DataLogger"
      BY <1>5, <1>6, <1>11, <2>2 DEF OrdinaryNodes
    <3>2. s \notin ParentsOfRouted
      <4> SUFFICES ASSUME s \in ParentsOfRouted PROVE FALSE
        OBVIOUS
      <4>1. PICK r \in RoutingManagers : s \in Sources(system.sub[r])
        BY DEF ParentsOfRouted
      <4> DEFINE d == system.sub[r]
      <4>2. d \in Subs /\ Destination(s) = d /\ d # None
        BY <1>1, <1>9, <1>10, <4>1, SystemFacts DEF RoutingManagers
      <4>3. TableKey(p) = <<d, "EventBuilder">>
        BY <2>2, <4>2 DEF TableKey
      <4>4. <<d, "EventBuilder">> \in DOMAIN token
        BY <1>7, <1>8, <4>2, <4>3 DEF NoRoute
      <4>5. PICK e \in Group(d, "EventBuilder") : TRUE
        BY <1>9, <1>10, <4>2
      <4>6. e \in InterNodes(p)
        BY <2>2, <4>2, <4>5 DEF InterNodes
      <4>7. TokensKey(e) = <<d, "EventBuilder">>
        BY <1>5, <4>5 DEF TokensKey
      <4>8. <<d, "EventBuilder">> \in RoutedGroups(p)
        BY <1>4, <4>4, <4>6, <4>7 DEF RoutedGroups
      <4>9. k = <<d, "EventBuilder">>
        BY <4>8
      <4> QED
        BY <1>6, <3>1, <4>9
    <3>3. TableKey(p) = <<s, "DataLogger">>
      BY <1>3, <1>6, <2>1, <2>2, <3>1, <3>2 DEF TableKey
    <3> QED
      BY <1>6, <1>7, <1>8, <2>1, <3>1, <3>3
  <2>3. CASE system.type[p] = "BoardReader"
    <3>1. system.type[q] = "EventBuilder"
      BY <1>5, <1>11, <2>3 DEF OrdinaryNodes
    <3>2. TableKey(p) = <<s, "EventBuilder">>
      BY <1>3, <1>6, <2>1, <2>3, <3>1 DEF TableKey
    <3> QED
      BY <1>6, <1>7, <1>8, <2>1, <3>1, <3>2
  <2>4. CASE system.type[p] = "DataLogger"
    <3>1. system.type[q] = "Dispatcher"
      BY <1>5, <1>11, <2>4 DEF OrdinaryNodes
    <3>2. TableKey(p) = <<s, "Dispatcher">>
      BY <1>3, <1>6, <2>1, <2>4, <3>1 DEF TableKey
    <3> QED
      BY <1>6, <1>7, <1>8, <2>1, <3>1, <3>2
  <2> QED
    BY <1>11, <2>2, <2>3, <2>4 DEF OrdinaryNodes
<1>12. CASE q \in InterNodes(p)
  <2>1. system.type[p] = "EventBuilder"
    BY <1>12 DEF InterNodes
  <2>2. system.type[q] = "EventBuilder" /\ system.sub[q] = Destination(s)
    BY <1>5, <1>12 DEF InterNodes
  <2>3. PICK r \in RoutingManagers : system.sub[r] = Destination(s)
    BY <1>6, <2>1, <2>2
  <2>4. system.sub[r] \in Subs
    BY <1>1, SystemFacts DEF RoutingManagers
  <2>5. s \in Sources(system.sub[r])
    BY <1>9, <1>10, <2>3, <2>4
  <2>6. s \in ParentsOfRouted
    BY <2>5 DEF ParentsOfRouted
  <2>7. TableKey(p) = <<Destination(s), "EventBuilder">>
    BY <2>1, <2>6 DEF TableKey
  <2> QED
    BY <1>6, <1>7, <1>8, <2>2, <2>7
<1> QED
  BY <1>3, <1>4, <1>11, <1>12

\* Senders, receivers and routers agree on the ports, but for the two exceptions
\* that the property names.
THEOREM RoutersAgree == Spec => []RoutesAgree
<1>1. Served => RoutesAgree
  BY OneOwner, SenderFollows DEF RoutesAgree
<1> QED
  BY <1>1, ServedInvariant, PTL

\* A process sends over a RootNetOutput to all the processes of a type in a
\* subsystem or to none, and to none that does not have it as a source.
LEMMA SendsToAll ==
    ASSUME Booked, Filled, NEW p \in Procs, NEW q \in Procs, NEW r \in Procs,
           system.sub[q] = system.sub[r], system.type[q] = system.type[r]
    PROVE  /\ SendsViaRootNetOutput(p, q) <=> SendsViaRootNetOutput(p, r)
           /\ SendsViaRootNetOutput(p, q) =>
                 p \in SourceNodes(q) /\ system.type[p] # "BoardReader"
<1>1. BookkeepingAssumption /\ system \in Systems
  BY BookkeepingAssumption DEF Booked
<1> DEFINE Outputs == {j \in DOMAIN docs[p] :
                          docs[p][j].within \in {"rootNetOutput", "subsystemOutput"}}
<1>2. ASSUME NEW j \in Outputs
      PROVE  docs[p][j].name = "destinations" /\ system.type[p] # "BoardReader"
  <2>1. OfBootFile(p, j) /\ Len(docs[p]) = Len(system.docs[p])
        /\ docs \in [Procs -> Seq(Table)]
    BY DEF Booked, TablesInv
  <2>2. IsSystem(system)
    BY <1>1 DEF BookkeepingAssumption
  <2>3. system.docs \in [Procs -> Seq(EmptyTable)]
    BY <2>2 DEF IsSystem, Procs
  <2>4. j \in DOMAIN system.docs[p]
    BY <2>1, <2>3
  <2>5. system.docs[p][j].within \in {"rootNetOutput", "subsystemOutput"}
    BY <2>1 DEF OfBootFile
  <2>6. system.docs[p][j].name = "destinations" /\ system.type[p] # "BoardReader"
    BY <2>2, <2>4, <2>5 DEF IsSystem, Procs
  <2> QED
    BY <2>1, <2>6 DEF OfBootFile
<1>3. ASSUME NEW j \in Outputs, NEW x
      PROVE  (\E n \in docs[p][j].nodes : n.node = x) <=>
                 x \in IF docs[p][j].within \in Inter THEN InterNodes(p) ELSE OrdinaryNodes(p)
  <2>1. docs[p][j].nodes = Nodes(p, docs[p][j])
    BY NodesFilled
  <2>2. docs[p][j].name = "destinations"
    BY <1>2
  <2> DEFINE t == docs[p][j]
  <2>3. /\ t.nodes = Nodes(p, t)
        /\ t.name # "sources"
    BY <2>1, <2>2
  <2> HIDE DEF t
  <2>4. (\E n \in Nodes(p, t) : n.node = x) <=>
            x \in IF t.within \in Inter THEN InterNodes(p) ELSE OrdinaryNodes(p)
    <3>1. (\E n \in Nodes(p, t) : n.node = x) <=>
              x \in IF t.name = "sources" THEN SourceNodes(p)
                    ELSE IF t.within \in Inter THEN InterNodes(p)
                    ELSE OrdinaryNodes(p)
      BY NodesOf
    <3> QED
      BY <2>3, <3>1
  <2>5. (\E n \in t.nodes : n.node = x) <=>
            x \in IF t.within \in Inter THEN InterNodes(p) ELSE OrdinaryNodes(p)
    BY <2>3, <2>4
  <2> QED
    BY <2>5 DEF t
<1>4. \A x : SendsViaRootNetOutput(p, x) <=>
         \E j \in Outputs :
             x \in IF docs[p][j].within \in Inter THEN InterNodes(p) ELSE OrdinaryNodes(p)
  BY <1>3 DEF SendsViaRootNetOutput
<1>5. /\ q \in OrdinaryNodes(p) <=> r \in OrdinaryNodes(p)
      /\ q \in InterNodes(p) <=> r \in InterNodes(p)
  BY <1>1, GroupMembers DEF OrdinaryNodes, InterNodes
<1>6. q \in OrdinaryNodes(p) \union InterNodes(p) <=> p \in SourceNodes(q)
  BY <1>1, NodesMutual
<1> HIDE DEF Outputs
<1>7. SendsViaRootNetOutput(p, q) <=> SendsViaRootNetOutput(p, r)
  BY <1>4, <1>5
<1>8. SendsViaRootNetOutput(p, q) =>
          q \in OrdinaryNodes(p) \union InterNodes(p) /\ system.type[p] # "BoardReader"
  BY <1>2, <1>4
<1> QED
  BY <1>6, <1>7, <1>8

\* Whom Incoming asks are all that send, and no other.
LEMMA IncomingComplete ==
    ASSUME Booked, Filled, WellDescribed, NEW q \in Procs
    PROVE  Incoming(q) = FromSenders(Procs, q)
<1> DEFINE s == system.sub[q]
           all == {p \in Procs : SendsViaRootNetOutput(p, q)}
<1>1. BookkeepingAssumption /\ system \in Systems
  BY BookkeepingAssumption DEF Booked
<1>2. \A p \in all : p \in SourceNodes(q) /\ system.type[p] # "BoardReader"
  BY SendsToAll
<1>3. \A t, type, p : p \in Group(t, type) <=>
         p \in Procs /\ system.sub[p] = t /\ system.type[p] = type
  BY <1>1, GroupMembers
<1>4. ASSUME NEW ps, all \subseteq ps, ps \subseteq Procs
      PROVE  FromSenders(ps, q) = FromSenders(Procs, q)
  <2>1. {p \in ps : SendsViaRootNetOutput(p, q)} = all
    BY <1>4
  <2> QED
    BY <2>1 DEF FromSenders
<1>5. ASSUME NEW ps, ps \subseteq Procs, ps \cap all = {}
      PROVE  FromSenders(ps, q) = 0
  <2>1. {p \in ps : SendsViaRootNetOutput(p, q)} = {}
    BY <1>5
  <2> QED
    BY <2>1, SumEmpty DEF FromSenders
<1>6. FromSenders(Procs, q) \in Nat
  <2>1. all \subseteq Procs
    OBVIOUS
  <2>2. FromSenders(Procs, q) = SumFunctionOnSet(system.analyzers, all)
    BY DEF FromSenders
  <2> HIDE DEF all
  <2>3. IsFiniteSet(all) /\ \A p \in all : system.analyzers[p] \in Nat
    BY <1>1, <2>1, SystemFacts, FS_Subset
  <2> QED
    BY <2>2, <2>3, SumNat
<1>7. s \in Subs /\ system.type[q] \in Types
  BY <1>1, SystemFacts
<1>8. \A type : Group(s, type) \subseteq Procs
  BY <1>3
<1>9. CASE system.type[q] = "EventBuilder"
  <2> DEFINE feeding == UNION {Group(r, "EventBuilder") : r \in Sources(s)}
  <2>1. feeding \subseteq Procs
    BY <1>3
  <2>2. ASSUME NEW p \in all PROVE p \in feeding
    <3>1. p \in SourceNodes(q) /\ system.type[p] # "BoardReader" /\ p \in Procs
      BY <1>2
    <3>2. p \in Feeding(s)
      BY <1>3, <1>9, <3>1 DEF SourceNodes
    <3>3. system.type[p] = "EventBuilder" /\ Destination(system.sub[p]) = s /\ system.sub[p] \in Subs
      BY <1>1, <3>1, <3>2, GroupMembers, SystemFacts
    <3>4. system.sub[p] \in Sources(s)
      BY <1>7, <3>3 DEF WellDescribed, Mutual
    <3> QED
      BY <1>3, <3>1, <3>3, <3>4
  <2>3. FromSenders(feeding, q) = FromSenders(Procs, q)
    <3> HIDE DEF feeding, all
    <3> QED
      BY <1>4, <2>1, <2>2
  <2> QED
    BY <1>9, <2>3 DEF Incoming
<1>10. CASE system.type[q] = "DataLogger"
  <2>1. \A p \in all : p \in Group(s, "EventBuilder")
    BY <1>2, <1>10 DEF SourceNodes
  <2>2. FromSenders(Group(s, "EventBuilder"), q) = FromSenders(Procs, q)
    BY <1>4, <1>8, <2>1
  <2> QED
    BY <1>10, <2>2 DEF Incoming
<1>11. CASE system.type[q] = "Dispatcher"
  <2> DEFINE loggers == FromSenders(Group(s, "DataLogger"), q)
             builders == FromSenders(Group(s, "EventBuilder"), q)
  <2>1. Incoming(q) = IF loggers > 0 THEN loggers ELSE builders
    BY <1>11 DEF Incoming
  <2>2. CASE HasLoggers(s)
    <3>1. \A p \in all : p \in Group(s, "DataLogger")
      BY <1>2, <1>11, <2>2 DEF SourceNodes
    <3>2. loggers = FromSenders(Procs, q)
      BY <1>4, <1>8, <3>1
    <3>3. Group(s, "EventBuilder") \cap all = {}
      BY <1>3, <3>1
    <3>4. builders = 0
      BY <1>5, <1>8, <3>3
    <3> HIDE DEF loggers, builders
    <3> QED
      BY <1>6, <2>1, <3>2, <3>4
  <2>3. CASE ~HasLoggers(s)
    <3>1. \A p \in all : p \in Group(s, "EventBuilder")
      BY <1>2, <1>11, <2>3 DEF SourceNodes
    <3>2. builders = FromSenders(Procs, q)
      BY <1>4, <1>8, <3>1
    <3>3. Group(s, "DataLogger") \cap all = {}
      BY <2>3 DEF HasLoggers
    <3>4. loggers = 0
      BY <1>5, <1>8, <3>3
    <3> HIDE DEF loggers, builders
    <3> QED
      BY <2>1, <3>2, <3>4
  <2> QED
    BY <2>2, <2>3
<1>12. CASE system.type[q] \in {"BoardReader", "RoutingManager"}
  <2>1. Procs \cap all = {}
    BY <1>2, <1>12 DEF SourceNodes
  <2>2. FromSenders(Procs, q) = 0
    BY <1>5, <2>1
  <2>3. Incoming(q) = 0
    BY <1>12 DEF Incoming
  <2> QED
    BY <2>2, <2>3
<1> QED
  BY <1>7, <1>9, <1>10, <1>11, <1>12 DEF Types

\* Every process waits for the init fragments of all that send to it over a
\* RootNetOutput, though the first process of its type is counted for.
THEOREM CountsAreRight == Spec => []InitCountsRight
<1>1. Served => InitCountsRight
  <2> SUFFICES ASSUME Served, pc = "done", WellDescribed, NEW q \in Procs
               PROVE  initCount[q] = FromSenders(Procs, q)
    BY DEF InitCountsRight
  <2> DEFINE group == Group(system.sub[q], system.type[q])
             f == First(group)
  <2>1. BookkeepingAssumption /\ system \in Systems /\ Booked /\ Filled
    BY BookkeepingAssumption DEF Served, Booked, Filled
  <2>2. initCount[q] = Incoming(f)
    BY DEF Served, CountsInv, CountRight
  <2>3. group \in SUBSET Procs /\ q \in group
    BY DEF Group
  <2>4. f \in group
    <3> HIDE DEF group
    <3> QED
      BY <2>1, <2>3, FirstBefore
  <2>5. f \in Procs /\ system.sub[f] = system.sub[q] /\ system.type[f] = system.type[q]
    BY <2>4 DEF Group
  <2> HIDE DEF f
  <2>6. Incoming(f) = FromSenders(Procs, f)
    BY <2>1, <2>5, IncomingComplete
  <2>7. \A p \in Procs : SendsViaRootNetOutput(p, f) <=> SendsViaRootNetOutput(p, q)
    BY <2>1, <2>5, SendsToAll
  <2>8. {p \in Procs : SendsViaRootNetOutput(p, f)} = {p \in Procs : SendsViaRootNetOutput(p, q)}
    BY <2>7
  <2>9. FromSenders(Procs, f) = FromSenders(Procs, q)
    BY <2>8 DEF FromSenders
  <2> QED
    BY <2>2, <2>6, <2>9
<1> QED
  BY <1>1, ServedInvariant, PTL

-----------------------------------------------------------------------------
(* Every step gets on *)

\* What has lost a member is smaller.
LEMMA FewerLeft ==
    ASSUME NEW S, IsFiniteSet(S), NEW T \in SUBSET S, T # S
    PROVE  Cardinality(S) \in Nat /\ Cardinality(T) \in Nat /\ Cardinality(T) < Cardinality(S)
<1>1. IsFiniteSet(T) /\ Cardinality(T) <= Cardinality(S) /\ Cardinality(T) # Cardinality(S)
  BY FS_Subset
<1>2. Cardinality(S) \in Nat /\ Cardinality(T) \in Nat
  BY <1>1, FS_CardinalityType
<1> QED
  BY <1>1, <1>2

\* A turn of the loop over a document takes one table off those ahead and neither
\* comes back to it nor passes another by, though the table has grown.
LEMMA TakenOnce ==
    ASSUME BookkeepingAssumption, system \in Systems, eventSize \in [Subs -> Nat], TablesInv,
           FillTable
    PROVE  Ahead' = Ahead \ {Min(Ahead)} /\ Min(Ahead) \in Ahead /\ IsFiniteSet(Ahead)
<1> DEFINE p == at.p
           D == docs[p]
           E == docs'[p]
           n == Len(D)
           j == Min(Ahead)
           u == Refilled(p, j)
           end == Start(D, j) + D[j].length
<1>1. /\ Ahead \subseteq 1..n /\ j \in Ahead /\ \A k \in Ahead : j <= k
      /\ \A k \in 1..n : k \in Ahead <=> D[k].name = at.name /\ Start(D, k) >= at.from
  BY FillTableEffect
<1>2. /\ docs' \in [Procs -> Seq(Table)] /\ DOMAIN E = 1..n
      /\ E[j] = u /\ \A k \in 1..n : k # j => E[k] = D[k]
  BY FillTableEffect
<1>3. /\ p \in Procs /\ docs \in [Procs -> Seq(Table)] /\ n \in Nat /\ DOMAIN D = 1..n
      /\ at.from \in Nat /\ at \in [p: Procs, name: {"sources", "destinations"}, from: Nat]
  BY DEF TablesInv
<1>4. at'.p = p /\ at'.name = at.name /\ at'.from = end
  <2>1. at' = [at EXCEPT !.from = end]
    BY FillTableEffect
  <2> HIDE DEF end
  <2> QED
    BY <1>3, <2>1
<1>5. /\ u.name = D[j].name /\ u.gap = D[j].gap /\ u.length >= D[j].length
  <2>1. j \in DOMAIN docs[p]
    BY <1>1, <1>3
  <2> HIDE DEF p, j
  <2> QED
    BY <1>3, <2>1, RefilledRight
<1>6. (\A k \in 1..n : D[k] \in Table /\ E[k] \in Table) /\ D[j].length >= 1
  <2>1. \A k \in 1..n : D[k] \in Table /\ E[k] \in Table
    BY <1>2, <1>3
  <2>2. FilledRight(p, j) /\ j \in 1..n
    BY <1>1, <1>3 DEF TablesInv
  <2>3. IsFiniteSet(Nodes(p, D[j]))
    BY <1>3, NodesTyped
  <2>4. Cardinality(Nodes(p, D[j])) \in Nat
    BY <2>3, FS_CardinalityType
  <2>5. D[j].length = 1 \/ D[j].length = 1 + Cardinality(Nodes(p, D[j]))
    BY <2>2 DEF FilledRight
  <2> QED
    BY <2>1, <2>4, <2>5
<1> HIDE DEF u, j
<1>7. Sized(D, n) /\ Sized(E, n) /\ \A i \in 1..n : E[i].gap = D[i].gap /\ E[i].name = D[i].name
  <2>1. Sized(D, n) /\ Sized(E, n)
    BY <1>6 DEF Sized, Table
  <2> QED
    BY <1>2, <1>5, <2>1
<1> HIDE DEF n, D, E, p
<1>0. n \in Nat /\ j \in 1..n /\ j \in 1..j
  BY <1>1, <1>3
<1>8. \A i \in 1..j : Start(E, i) = Start(D, i)
  <2>1. \A i \in 1..n : i < j => E[i].length = D[i].length
    BY <1>0, <1>2
  <2>2. \A i \in 1..n : E[i].gap = D[i].gap
    BY <1>7
  <2> QED
    BY <1>0, <1>7, <2>1, <2>2, StartSame
<1>9. /\ \A k \in 1..n : Start(D, k) \in Nat /\ Start(E, k) \in Nat
      /\ Start(D, j) >= at.from /\ D[j].length \in Nat /\ E[j].length \in Nat
  BY <1>1, <1>3, <1>7, StartEquation DEF Sized
<1>10. ASSUME NEW k \in 1..n
       PROVE  E[k].name = at.name /\ Start(E, k) >= end <=> k \in Ahead /\ k # j
  <2>1. CASE k = j
    <3>1. Start(E, j) = Start(D, j)
      BY <1>0, <1>8
    <3> QED
      BY <1>6, <1>9, <2>1, <3>1
  <2>2. CASE k < j
    <3>1. k \notin Ahead /\ k \in 1..j
      BY <1>0, <1>1, <2>2
    <3>2. D[k].name # at.name \/ Start(D, k) < at.from
      BY <1>1, <1>3, <1>9, <3>1
    <3>3. Start(E, k) = Start(D, k)
      BY <1>8, <3>1
    <3>4. Start(D, k) < at.from => Start(E, k) < end
      BY <1>0, <1>3, <1>9, <3>3
    <3>5. end \in Nat
      BY <1>0, <1>9
    <3> HIDE DEF end
    <3> QED
      BY <1>7, <1>9, <3>1, <3>2, <3>4, <3>5
  <2>3. CASE k > j
    <3>1. Start(E, k) >= Start(E, j) + E[j].length /\ Start(D, k) >= end
      BY <1>1, <1>3, <1>7, <2>3, StartAfter
    <3>2. Start(E, j) = Start(D, j) /\ E[j].length >= D[j].length
      BY <1>0, <1>2, <1>5, <1>8
    <3>3. Start(E, k) >= end /\ Start(D, k) >= at.from
      BY <1>0, <1>3, <1>9, <3>1, <3>2
    <3> QED
      BY <1>1, <1>7, <2>3, <3>3
  <2> QED
    BY <1>0, <2>1, <2>2, <2>3
<1>11. Ahead' = {k \in 1..n : E[k].name = at.name /\ Start(E, k) >= end}
  BY <1>2, <1>4 DEF Ahead, Found, E, p
<1>12. IsFiniteSet(Ahead)
  <2>1. IsFiniteSet(1..n)
    BY <1>3, FS_Interval
  <2> QED
    BY <1>1, <2>1, FS_Subset
<1>13. Ahead' = Ahead \ {j}
  BY <1>1, <1>10, <1>11
<1> QED
  BY <1>1, <1>12, <1>13 DEF j

\* How far bookkeeping is: the stage it is in, how many subsystems, processes or
\* names that stage has still to visit, and how many turns the visit may take.
StageNumber ==
    [boot |-> 1, count |-> 2, search |-> 3, expect |-> 4, sanity |-> 5, tables |-> 6,
     ports |-> 7, routes |-> 8, init |-> 9, done |-> 10, raised |-> 11]
Stage == StageNumber[pc]
After(p) == {q \in Procs : Before(p, q)}
Visits ==
    IF pc = "search" THEN Cardinality(Subs \ visited)
    ELSE IF pc = "tables"
    THEN 2 * Cardinality(After(at.p)) + (IF at.name = "sources" THEN 1 ELSE 0)
    ELSE IF pc \in {"ports", "routes", "init"} THEN Cardinality(todo) ELSE 0
Turns == IF pc = "search" THEN Len(path)
         ELSE IF pc = "tables" THEN Cardinality(Ahead) ELSE 0

Ranked == Stage \in 1..11 /\ Visits \in Nat /\ Turns \in Nat
GetsOn ==
    \/ Stage' > Stage
    \/ Stage' = Stage /\ Visits' < Visits
    \/ Stage' = Stage /\ Visits' = Visits /\ Turns' < Turns

\* What the ranks are counted from is finite.
LEMMA FiniteLeft ==
    ASSUME Booked
    PROVE  /\ IsFiniteSet(Subs \ visited) /\ IsFiniteSet(todo) /\ IsFiniteSet(Ahead)
           /\ \A p : IsFiniteSet(After(p)) /\ Cardinality(After(p)) \in Nat
           /\ Len(path) \in Nat
<1>1. IsFiniteSet(Subs) /\ IsFiniteSet(Procs)
  BY BookkeepingAssumption, SystemFacts DEF Booked
<1>2. IsFiniteSet(Subs \ visited)
  BY <1>1, FS_Subset
<1>3. IsFiniteSet(todo)
  <2>1. IsFiniteSet(Subs \union Procs)
    BY <1>1, FS_Union
  <2>2. todo \subseteq Subs \union Procs
    BY DEF Booked, StagesInv
  <2> QED
    BY <2>1, <2>2, FS_Subset
<1>4. IsFiniteSet(Ahead)
  <2>1. at.p \in Procs /\ docs \in [Procs -> Seq(Table)]
    BY DEF Booked, TablesInv
  <2>2. Len(docs[at.p]) \in Nat /\ DOMAIN docs[at.p] = 1..Len(docs[at.p])
    BY <2>1
  <2>3. IsFiniteSet(DOMAIN docs[at.p])
    BY <2>2, FS_Interval
  <2>4. Ahead \subseteq DOMAIN docs[at.p]
    BY DEF Ahead, Found
  <2> QED
    BY <2>3, <2>4, FS_Subset
<1>5. ASSUME NEW p PROVE IsFiniteSet(After(p)) /\ Cardinality(After(p)) \in Nat
  <2>1. After(p) \subseteq Procs
    BY DEF After
  <2> QED
    BY <1>1, <2>1, FS_Subset, FS_CardinalityType
<1>6. Len(path) \in Nat
  BY DEF Booked, SearchInv
<1> QED
  BY <1>2, <1>3, <1>4, <1>5, <1>6

\* The rank is a stage and two naturals, so that it cannot get on for ever.
LEMMA RankTyped == Booked => Ranked
<1> SUFFICES ASSUME Booked PROVE Ranked
  OBVIOUS
<1>1. Stage \in 1..11
  BY DEF Booked, StagesInv, Stages, Stage, StageNumber
<1>2. /\ Cardinality(Subs \ visited) \in Nat /\ Cardinality(todo) \in Nat
      /\ Cardinality(Ahead) \in Nat /\ Cardinality(After(at.p)) \in Nat /\ Len(path) \in Nat
  BY FiniteLeft, FS_CardinalityType
<1> QED
  BY <1>1, <1>2 DEF Ranked, Visits, Turns

\* The stages follow each other, and nothing follows an exception.
LEMMA StagesFollow ==
    ASSUME \/ CheckBootInfo \/ CountFragments \/ FindCycle \/ NoCycle \/ Expect \/ CheckDFOs
           \/ PortsDone \/ RoutesDone
    PROVE  Stage' > Stage
<1>1. \/ pc = "boot" /\ pc' \in {"count", "raised"}
      \/ pc = "count" /\ pc' = "search"
      \/ pc = "search" /\ pc' \in {"expect", "raised"}
      \/ pc = "expect" /\ pc' \in {"sanity", "raised"}
      \/ pc = "sanity" /\ pc' \in {"tables", "raised"}
      \/ pc = "ports" /\ pc' = "routes"
      \/ pc = "routes" /\ pc' = "init"
  BY DEF CheckBootInfo, CountFragments, FindCycle, NoCycle, Expect, CheckDFOs, PortsDone,
         RoutesDone, Goto, Raise
<1> QED
  BY <1>1 DEF Stage, StageNumber

\* The search enters a subsystem that it has not visited, or goes back on its path.
LEMMA SearchGetsOn ==
    ASSUME Booked, Return \/ \E s \in Subs : SearchFrom(s) \/ Descend(s)
    PROVE  GetsOn
<1>1. pc = "search" /\ pc' = "search" /\ Stage' = Stage /\ system' = system
  BY DEF Return, SearchFrom, Descend, Stage, StageNumber
<1>2. CASE Return
  <2>1. path # <<>> /\ path \in Seq(Subs) /\ path' = SubSeq(path, 1, Len(path) - 1)
    BY <1>2 DEF Return, Booked, SearchInv
  <2>2. Len(path') < Len(path)
    BY <2>1
  <2>3. UNCHANGED <<Subs, visited>>
    BY <1>1, <1>2 DEF Return, Subs
  <2> QED
    BY <1>1, <2>2, <2>3 DEF GetsOn, Visits, Turns
<1>3. CASE \E s \in Subs : SearchFrom(s) \/ Descend(s)
  <2>1. PICK s \in Subs : s \notin visited /\ visited' = visited \union {s}
    BY <1>3 DEF SearchFrom, Descend
  <2>2. /\ Subs' = Subs /\ (Subs \ visited)' \in SUBSET (Subs \ visited)
        /\ (Subs \ visited)' # Subs \ visited
    BY <1>1, <2>1 DEF Subs
  <2>3. Cardinality((Subs \ visited)') < Cardinality(Subs \ visited)
    BY <2>2, FiniteLeft, FewerLeft
  <2> QED
    BY <1>1, <2>3 DEF GetsOn, Visits
<1> QED
  BY <1>2, <1>3

\* The loop over the documents takes a table, or goes on to the other name, to a later
\* process, or to the ports.
LEMMA TablesGetOn ==
    ASSUME Booked, FillTable \/ NextTables
    PROVE  GetsOn
<1>0. /\ BookkeepingAssumption /\ system \in Systems /\ eventSize \in [Subs -> Nat] /\ TablesInv
  BY BookkeepingAssumption DEF Booked, SizesInv
<1>1. pc = "tables" /\ system' = system /\ at \in [p: Procs, name: {"sources", "destinations"}, from: Nat]
  BY <1>0 DEF FillTable, NextTables, TablesInv
<1>2. \A p : After(p)' = After(p) /\ \A q : Before(p, q)' <=> Before(p, q)
  BY <1>1 DEF After, Before, Procs
<1>3. CASE FillTable
  <2>1. pc' = "tables" /\ Stage' = Stage
    BY <1>3 DEF FillTable, Stage
  <2>2. at'.p = at.p /\ at'.name = at.name
    <3>1. \E m : at' = [at EXCEPT !.from = m]
      BY <1>3 DEF FillTable
    <3> QED
      BY <1>1, <3>1
  <2>3. Ahead' \in SUBSET Ahead /\ Ahead' # Ahead /\ IsFiniteSet(Ahead)
    BY <1>0, <1>3, TakenOnce
  <2>4. Cardinality(Ahead') < Cardinality(Ahead)
    BY <2>3, FewerLeft
  <2>5. Visits' = Visits
    BY <1>1, <1>2, <2>1, <2>2 DEF Visits
  <2>6. Turns' < Turns
    BY <1>1, <2>1, <2>4 DEF Turns
  <2> QED
    BY <2>1, <2>5, <2>6 DEF GetsOn
<1>4. CASE NextTables
  <2> DEFINE rest == After(at.p)
  <2>1. CASE at.name = "sources"
    <3>1. /\ at' = [at EXCEPT !.name = "destinations", !.from = 0] /\ pc' = pc
      BY <1>4, <2>1 DEF NextTables
    <3>2. at'.p = at.p /\ at'.name = "destinations"
      BY <1>1, <3>1
    <3>3. Cardinality(rest) \in Nat /\ rest' = rest
      BY <1>2, <3>2, FiniteLeft
    <3>4. Visits = 2 * Cardinality(rest) + 1 /\ Visits' = 2 * Cardinality(rest) + 0
      BY <1>1, <2>1, <3>1, <3>2, <3>3 DEF Visits
    <3>5. Visits' < Visits
      BY <3>3, <3>4
    <3> QED
      BY <3>1, <3>5 DEF GetsOn, Stage
  <2>2. CASE at.name # "sources" /\ rest = {}
    BY <1>1, <1>4, <2>2 DEF NextTables, Goto, GetsOn, Stage, StageNumber, After
  <2>3. CASE at.name # "sources" /\ rest # {}
    <3>1. at' = [p |-> First(rest), name |-> "sources", from |-> 0] /\ pc' = pc
      BY <1>4, <2>3 DEF NextTables, After
    <3>2. First(rest) \in rest
      BY <1>0, <2>3, FirstBefore DEF After
    <3> DEFINE f == First(rest)
    <3>3. at'.p = f /\ at'.name = "sources" /\ f \in Procs /\ at.p \in Procs /\ Before(at.p, f)
      BY <1>1, <3>1, <3>2 DEF After
    <3> HIDE DEF f
    <3>4. ~Before(f, f)
      BY <1>0, <3>3, BeforeOrder
    <3>5. ASSUME NEW q \in Procs, Before(f, q) PROVE Before(at.p, q)
      BY <1>0, <3>3, <3>5, BeforeOrder
    <3>6. After(f) \in SUBSET rest /\ After(f) # rest
      BY <3>3, <3>4, <3>5 DEF After
    <3>7. /\ Cardinality(After(f)) < Cardinality(rest)
          /\ Cardinality(After(f)) \in Nat /\ Cardinality(rest) \in Nat
      BY <3>6, FiniteLeft, FewerLeft
    <3>8. Visits = 2 * Cardinality(rest) + 0 /\ Visits' = 2 * Cardinality(After(f)) + 1
      BY <1>1, <1>2, <2>3, <3>1, <3>3 DEF Visits
    <3>9. Visits' < Visits
      BY <3>7, <3>8
    <3> QED
      BY <3>1, <3>9 DEF GetsOn, Stage
  <2> QED
    BY <2>1, <2>2, <2>3
<1> QED
  BY <1>3, <1>4

\* The loops over the subsystems and the processes come to each of them once.
LEMMA LoopsGetOn ==
    ASSUME Booked,
           \/ \E s \in Subs : AssignPorts(s) \/ InitCounts(s)
           \/ \E p \in Procs : RouteTables(p)
    PROVE  GetsOn
<1>1. \/ pc \in {"ports", "routes", "init"} /\ pc' \in {"done", "raised"}
      \/ /\ pc \in {"ports", "routes", "init"} /\ pc' = pc
         /\ \E x \in todo : todo' = todo \ {x}
  BY DEF AssignPorts, InitCounts, RouteTables, Goto, Raise
<1>2. CASE pc \in {"ports", "routes", "init"} /\ pc' \in {"done", "raised"}
  BY <1>2 DEF GetsOn, Stage, StageNumber
<1>3. CASE /\ pc \in {"ports", "routes", "init"} /\ pc' = pc
           /\ \E x \in todo : todo' = todo \ {x}
  <2>1. todo' \in SUBSET todo /\ todo' # todo
    BY <1>3
  <2>2. Cardinality(todo') < Cardinality(todo)
    BY <2>1, FiniteLeft, FewerLeft
  <2> QED
    BY <1>3, <2>2 DEF GetsOn, Stage, Visits
<1> QED
  BY <1>1, <1>2, <1>3

\* Bookkeeping takes finitely many steps for every system, and so ends if its thread
\* goes on: each step leads to a later stage or, within one, to fewer subsystems,
\* processes or names to visit, or to a shorter path or fewer tables ahead.  The search
\* visits no subsystem twice, and the loop that replaces the tables in a text which
\* grows under it comes to its end.
THEOREM EveryStepGetsOn == Spec => []Ranked /\ [][GetsOn]_vars
<1>1. Booked /\ [Next]_vars => [GetsOn]_vars
  <2> SUFFICES ASSUME Booked, Next PROVE GetsOn
    OBVIOUS
  <2>1. CASE \/ CheckBootInfo \/ CountFragments \/ FindCycle \/ NoCycle \/ Expect \/ CheckDFOs
             \/ PortsDone \/ RoutesDone
    BY <2>1, StagesFollow DEF GetsOn
  <2>2. CASE Return \/ \E s \in Subs : SearchFrom(s) \/ Descend(s)
    BY <2>2, SearchGetsOn
  <2>3. CASE FillTable \/ NextTables
    BY <2>3, TablesGetOn
  <2>4. CASE \/ \E s \in Subs : AssignPorts(s) \/ InitCounts(s)
             \/ \E p \in Procs : RouteTables(p)
    BY <2>4, LoopsGetOn
  <2> QED
    BY <2>1, <2>2, <2>3, <2>4 DEF Next
<1> QED
  BY <1>1, RankTyped, BookkeepingInvariant, PTL DEF Spec

=============================================================================
