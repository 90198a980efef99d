--------------------------- MODULE ServicesProofs ---------------------------
(***************************************************************************)
(* Proofs about the rate limiter and a service that charges it before it   *)
(* calls an external provider: RateLimits for any requests, buckets,       *)
(* limits and orders of the buckets, and TurnCredentials for any number of *)
(* devices and requests, any limits and any answers of the provider.       *)
(***************************************************************************)
EXTENDS RateLimits, TurnCredentials, FiniteSetTheorems, TLAPS

-----------------------------------------------------------------------------
(* Facts about counters *)

\* One more may be granted when one more is counted, or when a whole limit is
\* added.
LEMMA GrantsGrow ==
    ASSUME NEW g \in Nat, NEW c \in Nat, NEW p \in Nat, NEW a \in {0, 1}, g <= p + c
    PROVE  g + a \in Nat /\ g + a <= p + (c + 1)
OBVIOUS

LEMMA GrantsRestart ==
    ASSUME NEW g \in Nat, NEW l \in Nat, NEW p \in Nat, NEW a \in {0, 1}, g <= p + l
    PROVE  p + l \in Nat /\ g + a \in Nat /\ g + a <= (p + l) + 1
BY SMTT(30)

LEMMA NextNat == \A n \in Nat : n + 1 \in Nat
OBVIOUS

-----------------------------------------------------------------------------
(* RateLimits: the inductive invariant *)

RowSet == [exists : BOOLEAN, expires : Nat, count : Nat]

RequestSet ==
    [pc : {"new", "read", "write", "commit"} \cup Done, wants : Seq(Buckets),
     current : Nat, states : Seq(RowSet), wrote : Seq(RowSet)]

RType ==
    /\ bucket \in [Buckets -> RowSet]
    /\ holder \in [Buckets -> Requests \cup {None}]
    /\ req \in [Requests -> RequestSet]
    /\ now \in Nat
    /\ grants \in [Buckets -> Nat]
    /\ restarts \in [Buckets -> Nat]

\* How far a request is: it reads all its buckets and then writes them all.
Phase(q) ==
    /\ Len(q.wrote) <= Len(q.states) /\ Len(q.states) <= Len(q.wants)
    /\ q.pc \in {"new"} \cup Done => q.states = <<>> /\ q.wrote = <<>>
    /\ q.pc = "read" => Len(q.states) < Len(q.wants) /\ q.wrote = <<>>
    /\ q.pc = "write" => Len(q.states) = Len(q.wants) /\ Len(q.wrote) < Len(q.wants)
    /\ q.pc = "commit" => Len(q.wrote) = Len(q.wants)

\* After the i-th of n reads.
LEMMA PhaseRead ==
    ASSUME NEW q, NEW n \in Nat, NEW i \in 1..n, q.wrote = <<>>,
           Len(q.wants) = n, Len(q.states) = i, q.pc = IF i = n THEN "write" ELSE "read"
    PROVE  Phase(q)
BY DEF Phase, Done

\* A row that was read had room, is locked and is as it was; what is written is
\* locked and follows from what was read.
Held(r) ==
    /\ \A i \in 1..Len(req[r].states) :
        req[r].states[i].exists =>
            /\ holder[req[r].wants[i]] = r
            /\ bucket[req[r].wants[i]] = req[r].states[i]
            /\ ~Exhausted(req[r].states[i], req[r].wants[i], req[r].current)
    /\ \A i \in 1..Len(req[r].wrote) :
        /\ holder[req[r].wants[i]] = r
        /\ req[r].wrote[i] = Written(req[r].states[i], req[r].current)

\* The count of a row misses only what was admitted before it was set back.
RowBound(b) ==
    /\ bucket[b].exists =>
        bucket[b].count <= Limit[b] /\ grants[b] <= Limit[b] * restarts[b] + bucket[b].count
    /\ grants[b] <= Limit[b] * (restarts[b] + 1)

RInv ==
    /\ RType
    /\ \A r \in Requests : Phase(req[r]) /\ Held(r)
    /\ \A b \in Buckets : RowBound(b)


-----------------------------------------------------------------------------
(* Rows and requests *)

LEMMA LimitNumbers ==
    /\ \A b \in Buckets : Limit[b] \in Nat /\ 1 <= Limit[b]
    /\ Window \in Nat /\ None \notin Requests
    /\ \A w \in Wants : w \in Seq(Buckets) /\ 1 <= Len(w)
<1>1. \A w \in Wants : w \in Seq(Buckets) /\ w # <<>>
  BY LimitsAssumption
<1>2. \A w \in Wants : 1 <= Len(w)
  BY <1>1
<1> QED
  BY <1>1, <1>2, LimitsAssumption

LEMMA NoRowType == NoRow \in RowSet /\ ~NoRow.exists
  BY DEF NoRow, RowSet

LEMMA WrittenFacts ==
    ASSUME NEW row \in RowSet, NEW current \in Nat, NEW b \in Buckets
    PROVE  /\ Written(row, current) \in RowSet
           /\ Written(row, current).exists
           /\ ~row.exists \/ row.expires <= current => Written(row, current).count = 1
           /\ row.exists /\ ~(row.expires <= current) =>
                Written(row, current).count = row.count + 1
           /\ ~Exhausted(row, b, current) => Written(row, current).count <= Limit[b]
  BY LimitNumbers DEF Written, RowSet, Exhausted

LEMMA OverFacts ==
    ASSUME NEW outcome \in Done
    PROVE  /\ Over(outcome) \in RequestSet /\ Over(outcome).pc = outcome
           /\ Over(outcome).states = <<>> /\ Over(outcome).wrote = <<>>
           /\ Phase(Over(outcome))
<1>1. NewRequest \in RequestSet /\ NewRequest.states = <<>> /\ NewRequest.wrote = <<>>
      /\ NewRequest.wants = <<>>
  BY DEF NewRequest, RequestSet
<1>2. Over(outcome) \in RequestSet
  BY <1>1 DEF Over, RequestSet
<1>3. /\ Over(outcome).pc = outcome /\ Over(outcome).wants = <<>>
      /\ Over(outcome).states = <<>> /\ Over(outcome).wrote = <<>>
  BY <1>1 DEF Over, RequestSet
<1> QED
  BY <1>2, <1>3 DEF Phase, Done

\* What a request's step leaves of the others' locks and rows.
Spares(r) ==
    /\ \A b \in Buckets : holder[b] \in Requests \ {r} => holder'[b] = holder[b]
    /\ \A b \in Buckets : holder[b] \in Requests \ {r} => bucket'[b] = bucket[b]
    /\ \A q \in Requests \ {r} : req'[q] = req[q]

LEMMA OthersHeld ==
    ASSUME RInv, NEW r, Spares(r), NEW q \in Requests, q # r
    PROVE  Phase(req[q])' /\ Held(q)'
<1>1. req'[q] = req[q]
  BY DEF Spares
<1>2. req[q] \in RequestSet /\ Phase(req[q]) /\ Held(q)
  BY DEF RInv, RType
<1>3. \A i \in 1..Len(req[q].states) : req[q].wants[i] \in Buckets
  BY <1>2 DEF RequestSet, Phase
<1>4. \A i \in 1..Len(req[q].wrote) : req[q].wants[i] \in Buckets
  BY <1>2 DEF RequestSet, Phase
<1>5. \A b \in Buckets : holder[b] = q => holder'[b] = q /\ bucket'[b] = bucket[b]
  BY DEF Spares
<1>6. Held(q)'
  BY <1>1, <1>2, <1>3, <1>4, <1>5 DEF Held
<1> QED
  BY <1>1, <1>2, <1>6

\* A request that is over holds nothing and knows nothing.
LEMMA EndsRequest ==
    ASSUME RInv, NEW r \in Requests, NEW outcome \in Done,
           req' = [req EXCEPT ![r] = Over(outcome)], holder' = Unlocked(r),
           \A b \in Buckets : holder[b] \in Requests \ {r} => bucket'[b] = bucket[b]
    PROVE  /\ req' \in [Requests -> RequestSet]
           /\ holder' \in [Buckets -> Requests \cup {None}]
           /\ \A q \in Requests : Phase(req[q])' /\ Held(q)'
<1>1. req \in [Requests -> RequestSet] /\ holder \in [Buckets -> Requests \cup {None}]
  BY DEF RInv, RType
<1>2. req' \in [Requests -> RequestSet] /\ req'[r] = Over(outcome)
  BY <1>1, OverFacts
<1>3. holder' \in [Buckets -> Requests \cup {None}]
  BY <1>1 DEF Unlocked
<1>4. Spares(r)
  BY <1>1 DEF Spares, Unlocked
<1>5. Phase(req[r])'
  BY <1>2, OverFacts
<1>6. Held(r)'
  <2>1. Len(req'[r].states) = 0 /\ Len(req'[r].wrote) = 0
    BY <1>2, OverFacts
  <2> QED
    BY <2>1 DEF Held
<1> QED
  BY <1>2, <1>3, <1>4, <1>5, <1>6, OthersHeld

LEMMA SameRows ==
    ASSUME RInv, UNCHANGED <<bucket, grants, restarts>>
    PROVE  /\ bucket' \in [Buckets -> RowSet]
           /\ grants' \in [Buckets -> Nat] /\ restarts' \in [Buckets -> Nat]
           /\ \A b \in Buckets : RowBound(b)'
  BY DEF RInv, RType, RowBound

-----------------------------------------------------------------------------
(* Steps *)

LEMMA ArriveKeeps ==
    ASSUME RInv, NEW r \in Requests, Arrive(r)
    PROVE  RInv'
<1>1. PICK w \in Wants :
        req' = [req EXCEPT ![r].pc = "read", ![r].wants = w, ![r].current = now]
  BY Zenon DEF Arrive
<1>2. req[r] \in RequestSet /\ req \in [Requests -> RequestSet] /\ Phase(req[r]) /\ now \in Nat
  BY DEF RInv, RType
<1>3. req[r].states = <<>> /\ req[r].wrote = <<>>
  BY <1>2 DEF Phase, Arrive
<1>4. w \in Seq(Buckets) /\ 1 <= Len(w)
  BY LimitNumbers
<1>5. /\ req'[r].pc = "read" /\ req'[r].wants = w
      /\ req'[r].states = <<>> /\ req'[r].wrote = <<>>
      /\ req' \in [Requests -> RequestSet]
      /\ \A q \in Requests \ {r} : req'[q] = req[q]
  BY <1>1, <1>2, <1>3, <1>4, Zenon DEF RequestSet
<1>6. Phase(req[r])' /\ Held(r)'
  <2>1. Len(req'[r].states) = 0 /\ Len(req'[r].wrote) = 0
    BY <1>5
  <2>2. Held(r)'
    BY <2>1 DEF Held
  <2>3. Phase(req'[r])
    BY <1>4, <1>5, <2>1 DEF Phase, Done
  <2> QED
    BY <2>2, <2>3
<1>7. UNCHANGED <<bucket, holder, now, grants, restarts>>
  BY DEF Arrive
<1>8. Spares(r)
  BY <1>5, <1>7 DEF Spares
<1>9. RType'
  BY <1>5, <1>7 DEF RInv, RType
<1> QED
  BY <1>6, <1>7, <1>8, <1>9, OthersHeld, SameRows DEF RInv

LEMMA ReadKeeps ==
    ASSUME RInv, NEW r \in Requests, Read(r)
    PROVE  RInv'
<1> DEFINE i == Len(req[r].states) + 1
           b == req[r].wants[i]
           row == bucket[b]
<1>1. /\ req[r] \in RequestSet /\ req \in [Requests -> RequestSet] /\ now \in Nat
      /\ bucket \in [Buckets -> RowSet] /\ holder \in [Buckets -> Requests \cup {None}]
      /\ Phase(req[r]) /\ Held(r) /\ req[r].pc = "read"
  BY ZenonT(60) DEF RInv, RType, Read
<1>2. UNCHANGED <<bucket, now, grants, restarts>>
  BY DEF Read
<1>3. i \in 1..Len(req[r].wants) /\ b \in Buckets /\ row \in RowSet
  BY <1>1 DEF Phase, RequestSet
<1>4. CASE Exhausted(row, b, req[r].current) /\ req' = [req EXCEPT ![r] = Over("refused")]
           /\ holder' = Unlocked(r)
  BY <1>1, <1>2, <1>4, EndsRequest, SameRows, Zenon DEF RInv, RType, Done
<1>5. CASE /\ ~Exhausted(row, b, req[r].current) /\ Lock(r, b)
           /\ req' = [req EXCEPT
                 ![r].states = Append(@, row),
                 ![r].pc = IF i = Len(req[r].wants) THEN "write" ELSE "read"]
  <2> DEFINE pc2 == IF i = Len(req[r].wants) THEN "write" ELSE "read"
             old == req[r]
  <2>1. /\ req'[r].states = Append(old.states, row) /\ req'[r].wrote = old.wrote
        /\ req'[r].wants = old.wants /\ req'[r].current = old.current /\ req'[r].pc = pc2
        /\ \A q \in Requests \ {r} : req'[q] = req[q]
        /\ req' \in [Requests -> RequestSet]
    <3>1. Append(old.states, row) \in Seq(RowSet)
      BY <1>1, <1>3 DEF RequestSet
    <3> QED
      BY <1>1, <1>5, <3>1, Zenon DEF RequestSet
  <2>2. holder' \in [Buckets -> Requests \cup {None}]
    BY <1>1, <1>5, Zenon DEF Lock
  <2>3. (row.exists => holder'[b] = r) /\ \A c \in Buckets : holder'[c] # holder[c] =>
            holder[c] \in {None, r} /\ holder'[c] = r
    BY <1>1, <1>3, <1>5, Zenon DEF Lock
  <2>4. Spares(r)
    BY <1>1, <1>2, <2>1, <2>3, LimitNumbers DEF Spares
  <2>5. Len(req'[r].states) = i /\ old.wrote = <<>> /\ Len(old.wrote) = 0
    BY <1>1, <1>3, <2>1 DEF RequestSet, Phase
  <2>6. Phase(req'[r])
    <3>1. Len(old.wants) \in Nat
      <4>1. old.wants \in Seq(Buckets)
        BY <1>1, Zenon DEF RequestSet
      <4> QED
        BY <4>1
    <3> QED
      BY <1>3, <2>1, <2>5, <3>1, PhaseRead, Zenon
  <2>7. Held(r)'
    <3>1. ASSUME NEW j \in 1..i, req'[r].states[j].exists
          PROVE  /\ holder'[old.wants[j]] = r
                 /\ bucket'[old.wants[j]] = req'[r].states[j]
                 /\ ~Exhausted(req'[r].states[j], old.wants[j], old.current)
      <4>1. CASE j = i
        <5>1. req'[r].states[i] = row
          BY <1>1, <2>1 DEF RequestSet
        <5> QED
          BY <1>2, <1>5, <2>3, <3>1, <4>1, <5>1, Zenon
      <4>2. CASE j # i
        <5>1. j \in 1..Len(old.states) /\ req'[r].states[j] = old.states[j]
          BY <1>1, <2>1, <4>2 DEF RequestSet
        <5>2. old.wants[j] \in Buckets
          BY <1>1, <5>1 DEF Phase, RequestSet
        <5>3. /\ holder[old.wants[j]] = r /\ bucket[old.wants[j]] = old.states[j]
              /\ ~Exhausted(old.states[j], old.wants[j], old.current)
          BY <1>1, <3>1, <5>1 DEF Held
        <5>4. holder'[old.wants[j]] = r
          BY <2>3, <5>2, <5>3
        <5> QED
          BY <1>2, <5>1, <5>3, <5>4
      <4> QED
        BY <4>1, <4>2
    <3>2. Len(req'[r].wrote) = 0
      BY <2>1, <2>5
    <3> HIDE DEF i
    <3> QED
      BY <2>1, <2>5, <3>1, <3>2 DEF Held
  <2>8. RType'
    BY <1>2, <2>1, <2>2 DEF RInv, RType
  <2> QED
    BY <1>2, <2>4, <2>6, <2>7, <2>8, OthersHeld, SameRows DEF RInv
<1> QED
  BY <1>4, <1>5, Zenon DEF Read

LEMMA WriteKeeps ==
    ASSUME RInv, NEW r \in Requests, Write(r)
    PROVE  RInv'
<1> DEFINE i == Len(req[r].wrote) + 1
           b == req[r].wants[i]
           old == req[r]
           new == Written(old.states[i], old.current)
           pc2 == IF i = Len(req[r].wants) THEN "commit" ELSE "write"
<1>1. /\ req[r] \in RequestSet /\ req \in [Requests -> RequestSet] /\ now \in Nat
      /\ bucket \in [Buckets -> RowSet] /\ holder \in [Buckets -> Requests \cup {None}]
      /\ Phase(req[r]) /\ Held(r) /\ req[r].pc = "write"
  BY DEF RInv, RType, Write
<1>2. /\ UNCHANGED <<bucket, now, grants, restarts>>
      /\ holder[b] \in {None, r} /\ holder' = [holder EXCEPT ![b] = r]
      /\ req' = [req EXCEPT ![r].wrote = Append(@, new), ![r].pc = pc2]
  BY DEF Write
<1>3. i \in 1..Len(old.wants) /\ i \in 1..Len(old.states) /\ b \in Buckets
      /\ old.states[i] \in RowSet /\ old.current \in Nat /\ new \in RowSet
  <2>1. i \in 1..Len(old.wants) /\ i \in 1..Len(old.states)
    BY <1>1 DEF Phase, RequestSet
  <2>2. b \in Buckets /\ old.states[i] \in RowSet /\ old.current \in Nat
    BY <1>1, <2>1 DEF RequestSet
  <2> QED
    BY <2>1, <2>2, WrittenFacts, Zenon
<1>4. /\ req'[r].states = old.states /\ req'[r].wrote = Append(old.wrote, new)
      /\ req'[r].wants = old.wants /\ req'[r].current = old.current /\ req'[r].pc = pc2
      /\ \A q \in Requests \ {r} : req'[q] = req[q]
      /\ req' \in [Requests -> RequestSet]
  <2>1. Append(old.wrote, new) \in Seq(RowSet)
    BY <1>1, <1>3 DEF RequestSet
  <2> HIDE DEF new
  <2> QED
    BY <1>1, <1>2, <2>1, Zenon DEF RequestSet
<1>5. /\ holder' \in [Buckets -> Requests \cup {None}]
      /\ holder'[b] = r /\ \A c \in Buckets : holder[c] = r => holder'[c] = r
  BY <1>1, <1>2, <1>3, ZenonT(60)
<1>6. Spares(r)
  BY <1>1, <1>2, <1>4, LimitNumbers, ZenonT(60) DEF Spares
<1>7. Len(req'[r].wrote) = i
  BY <1>1, <1>3, <1>4 DEF RequestSet
<1>8. Phase(req'[r])
  BY <1>1, <1>3, <1>4, <1>7 DEF Phase, Done, RequestSet
<1>9. Held(r)'
  <2>1. \A j \in 1..Len(old.states) : old.wants[j] \in Buckets
    BY <1>1 DEF Phase, RequestSet
  <2>2. \A j \in 1..i : holder'[old.wants[j]] = r
                        /\ req'[r].wrote[j] = Written(old.states[j], old.current)
    <3> TAKE j \in 1..i
    <3>1. CASE j = i
      <4>1. req'[r].wrote[i] = new
        BY <1>1, <1>4 DEF RequestSet
      <4> QED
        BY <1>5, <3>1, <4>1
    <3>2. CASE j # i
      <4>1. j \in 1..Len(old.wrote) /\ req'[r].wrote[j] = old.wrote[j]
            /\ j \in 1..Len(old.states)
        BY <1>1, <1>3, <1>4, <3>2 DEF RequestSet
      <4>2. holder[old.wants[j]] = r /\ old.wrote[j] = Written(old.states[j], old.current)
        BY <1>1, <4>1 DEF Held
      <4> QED
        BY <1>5, <2>1, <4>1, <4>2
    <3> QED
      BY <3>1, <3>2
  <2>3. \A j \in 1..Len(old.states) : old.states[j].exists =>
            /\ holder'[old.wants[j]] = r /\ bucket'[old.wants[j]] = old.states[j]
            /\ ~Exhausted(old.states[j], old.wants[j], old.current)
    BY <1>1, <1>2, <1>5, <2>1 DEF Held
  <2> HIDE DEF i, old
  <2> QED
    BY <1>4, <1>7, <2>2, <2>3 DEF Held
<1>10. RType'
  BY <1>2, <1>4, <1>5, Zenon DEF RInv, RType
<1> QED
  BY <1>2, <1>6, <1>8, <1>9, <1>10, OthersHeld, SameRows, Zenon DEF RInv

\* A window's bound takes one more limit when its count is set back.
LEMMA Product ==
    ASSUME NEW l \in Nat, NEW n \in Nat
    PROVE  l * n \in Nat /\ l * (n + 1) = l * n + l /\ l * 0 = 0 /\ l * (0 + 1) = l
  OBVIOUS

LEMMA BoundFrom ==
    ASSUME NEW b \in Buckets, Limit[b] \in Nat, grants'[b] \in Nat, restarts'[b] \in Nat,
           bucket'[b].count \in Nat, bucket'[b].count <= Limit[b],
           NEW p \in Nat, Limit[b] * restarts'[b] = p, grants'[b] <= p + bucket'[b].count
    PROVE  RowBound(b)'
<1>1. Limit[b] * (restarts'[b] + 1) = p + Limit[b]
  BY Product, Zenon
<1>2. grants'[b] <= p + Limit[b]
  OBVIOUS
<1> QED
  BY <1>1, <1>2 DEF RowBound

LEMMA ApplyFacts ==
    ASSUME RInv, NEW r \in Requests, req[r].pc = "commit", NEW admitted \in {0, 1},
           Apply(r, admitted)
    PROVE  /\ bucket' \in [Buckets -> RowSet]
           /\ grants' \in [Buckets -> Nat] /\ restarts' \in [Buckets -> Nat]
           /\ \A b \in Buckets : RowBound(b)'
           /\ \A b \in Buckets : holder[b] \in Requests \ {r} => bucket'[b] = bucket[b]
<1>1. /\ req[r] \in RequestSet /\ Phase(req[r]) /\ Held(r)
      /\ bucket \in [Buckets -> RowSet]
      /\ grants \in [Buckets -> Nat] /\ restarts \in [Buckets -> Nat]
  BY DEF RInv, RType
<1>2. Len(req[r].wrote) = Len(req[r].wants) /\ Len(req[r].states) = Len(req[r].wants)
  BY <1>1 DEF Phase, RequestSet
<1>3. ASSUME NEW b \in Touched(r)
      PROVE  \E j \in 1..Len(req[r].wants) : Place(r, b) = j /\ req[r].wants[j] = b
  <2>1. PICK k \in DOMAIN req[r].wrote : req[r].wants[k] = b
    BY <1>3 DEF Touched
  <2>2. k \in DOMAIN req[r].wants /\ DOMAIN req[r].wants = 1..Len(req[r].wants)
    BY <1>1, <1>2, <2>1 DEF RequestSet
  <2> QED
    BY <2>1, <2>2, Zenon DEF Place
<1>4. ASSUME NEW b \in Buckets
      PROVE  /\ bucket'[b] \in RowSet /\ grants'[b] \in Nat /\ restarts'[b] \in Nat
             /\ RowBound(b)'
             /\ holder[b] \in Requests \ {r} => bucket'[b] = bucket[b]
  <2>1. CASE b \notin Touched(r)
    <3>1. bucket'[b] = bucket[b] /\ grants'[b] = grants[b] /\ restarts'[b] = restarts[b]
      BY <2>1 DEF Apply
    <3> QED
      BY <1>1, <3>1 DEF RInv, RowBound
  <2>2. CASE b \in Touched(r)
    <3>1. PICK j \in 1..Len(req[r].wants) : Place(r, b) = j /\ req[r].wants[j] = b
      BY <1>3, <2>2
    <3> DEFINE row == req[r].states[j]
               current == req[r].current
    <3>2. row \in RowSet /\ current \in Nat /\ j \in 1..Len(req[r].states)
          /\ j \in 1..Len(req[r].wrote)
      BY <1>1, <1>2 DEF RequestSet
    <3>3. /\ holder[b] = r
          /\ row.exists => bucket[b] = row /\ ~Exhausted(row, b, current)
          /\ req[r].wrote[j] = Written(row, current)
      <4>1. holder[req[r].wants[j]] = r /\ req[r].wrote[j] = Written(row, current)
        BY <1>1, <3>2, Zenon DEF Held
      <4>2. row.exists =>
              bucket[req[r].wants[j]] = row /\ ~Exhausted(row, req[r].wants[j], current)
        BY <1>1, <3>2, Zenon DEF Held
      <4> QED
        BY <3>1, <4>1, <4>2
    <3> HIDE DEF row, current
    <3>4. bucket'[b] = Written(row, current)
      BY <2>2, <3>1, <3>3 DEF Apply, Committed
    <3>5. Fresh(r, b) <=> ~bucket[b].exists \/ (row.exists /\ row.expires <= current)
      BY <3>1, Zenon DEF Fresh, row, current
    <3>6. /\ grants'[b] = (IF Fresh(r, b) THEN 0 ELSE grants[b]) + admitted
          /\ restarts'[b] = IF Fresh(r, b) THEN 0
                            ELSE IF row.exists THEN restarts[b] ELSE restarts[b] + 1
      BY <2>2, <3>1 DEF Apply, row
    <3>7. bucket'[b].exists /\ bucket'[b] \in RowSet /\ bucket'[b].count \in Nat
      BY <3>2, <3>4, WrittenFacts, ZenonT(60) DEF RowSet
    <3>8. /\ ~row.exists \/ row.expires <= current => bucket'[b].count = 1
          /\ row.exists /\ ~(row.expires <= current) => bucket'[b].count = row.count + 1
          /\ ~Exhausted(row, b, current) => bucket'[b].count <= Limit[b]
      <4>1. /\ ~row.exists \/ row.expires <= current => Written(row, current).count = 1
            /\ row.exists /\ ~(row.expires <= current) =>
                 Written(row, current).count = row.count + 1
            /\ ~Exhausted(row, b, current) => Written(row, current).count <= Limit[b]
        BY <3>2, WrittenFacts, Zenon
      <4> QED
        BY <3>4, <4>1
    <3>9. bucket'[b].count <= Limit[b]
      BY <3>3, <3>8 DEF Exhausted
    <3>10. Limit[b] \in Nat /\ 1 <= Limit[b] /\ grants[b] \in Nat /\ restarts[b] \in Nat
           /\ row.count \in Nat /\ bucket[b].count \in Nat
      BY <1>1, <3>2, LimitNumbers DEF RowSet
    <3> DEFINE p == Limit[b] * restarts[b]
    <3>11. /\ p \in Nat
           /\ Limit[b] * (restarts[b] + 1) = p + Limit[b]
           /\ Limit[b] * 0 = 0
           /\ Limit[b] * ((restarts[b] + 1) + 1) = (p + Limit[b]) + Limit[b]
      <4>1. restarts[b] + 1 \in Nat
        BY <3>10
      <4>2. p \in Nat /\ Limit[b] * (restarts[b] + 1) = p + Limit[b]
        BY <3>10, Product
      <4>3. Limit[b] * ((restarts[b] + 1) + 1) = Limit[b] * (restarts[b] + 1) + Limit[b]
        BY <3>10, <4>1, Product, Zenon
      <4>4. Limit[b] * 0 = 0
        BY <3>10, Product
      <4> HIDE DEF p
      <4> QED
        BY <4>2, <4>3, <4>4
    <3> HIDE DEF p
    <3>p. p \in Nat
      BY <3>11
    <3>12. bucket[b].exists => bucket[b].count <= Limit[b] /\ grants[b] <= p + bucket[b].count
      BY DEF RInv, RowBound, p
    <3>13. grants[b] <= p + Limit[b]
      BY <3>11, Zenon DEF RInv, RowBound
    <3>14. CASE Fresh(r, b)
      <4>1. grants'[b] = admitted /\ restarts'[b] = 0
        BY <3>6, <3>14
      <4>2. bucket'[b].count >= 1
        BY <3>7, <3>8, <3>10
      <4>3. grants'[b] \in Nat /\ restarts'[b] \in Nat
            /\ Limit[b] * restarts'[b] = 0 /\ grants'[b] <= 0 + bucket'[b].count
        BY <3>7, <3>11, <4>1, <4>2
      <4> QED
        BY <3>3, <3>7, <3>9, <3>10, <4>3, BoundFrom
    <3>15. CASE ~Fresh(r, b) /\ row.exists
      <4>1. grants'[b] = grants[b] + admitted /\ restarts'[b] = restarts[b]
        BY <3>6, <3>15, Zenon
      <4>2. bucket'[b].count = bucket[b].count + 1 /\ bucket[b].exists
        BY <3>3, <3>5, <3>8, <3>15, Zenon
      <4>3. grants'[b] \in Nat /\ restarts'[b] \in Nat
            /\ grants'[b] <= p + bucket'[b].count
        <5>1. grants[b] <= p + bucket[b].count
          BY <3>12, <4>2, Zenon
        <5>2. /\ grants[b] + admitted \in Nat
              /\ grants[b] + admitted <= p + (bucket[b].count + 1)
          BY <3>10, <3>p, <5>1, GrantsGrow, Zenon
        <5> QED
          BY <3>10, <4>1, <4>2, <5>2, Zenon
      <4>4. Limit[b] * restarts'[b] = p
        BY <4>1 DEF p
      <4> QED
        BY <3>3, <3>7, <3>9, <3>10, <3>p, <4>3, <4>4, BoundFrom, Zenon
    <3>16. CASE ~Fresh(r, b) /\ ~row.exists
      <4>1. grants'[b] = grants[b] + admitted /\ restarts'[b] = restarts[b] + 1
        BY <3>6, <3>16
      <4>2. bucket'[b].count = 1
        BY <3>8, <3>16
      <4>3. grants'[b] \in Nat /\ restarts'[b] \in Nat /\ p + Limit[b] \in Nat
            /\ grants'[b] <= (p + Limit[b]) + bucket'[b].count
        <5>1. /\ p + Limit[b] \in Nat /\ grants[b] + admitted \in Nat
              /\ grants[b] + admitted <= (p + Limit[b]) + 1
          BY <3>10, <3>p, <3>13, GrantsRestart, Zenon
        <5>2. restarts[b] + 1 \in Nat
          BY <3>10, NextNat, Zenon
        <5> QED
          BY <4>1, <4>2, <5>1, <5>2, Zenon
      <4>4. Limit[b] * restarts'[b] = p + Limit[b]
        BY <3>11, <4>1
      <4> QED
        BY <3>3, <3>7, <3>9, <3>10, <4>3, <4>4, BoundFrom, Zenon
    <3> QED
      BY <3>14, <3>15, <3>16
  <2> QED
    BY <2>1, <2>2
<1> QED
  BY <1>4 DEF Apply

LEMMA CommitKeeps ==
    ASSUME RInv, NEW r \in Requests, Commit(r)
    PROVE  RInv'
<1>1. PICK outcome \in {"granted", "error"}, admitted \in {0, 1} :
        req' = [req EXCEPT ![r] = Over(outcome)] /\ Apply(r, admitted)
  BY Zenon DEF Commit
<1>2. req[r].pc = "commit" /\ holder' = Unlocked(r) /\ now' = now /\ outcome \in Done
  BY DEF Commit, Done
<1> QED
  BY <1>1, <1>2, ApplyFacts, EndsRequest, ZenonT(60) DEF RInv, RType

LEMMA RollbackKeeps ==
    ASSUME RInv, NEW r \in Requests, Rollback(r)
    PROVE  RInv'
  BY EndsRequest, SameRows, Zenon DEF RInv, RType, Rollback, Done

LEMMA DeleteKeeps ==
    ASSUME RInv, NEW b \in Buckets, DeleteExpired(b)
    PROVE  RInv'
<1>1. /\ bucket' = [bucket EXCEPT ![b] = NoRow] /\ holder[b] = None
      /\ UNCHANGED <<holder, req, now, grants, restarts>>
  BY DEF DeleteExpired
<1>2. bucket' \in [Buckets -> RowSet] /\ ~bucket'[b].exists
      /\ \A c \in Buckets : c # b => bucket'[c] = bucket[c]
  BY <1>1, NoRowType DEF RInv, RType
<1>3. Spares(None)
  BY <1>1, <1>2, LimitNumbers DEF Spares
<1>4. \A c \in Buckets : RowBound(c)'
  BY <1>1, <1>2 DEF RInv, RowBound
<1>5. \A q \in Requests : Phase(req[q])' /\ Held(q)'
  BY <1>3, LimitNumbers, OthersHeld
<1> QED
  BY <1>1, <1>2, <1>4, <1>5 DEF RInv, RType

LEMMA RInitInv == RInit => RInv
<1> SUFFICES ASSUME RInit PROVE RInv
  OBVIOUS
<1>1. NewRequest \in RequestSet /\ Len(NewRequest.states) = 0 /\ Len(NewRequest.wrote) = 0
      /\ Phase(NewRequest)
  BY DEF NewRequest, RequestSet, Phase, Done
<1>2. RType
  BY <1>1, NoRowType, LimitNumbers DEF RInit, RType
<1>3. \A r \in Requests : Phase(req[r]) /\ Held(r)
  <2> TAKE r \in Requests
  <2>1. req[r] = NewRequest
    BY Zenon DEF RInit
  <2> QED
    BY <1>1, <2>1 DEF Held
<1>4. \A b \in Buckets : RowBound(b)
  BY NoRowType, LimitNumbers, Product DEF RInit, RowBound
<1> QED
  BY <1>2, <1>3, <1>4 DEF RInv

LEMMA RNextInv == RInv /\ [RNext]_rvars => RInv'
<1> SUFFICES ASSUME RInv, [RNext]_rvars PROVE RInv'
  OBVIOUS
<1>1. ASSUME NEW r \in Requests,
             Arrive(r) \/ Read(r) \/ Write(r) \/ Commit(r) \/ DeadlockAbort(r) \/ TimesOut(r)
      PROVE  RInv'
  <2>1. CASE DeadlockAbort(r) \/ TimesOut(r)
    BY <2>1, RollbackKeeps DEF DeadlockAbort, TimesOut
  <2> QED
    BY <1>1, <2>1, ArriveKeeps, ReadKeeps, WriteKeeps, CommitKeeps
<1>2. ASSUME NEW b \in Buckets, DeleteExpired(b) PROVE RInv'
  BY <1>2, DeleteKeeps, ZenonT(60)
<1>3. ASSUME UNCHANGED <<bucket, holder, req, grants, restarts>>, now' \in Nat PROVE RInv'
  BY <1>3 DEF RInv, RType, Held, RowBound
<1>4. CASE Tick
  <2>1. now' \in Nat
    BY <1>4 DEF RInv, RType, Tick
  <2> QED
    BY <1>3, <1>4, <2>1 DEF Tick
<1>5. CASE UNCHANGED rvars
  BY <1>3, <1>5 DEF rvars, RInv, RType
<1> QED
  BY <1>1, <1>2, <1>4, <1>5, Zenon DEF RNext

LEMMA RAlways == RSpec => []RInv
  BY RInitInv, RNextInv, PTL DEF RSpec

\* consume_many for any set of requests, buckets, limits and orders of the
\* buckets: a window admits at most its limit, and one limit more for every
\* request that read the bucket before its row existed and wrote it after.
THEOREM GrantsTheorem == RSpec => []GrantsBounded
<1>1. RInv => GrantsBounded
  BY DEF RInv, RowBound, GrantsBounded
<1> QED
  BY <1>1, RAlways, PTL

\* A refused request leaves every bucket as it was.
THEOREM AllOrNothingTheorem == RSpec => AllOrNothing
<1>1. ASSUME RInv, RNext, NEW r \in Requests, req[r].pc # "refused", req'[r].pc = "refused"
      PROVE  bucket' = bucket
  <2> SUFFICES ASSUME NEW q \in Requests, Commit(q) PROVE FALSE
    BY <1>1, Zenon DEF RNext, Arrive, Read, Write, DeadlockAbort, TimesOut, Rollback,
       DeleteExpired, Tick
  <2>1. req[r] \in RequestSet /\ req \in [Requests -> RequestSet]
    BY <1>1 DEF RInv, RType
  <2>2. PICK outcome \in {"granted", "error"} : req' = [req EXCEPT ![q] = Over(outcome)]
    BY Zenon DEF Commit
  <2>3. Over(outcome).pc # "refused"
    BY OverFacts DEF Done
  <2> QED
    BY <1>1, <2>1, <2>2, <2>3
<1>2. RInv /\ [RNext]_rvars =>
        [\A r \in Requests :
            req[r].pc # "refused" /\ req'[r].pc = "refused" => bucket' = bucket]_rvars
  <2> SUFFICES ASSUME RInv, RNext, NEW r \in Requests, req[r].pc # "refused",
                      req'[r].pc = "refused"
               PROVE  bucket' = bucket
    OBVIOUS
  <2> QED
    BY <1>1
<1> QED
  BY <1>2, RAlways, PTL DEF RSpec, AllOrNothing

-----------------------------------------------------------------------------
(* TurnCredentials: the inductive invariant *)

Flying == {"transfer", "actor", "peer", "limits", "provider"}
Charging == {"provider", "issued", "unavailable"}

AskSet ==
    [at : {"new", "denied", "limited", "failed"} \cup Flying \cup Charging,
     device : Devices, current : Nat, actor : BOOLEAN, entitled : BOOLEAN,
     payload : {"none", "good", "bad"}]

TType ==
    /\ clock \in Nat
    /\ transfer \in {"live", "over"}
    /\ enrolled \subseteq Devices
    /\ ask \in [Asks -> AskSet]

\* What a request that was not entitled has still to stumble over.
Obstacle(r) ==
    /\ r.at = "transfer" =>
        \/ transfer = "over" \/ Deadline <= r.current
        \/ r.device \notin Participants \/ ~(Participants \subseteq enrolled)
    /\ r.at = "actor" => r.device \in Participants /\ ~(Participants \subseteq enrolled)
    /\ r.at = "peer" /\ r.actor => Peer(r.device) \notin enrolled
    /\ r.at \notin {"limits", "provider", "issued"}

Stopped == \A a \in Asks : ask[a].entitled \/ Obstacle(ask[a])

TInv == TType /\ Stopped

-----------------------------------------------------------------------------
(* Requests *)

LEMMA Numbers ==
    /\ Deadline \in Nat /\ MaxAsks \in Nat /\ MaxClock \in Nat
    /\ Sender \in Devices /\ Recipient \in Devices /\ Sender # Recipient
BY TurnAssumption

LEMMA NewAskFacts ==
    /\ NewAsk \in AskSet /\ NewAsk.at = "new" /\ NewAsk.device = Sender
BY Numbers DEF NewAsk, AskSet

LEMMA AnsweredFacts ==
    ASSUME TType, NEW a \in Asks,
           NEW outcome \in {"denied", "limited", "failed", "issued", "unavailable"}
    PROVE /\ Answered(a, outcome) \in AskSet
          /\ Answered(a, outcome).at = outcome
          /\ Answered(a, outcome).device = ask[a].device
          /\ Answered(a, outcome).entitled = ask[a].entitled
<1>1. ask[a].device \in Devices /\ ask[a].entitled \in BOOLEAN
  BY DEF TType, AskSet
<1>2. NewAsk \in AskSet
  BY NewAskFacts
<1>3. outcome \in {"new", "denied", "limited", "failed"} \cup Flying \cup Charging
  BY DEF Charging
<1>4. Answered(a, outcome) \in AskSet
  BY <1>1, <1>2, <1>3, Zenon DEF Answered, AskSet
<1>5. Answered(a, outcome).at = outcome
  BY <1>2, Zenon DEF Answered, AskSet
<1>6. Answered(a, outcome).device = ask[a].device
  BY <1>2, Zenon DEF Answered, AskSet
<1>7. Answered(a, outcome).entitled = ask[a].entitled
  BY <1>2, Zenon DEF Answered, AskSet
<1> QED BY <1>4, <1>5, <1>6, <1>7

\* The step of request a leaves the others alone.
Only(a) == ask' \in [Asks -> AskSet] /\ \A b \in Asks : b # a => ask'[b] = ask[b]

\* A request that moves on.
LEMMA MovesOn ==
    ASSUME TInv, NEW a \in Asks, Only(a),
           UNCHANGED <<enrolled, clock>>,
           transfer' \in {"live", "over"}, transfer = "over" => transfer' = "over",
           ask'[a].entitled \/ Obstacle(ask[a])'
    PROVE TInv'
<1>1. TType'
  BY Zenon DEF TInv, TType, Only
<1>2. Stopped'
  BY DEF TInv, Stopped, Obstacle, Only
<1> QED BY <1>1, <1>2 DEF TInv

LEMMA AskInv ==
    ASSUME TInv, NEW a \in Asks, Ask(a)
    PROVE TInv'
<1>1. PICK d \in enrolled :
        ask' = [ask EXCEPT ![a] =
            [NewAsk EXCEPT
                !.at = "transfer", !.device = d, !.current = clock,
                !.entitled = /\ transfer = "live" /\ clock < Deadline
                             /\ d \in Participants /\ Participants \subseteq enrolled]]
  BY Zenon DEF Ask
<1> DEFINE e == /\ transfer = "live" /\ clock < Deadline
                /\ d \in Participants /\ Participants \subseteq enrolled
           x == [NewAsk EXCEPT !.at = "transfer", !.device = d, !.current = clock, !.entitled = e]
<1>2. d \in Devices /\ clock \in Nat /\ e \in BOOLEAN
  BY DEF TInv, TType
<1>3. NewAsk \in AskSet
  BY NewAskFacts
<1>4. "transfer" \in {"new", "denied", "limited", "failed"} \cup Flying \cup Charging
  BY DEF Flying
<1>5. ask' = [ask EXCEPT ![a] = x]
  BY <1>1
<1> HIDE DEF e
<1>6. x \in AskSet
  BY <1>2, <1>3, <1>4, Zenon DEF AskSet
<1>7. x.at = "transfer"
  BY <1>3, Zenon DEF AskSet
<1>8. x.device = d
  BY <1>3, Zenon DEF AskSet
<1>9. x.current = clock
  BY <1>3, Zenon DEF AskSet
<1>10. x.entitled = e
  BY <1>3, Zenon DEF AskSet
<1> HIDE DEF x
<1>11. Only(a) /\ ask'[a] = x
  BY <1>5, <1>6 DEF TInv, TType, Only
<1>12. UNCHANGED <<clock, transfer, enrolled>> /\ ask[a].at = "new"
  BY DEF Ask
<1>13. e \/ transfer = "over" \/ Deadline <= clock \/ d \notin Participants \/ ~(Participants \subseteq enrolled)
  BY <1>2, Numbers DEF e, TInv, TType
<1>14. ask'[a].entitled \/ Obstacle(ask[a])'
  BY <1>7, <1>8, <1>9, <1>10, <1>11, <1>12, <1>13, Zenon DEF Obstacle, Participants
<1> QED BY <1>7, <1>11, <1>12, <1>14, MovesOn, SMTT(30) DEF TInv, TType, Charging

LEMMA DeniedInv ==
    ASSUME TInv, NEW a \in Asks, ask[a].at \in Flying \ Charging,
           NEW outcome \in {"denied", "limited", "failed"},
           ask' = [ask EXCEPT ![a] = Answered(a, outcome)],
           UNCHANGED <<enrolled, clock>>,
           transfer' \in {"live", "over"}, transfer = "over" => transfer' = "over"
    PROVE TInv'
<1>1. Only(a) /\ ask'[a].at = outcome
  BY AnsweredFacts DEF TInv, TType, Only
<1>2. ask'[a].entitled \/ Obstacle(ask[a])'
  BY <1>1 DEF Obstacle
<1> QED BY <1>1, <1>2, MovesOn DEF Charging

LEMMA ReadTransferInv ==
    ASSUME TInv, NEW a \in Asks, ReadTransfer(a)
    PROVE TInv'
<1> DEFINE status == IF clock >= Deadline THEN "over" ELSE transfer
           pass == TransferIsEligible(status, ask[a].current, ask[a].device)
<1>1. /\ ask[a].at = "transfer" /\ transfer' = status
      /\ ask' = [ask EXCEPT ![a] = IF pass THEN [ask[a] EXCEPT !.at = "actor"] ELSE Answered(a, "denied")]
      /\ UNCHANGED <<clock, enrolled>>
  BY DEF ReadTransfer
<1>2. status \in {"live", "over"} /\ (transfer = "over" => status = "over")
  BY DEF TInv, TType
<1>3. CASE ~pass
  BY <1>1, <1>2, <1>3, DeniedInv, Zenon DEF Flying, Charging
<1>4. CASE pass
  <2>1. ask[a] \in AskSet
    BY DEF TInv, TType
  <2> DEFINE x == [ask[a] EXCEPT !.at = "actor"]
  <2>2. /\ x \in AskSet /\ x.at = "actor" /\ x.device = ask[a].device
        /\ x.entitled = ask[a].entitled
    BY <2>1 DEF AskSet, Flying
  <2>3. ask' = [ask EXCEPT ![a] = x]
    BY <1>1, <1>4
  <2> HIDE DEF x
  <2>4. Only(a) /\ ask'[a] = x
    BY <2>2, <2>3 DEF Only, TInv, TType
  <2>5. /\ status = "live" /\ Deadline > ask[a].current /\ ask[a].device \in Participants
    BY <1>4 DEF TransferIsEligible
  <2>6. transfer # "over" /\ ~(Deadline <= ask[a].current)
    BY <1>2, <2>1, <2>5, Numbers DEF AskSet
  <2>7. ask[a].entitled \/ Obstacle(ask[a])
    BY DEF TInv, Stopped
  <2>8. ask'[a].entitled \/ Obstacle(ask[a])'
    BY <1>1, <2>2, <2>4, <2>5, <2>6, <2>7 DEF Obstacle, Participants
  <2> QED BY <1>1, <1>2, <2>2, <2>4, <2>8, MovesOn DEF Charging
<1> QED BY <1>3, <1>4

LEMMA ReadActorInv ==
    ASSUME TInv, NEW a \in Asks, ReadActor(a)
    PROVE TInv'
<1>1. /\ ask[a].at = "actor" /\ UNCHANGED <<clock, transfer, enrolled>>
      /\ ask' = [ask EXCEPT ![a].at = "peer", ![a].actor = ask[a].device \in enrolled]
  BY DEF ReadActor
<1>2. ask \in [Asks -> AskSet] /\ ask[a] \in AskSet
  BY DEF TInv, TType
<1> DEFINE yes == ask[a].device \in enrolled
           x == [ask[a] EXCEPT !.at = "peer", !.actor = yes]
<1>3. ask' = [ask EXCEPT ![a] = x]
  BY <1>1, <1>2, Zenon DEF AskSet
<1>4. yes \in BOOLEAN /\ "peer" \in {"new", "denied", "limited", "failed"} \cup Flying \cup Charging
  BY DEF Flying
<1> HIDE DEF yes
<1>5. x \in AskSet
  BY <1>2, <1>4, Zenon DEF AskSet
<1>6. x.at = "peer"
  BY <1>2, Zenon DEF AskSet
<1>7. x.actor = yes
  BY <1>2, Zenon DEF AskSet
<1>8. x.device = ask[a].device /\ x.entitled = ask[a].entitled
  BY <1>2, Zenon DEF AskSet
<1> HIDE DEF x
<1>9. Only(a) /\ ask'[a] = x
  BY <1>2, <1>3, <1>5 DEF Only
<1>10. ask[a].entitled \/ Obstacle(ask[a])
  BY DEF TInv, Stopped
<1>11. ask'[a].entitled \/ Obstacle(ask[a])'
  BY <1>1, <1>6, <1>7, <1>8, <1>9, <1>10, Zenon DEF Obstacle, Participants, Peer, yes
<1> QED BY <1>1, <1>6, <1>9, <1>11, MovesOn DEF Charging, TInv, TType

LEMMA ReadPeerInv ==
    ASSUME TInv, NEW a \in Asks, ReadPeer(a)
    PROVE TInv'
<1> DEFINE pass == DeviceIsEligible(a) /\ PeerIsEligible(a)
<1>1. /\ ask[a].at = "peer" /\ UNCHANGED <<clock, transfer, enrolled>>
      /\ ask' = [ask EXCEPT ![a] = IF pass THEN [ask[a] EXCEPT !.at = "limits"] ELSE Answered(a, "denied")]
  BY DEF ReadPeer
<1>2. CASE ~pass
  BY <1>1, <1>2, DeniedInv, Zenon DEF Flying, Charging, TInv, TType
<1>3. CASE pass
  <2>1. ask[a] \in AskSet
    BY DEF TInv, TType
  <2> DEFINE x == [ask[a] EXCEPT !.at = "limits"]
  <2>2. x \in AskSet /\ x.at = "limits" /\ x.entitled = ask[a].entitled
    BY <2>1 DEF AskSet, Flying
  <2>3. ask' = [ask EXCEPT ![a] = x]
    BY <1>1, <1>3
  <2> HIDE DEF x
  <2>4. Only(a) /\ ask'[a] = x
    BY <2>2, <2>3 DEF Only, TInv, TType
  <2>5. ask[a].entitled
    BY <1>1, <1>3 DEF PeerIsEligible, TInv, Stopped, Obstacle
  <2> QED BY <1>1, <2>2, <2>4, <2>5, MovesOn, Zenon DEF Charging, TInv, TType
<1> QED BY <1>2, <1>3

LEMMA ChargeInv ==
    ASSUME TInv, NEW a \in Asks, Charge(a)
    PROVE TInv'
<1>1. ask[a].at = "limits" /\ UNCHANGED <<clock, transfer, enrolled>>
  BY DEF Charge
<1>2. CASE ask' = [ask EXCEPT ![a] = Answered(a, "limited")]
  BY <1>1, <1>2, DeniedInv, Zenon DEF Flying, Charging, TInv, TType
<1>3. CASE ask' = [ask EXCEPT ![a].at = "provider"]
  <2>1. ask[a] \in AskSet
    BY DEF TInv, TType
  <2> DEFINE x == [ask[a] EXCEPT !.at = "provider"]
  <2>2. x \in AskSet /\ x.at = "provider" /\ x.entitled = ask[a].entitled
    BY <2>1 DEF AskSet, Flying
  <2>3. ask' = [ask EXCEPT ![a] = x]
    BY <1>3
  <2> HIDE DEF x
  <2>4. Only(a) /\ ask'[a] = x
    BY <2>2, <2>3 DEF Only, TInv, TType
  <2>5. ask[a].entitled
    BY <1>1, Zenon DEF TInv, Stopped, Obstacle
  <2> QED BY <1>1, <2>2, <2>4, <2>5, MovesOn, Zenon DEF TInv, TType
<1> QED BY <1>2, <1>3 DEF Charge

LEMMA GiveUpInv ==
    ASSUME TInv, NEW a \in Asks, GiveUp(a)
    PROVE TInv'
BY DeniedInv, Zenon DEF GiveUp, Flying, Charging, TInv, TType

LEMMA CallProviderInv ==
    ASSUME TInv, NEW a \in Asks, CallProvider(a)
    PROVE TInv'
<1>1. PICK v \in Verdicts :
        ask' = [ask EXCEPT ![a] =
            [Answered(a, IF v.usable THEN "issued" ELSE "unavailable") EXCEPT !.payload = v.payload]]
  BY Zenon DEF CallProvider
<1> DEFINE o == IF v.usable THEN "issued" ELSE "unavailable"
           x == [Answered(a, o) EXCEPT !.payload = v.payload]
<1>2. v.payload \in {"none", "good", "bad"}
  BY DEF Verdicts
<1>3. o \in {"issued", "unavailable"}
  OBVIOUS
<1> HIDE DEF o
<1>4. /\ Answered(a, o) \in AskSet /\ Answered(a, o).at = o
      /\ Answered(a, o).device = ask[a].device
      /\ Answered(a, o).entitled = ask[a].entitled
  BY <1>3, AnsweredFacts DEF TInv
<1>5. /\ x \in AskSet /\ x.at = o /\ x.device = ask[a].device /\ x.entitled = ask[a].entitled
  BY <1>2, <1>4 DEF AskSet
<1>6. ask' = [ask EXCEPT ![a] = x]
  BY <1>1 DEF o
<1> HIDE DEF x
<1>7. Only(a) /\ ask'[a] = x
  BY <1>5, <1>6 DEF Only, TInv, TType
<1>8. ask[a].at = "provider" /\ UNCHANGED <<clock, transfer, enrolled>>
  BY DEF CallProvider
<1>9. ask[a].entitled
  BY <1>8 DEF TInv, Stopped, Obstacle
<1> QED BY <1>3, <1>5, <1>7, <1>8, <1>9, MovesOn, Zenon DEF Charging, TInv, TType

LEMMA EnrolAgainInv ==
    ASSUME TInv, NEW d \in Devices, EnrolAgain(d)
    PROVE TInv'
<1>1. /\ enrolled' = enrolled \cup {d} /\ UNCHANGED <<clock, transfer>>
      /\ ask' = [a \in Asks |-> IF a \in InFlight THEN [ask[a] EXCEPT !.entitled = TRUE] ELSE ask[a]]
  BY DEF EnrolAgain
<1>2. ASSUME NEW a \in Asks
      PROVE /\ ask'[a] \in AskSet /\ ask'[a].at = ask[a].at /\ ask'[a].device = ask[a].device
            /\ IF ask[a].at \in Flying THEN ask'[a].entitled ELSE ask'[a] = ask[a]
  <2>1. ask[a] \in AskSet
    BY DEF TInv, TType
  <2> QED BY <1>1, <2>1, Zenon DEF AskSet, InFlight, Flying
<1>3. TType'
  <2>1. ask' \in [Asks -> AskSet]
    BY <1>1, <1>2, Zenon
  <2> QED BY <1>1, <2>1 DEF TInv, TType
<1>4. Stopped'
  BY <1>2, Zenon DEF TInv, Stopped, Obstacle, Flying
<1> QED BY <1>3, <1>4 DEF TInv

LEMMA MeanwhileInv ==
    ASSUME TInv, EndTransfer \/ TurnTick \/ (\E d \in Devices : LogOut(d)) \/ UNCHANGED tvars
    PROVE TInv'
<1>1. /\ ask' = ask /\ clock' \in Nat /\ enrolled' \subseteq enrolled
      /\ transfer' \in {"live", "over"} /\ (transfer = "over" => transfer' = "over")
  BY DEF EndTransfer, TurnTick, LogOut, tvars, TInv, TType
<1>2. TType'
  BY <1>1 DEF TInv, TType
<1>3. Stopped'
  BY <1>1 DEF TInv, Stopped, Obstacle
<1> QED BY <1>2, <1>3 DEF TInv

-----------------------------------------------------------------------------

LEMMA TurnInitInv == TurnInit => TInv
<1> SUFFICES ASSUME TurnInit PROVE TInv
  OBVIOUS
<1>1. TType
  BY NewAskFacts DEF TurnInit, TType
<1>2. Stopped
  BY NewAskFacts DEF TurnInit, Stopped, Obstacle
<1> QED BY <1>1, <1>2 DEF TInv

LEMMA TurnNextInv == TInv /\ [TurnNext]_tvars => TInv'
BY ZenonT(60), AskInv, ReadTransferInv, ReadActorInv, ReadPeerInv, ChargeInv, CallProviderInv,
   GiveUpInv, EnrolAgainInv, MeanwhileInv DEF TurnNext

LEMMA TurnAlways == TurnSpec => []TInv
BY TurnInitInv, TurnNextInv, PTL DEF TurnSpec

\* Credentials go only to requests that were entitled to them as a whole, however
\* the three reads of turn.py interleave with logouts, ends of the transfer and
\* the clock; for any number of devices and requests.
THEOREM EntitledTheorem == TurnSpec => []IssuedToEntitled
<1>1. TInv => IssuedToEntitled
  BY DEF TInv, Stopped, Obstacle, IssuedToEntitled
<1> QED BY <1>1, TurnAlways, PTL

-----------------------------------------------------------------------------
(* TurnCredentials: the loop over the provider's servers.  Both inductions,  *)
(* the one that shows the recursive function of the loop to exist and the    *)
(* one over the servers, are by least counterexample.                        *)

\* Every set of numbers has a least one.
LEMMA Least ==
    ASSUME NEW T, T \subseteq Nat, T # {}
    PROVE  \E n \in T : \A m \in T : n <= m
<1>1. PICK x \in T : \A y \in T : ~(<<y, x>> \in OpToRel(<, Nat))
  BY WFMin, NatLessThanWellFounded, Zenon
<1>2. \A y \in T : <<y, x>> \in Nat \X Nat /\ <<y, x>>[1] = y /\ <<y, x>>[2] = x
  OBVIOUS
<1>3. \A y \in T : ~(y < x)
  BY <1>1, <1>2, ZenonT(60) DEF OpToRel
<1>. QED  BY <1>3

\* The first n servers have been read.
IsRun(g, p, n) ==
    g = [i \in 0..n |-> IF i = 0 THEN [ok |-> TRUE, login |-> "absent", turn |-> FALSE]
                        ELSE ReadServer(g[i - 1], p[i])]

\* One more server can be read.
LEMMA RunExtends ==
    ASSUME NEW p, NEW n \in Nat, NEW g, IsRun(g, p, n)
    PROVE  \E h : IsRun(h, p, n + 1)
<1>. DEFINE h == [i \in 0..(n + 1) |-> IF i = n + 1 THEN ReadServer(g[n], p[n + 1]) ELSE g[i]]
<1>1. \A i \in 0..(n + 1) :
         h[i] = IF i = 0 THEN [ok |-> TRUE, login |-> "absent", turn |-> FALSE]
                ELSE ReadServer(h[i - 1], p[i])
  <2>. TAKE i \in 0..(n + 1)
  <2>1. CASE i = n + 1
    <3>1. i - 1 = n /\ n \in 0..(n + 1) /\ n # n + 1 /\ i # 0
      BY <2>1
    <3>2. h[n] = g[n] /\ h[n + 1] = ReadServer(g[n], p[n + 1])
      BY <2>1, <3>1, Zenon
    <3>. HIDE DEF h
    <3>. QED  BY <2>1, <3>1, <3>2, Zenon
  <2>2. CASE i # n + 1
    <3>1. i \in 0..n /\ h[i] = g[i]  BY <2>2
    <3>2. g[i] = IF i = 0 THEN [ok |-> TRUE, login |-> "absent", turn |-> FALSE]
                 ELSE ReadServer(g[i - 1], p[i])
      BY <3>1, ZenonT(60) DEF IsRun
    <3>3. i # 0 => h[i - 1] = g[i - 1]  BY <2>2, <3>1
    <3>. HIDE DEF h
    <3>. QED  BY <3>1, <3>2, <3>3, Zenon
  <2>. QED  BY <2>1, <2>2, Zenon
<1>2. IsRun(h, p, n + 1)
  <2>. HIDE DEF h
  <2>1. h = [i \in 0..(n + 1) |-> h[i]]  BY DEF h
  <2>. QED  BY <2>1, <1>1, ZenonT(60) DEF IsRun
<1>. QED  BY <1>2

\* So, by the least number of servers that could not be, any number can.
LEMMA RunExists ==
    ASSUME NEW p
    PROVE  \A n \in Nat : \E g : IsRun(g, p, n)
<1>. DEFINE T == {n \in Nat : ~\E g : IsRun(g, p, n)}
<1>1. SUFFICES ASSUME T # {} PROVE FALSE
  OBVIOUS
<1>2. PICK n \in T : \A m \in T : n <= m
  <2>. T \subseteq Nat  OBVIOUS
  <2>. HIDE DEF T
  <2>. QED  BY <1>1, Least, ZenonT(60)
<1>3. n # 0
  <2>. DEFINE g == [i \in 0..0 |-> [ok |-> TRUE, login |-> "absent", turn |-> FALSE]]
  <2>1. \A i \in 0..0 : i = 0  OBVIOUS
  <2>2. IsRun(g, p, 0)
    BY <2>1 DEF IsRun
  <2>. QED  BY <2>2
<1>4. n \in Nat /\ n - 1 \in Nat /\ n - 1 \notin T /\ (n - 1) + 1 = n
  BY <1>2, <1>3
<1>5. PICK g : IsRun(g, p, n - 1)
  BY <1>4
<1>6. \E h : IsRun(h, p, (n - 1) + 1)
  BY <1>4, <1>5, RunExtends
<1>. QED  BY <1>2, <1>4, <1>6

\* The recursive function of the loop is such a run.
LEMMA RoundsRun ==
    ASSUME NEW p, Len(p) \in Nat
    PROVE  IsRun(Rounds(p), p, Len(p))
<1>1. PICK g : IsRun(g, p, Len(p))
  BY RunExists
<1>2. Rounds(p) = CHOOSE f : IsRun(f, p, Len(p))
  BY DEF Rounds, IsRun
<1>. QED  BY <1>1, <1>2

\* The loop is a recursion from each server to the next.
LEMMA RoundsStep ==
    ASSUME NEW p, Len(p) \in Nat
    PROVE  /\ Rounds(p)[0] = [ok |-> TRUE, login |-> "absent", turn |-> FALSE]
           /\ \A k \in 0..(Len(p) - 1) : Rounds(p)[k + 1] = ReadServer(Rounds(p)[k], p[k + 1])
<1>. DEFINE g == Rounds(p)
<1>1. IsRun(g, p, Len(p))  BY RoundsRun
<1>. HIDE DEF g
<1>2. \A i \in 0..Len(p) :
         g[i] = IF i = 0 THEN [ok |-> TRUE, login |-> "absent", turn |-> FALSE]
                ELSE ReadServer(g[i - 1], p[i])
  BY <1>1, ZenonT(60) DEF IsRun
<1>3. g[0] = [ok |-> TRUE, login |-> "absent", turn |-> FALSE]
  BY <1>2
<1>4. ASSUME NEW k \in 0..(Len(p) - 1)
      PROVE  g[k + 1] = ReadServer(g[k], p[k + 1])
  <2>1. k + 1 \in 0..Len(p) /\ k + 1 # 0 /\ (k + 1) - 1 = k
    OBVIOUS
  <2>. QED  BY <1>2, <2>1
<1>. QED  BY <1>3, <1>4 DEF g

\* Reading the first k servers raises nothing.
Sound(p, k) ==
    /\ \A i \in 1..k : UrlsUsable(p[i].urls) /\ p[i].login # "partial"
    /\ \A i, j \in 1..k : p[i].login = "absent" \/ p[j].login = "absent" \/ p[i].login = p[j].login

\* r is what the loop knows after k servers.
Knows(r, p, k) ==
    /\ \E o, t \in BOOLEAN : \E l : r = [ok |-> o, login |-> l, turn |-> t]
    /\ r.ok <=> Sound(p, k)
    /\ r.ok => /\ r.turn <=> \E i \in 1..k : "turn" \in p[i].urls
               /\ \A i \in 1..k : p[i].login = "absent" \/ p[i].login = r.login
               /\ r.login = "absent" \/ \E i \in 1..k : p[i].login = r.login

\* One round of the loop keeps what it knows true.
LEMMA KnowsStep ==
    ASSUME NEW p, NEW k \in Nat, NEW r, Knows(r, p, k)
    PROVE  Knows(ReadServer(r, p[k + 1]), p, k + 1)
<1>. DEFINE s == p[k + 1]
            q == ReadServer(r, s)
            Refused == \/ ~r.ok
                       \/ ~UrlsUsable(s.urls)
                       \/ s.login = "partial"
                       \/ s.login # "absent" /\ r.login # "absent" /\ s.login # r.login
<1>1. PICK o, t, l : o \in BOOLEAN /\ t \in BOOLEAN /\ r = [ok |-> o, login |-> l, turn |-> t]
  BY ZenonT(60) DEF Knows
<1>2. 1..(k + 1) = (1..k) \cup {k + 1}
  OBVIOUS
<1>3. {s.login, r.login} \cap {"absent"} = {} <=> s.login # "absent" /\ r.login # "absent"
  BY ZenonT(60)
<1>4. CASE Refused
  <2>1. q = [ok |-> FALSE, login |-> l, turn |-> t]
    BY <1>1, <1>3, <1>4, ZenonT(60) DEF ReadServer
  <2>2. ~Sound(p, k + 1)
    <3>1. CASE ~r.ok
      BY <3>1, <1>2 DEF Knows, Sound
    <3>2. CASE ~UrlsUsable(s.urls) \/ s.login = "partial"
      BY <3>2, <1>2 DEF Sound
    <3>3. CASE r.ok /\ s.login # "absent" /\ r.login # "absent" /\ s.login # r.login
      <4>1. PICK i \in 1..k : p[i].login = r.login
        BY <3>3 DEF Knows
      <4>. QED  BY <4>1, <3>3, <1>2, Zenon DEF Sound
    <3>. QED  BY <3>1, <3>2, <3>3, <1>4, Zenon
  <2>. HIDE DEF q
  <2>3. ~q.ok /\ \E o2, t2 \in BOOLEAN : \E l2 : q = [ok |-> o2, login |-> l2, turn |-> t2]
    BY <1>1, <2>1, ZenonT(60)
  <2>. QED  BY <2>2, <2>3, ZenonT(60) DEF Knows, q
<1>5. CASE ~Refused
  <2>. DEFINE l2 == IF s.login = "absent" THEN l ELSE s.login
              t2 == t \/ "turn" \in s.urls
  <2>1. q = [ok |-> TRUE, login |-> l2, turn |-> t2]
    BY <1>1, <1>3, <1>5 DEF ReadServer
  <2>2. r.ok /\ r.login = l /\ r.turn = t
    BY <1>1, <1>5
  <2>3. q.ok /\ q.login = l2 /\ q.turn = t2 /\ t2 \in BOOLEAN
    BY <2>1
  <2>4. /\ Sound(p, k)
        /\ t <=> \E i \in 1..k : "turn" \in p[i].urls
        /\ \A i \in 1..k : p[i].login = "absent" \/ p[i].login = l
        /\ l = "absent" \/ \E i \in 1..k : p[i].login = l
    BY <2>2, Zenon DEF Knows
  <2>5. UrlsUsable(s.urls) /\ s.login # "partial" /\ (s.login = "absent" \/ l = "absent" \/ s.login = l)
    BY <1>5, <2>2, Zenon
  <2>6. t2 <=> \E i \in 1..(k + 1) : "turn" \in p[i].urls
    BY <1>2, <2>4
  <2>7. \A i \in 1..(k + 1) : p[i].login = "absent" \/ p[i].login = l2
    BY <1>2, <2>4, <2>5, Zenon
  <2>8. l2 = "absent" \/ \E i \in 1..(k + 1) : p[i].login = l2
    BY <1>2, <2>4, <2>5, Zenon
  <2>9. \A i \in 1..(k + 1) : UrlsUsable(p[i].urls) /\ p[i].login # "partial"
    BY <1>2, <2>4, <2>5 DEF Sound
  <2>10. Sound(p, k + 1)
    BY <2>7, <2>9, Zenon DEF Sound
  <2>11. \E o3, t3 \in BOOLEAN : \E l3 : q = [ok |-> o3, login |-> l3, turn |-> t3]
    BY <2>1, <2>3, ZenonT(60)
  <2>. HIDE DEF q, l2, t2
  <2>. QED  BY <2>3, <2>6, <2>7, <2>8, <2>10, <2>11, ZenonT(60) DEF Knows, q
<1>. QED  BY <1>4, <1>5

\* By the least server at which it would not, every round does.
LEMMA RoundsKnow ==
    ASSUME NEW p, Len(p) \in Nat
    PROVE  \A k \in 0..Len(p) : Knows(Rounds(p)[k], p, k)
<1>. DEFINE T == {k \in 0..Len(p) : ~Knows(Rounds(p)[k], p, k)}
<1>1. SUFFICES ASSUME T # {} PROVE FALSE
  OBVIOUS
<1>2. PICK k \in T : \A m \in T : k <= m
  <2>. T \subseteq Nat  OBVIOUS
  <2>. HIDE DEF T
  <2>. QED  BY <1>1, Least, ZenonT(60)
<1>3. k # 0
  <2>1. \A i : i \notin 1..0  OBVIOUS
  <2>. DEFINE r == [ok |-> TRUE, login |-> "absent", turn |-> FALSE]
  <2>2. r.ok /\ r.login = "absent" /\ r.turn = FALSE  OBVIOUS
  <2>3. \E o, t \in BOOLEAN : \E l : r = [ok |-> o, login |-> l, turn |-> t]  BY ZenonT(60)
  <2>. HIDE DEF r
  <2>4. Knows(r, p, 0)
    BY <2>1, <2>2, <2>3, ZenonT(60) DEF Knows, Sound
  <2>5. Rounds(p)[0] = r  BY RoundsStep DEF r
  <2>. QED  BY <2>4, <2>5
<1>4. k - 1 \in Nat /\ k - 1 \in 0..(Len(p) - 1) /\ k - 1 \in 0..Len(p) /\ k - 1 \notin T /\ (k - 1) + 1 = k
  BY <1>2, <1>3
<1>5. Knows(Rounds(p)[k - 1], p, k - 1)
  BY <1>4
<1>6. Knows(ReadServer(Rounds(p)[k - 1], p[(k - 1) + 1]), p, (k - 1) + 1)
  BY <1>4, <1>5, KnowsStep
<1>7. Rounds(p)[(k - 1) + 1] = ReadServer(Rounds(p)[k - 1], p[(k - 1) + 1])
  BY <1>4, RoundsStep, ZenonT(60)
<1>. QED  BY <1>2, <1>4, <1>6, <1>7

\* The servers' logins, apart from those that are absent.
Given(p) == {p[i].login : i \in 1..Len(p)} \ {"absent"}

\* A payload gives finitely many logins.
LEMMA GivenFinite ==
    ASSUME NEW p, Len(p) \in Nat
    PROVE  IsFiniteSet(Given(p))
<1>. DEFINE All == {p[i].login : i \in 1..Len(p)}
            f == [i \in 1..Len(p) |-> p[i].login]
<1>1. IsFiniteSet(1..Len(p))  BY FS_Interval
<1>2. f \in Surjection(1..Len(p), All)
  BY DEF Surjection
<1>. HIDE DEF f
<1>3. IsFiniteSet(All)
  BY <1>1, <1>2, FS_Surjection
<1>. QED  BY <1>3, FS_Subset DEF Given

\* The loop over the servers accepts exactly the payloads that are well formed,
\* however many servers there are and in whatever order they come.
THEOREM ParserTheorem ==
    ASSUME NEW p, Len(p) \in Nat, DOMAIN p = 1..Len(p)
    PROVE  ParseAccepts(p) <=> WellFormed(p)
<1>. DEFINE n == Len(p)
            r == Rounds(p)[n]
<1>1. Knows(r, p, n)
  BY RoundsKnow
<1>2. ParseAccepts(p) <=> r.ok /\ r.turn /\ r.login # "absent"
  BY DEF ParseAccepts, Parsed
<1>3. WellFormed(p) <=> /\ \A i \in 1..n : UrlsUsable(p[i].urls)
                        /\ \E i \in 1..n : "turn" \in p[i].urls
                        /\ "partial" \notin Given(p)
                        /\ Cardinality(Given(p)) = 1
  <2>1. Given(p) = {s.login : s \in {p[i] : i \in DOMAIN p}} \ {"absent"}
    BY DEF Given
  <2>. QED  BY <2>1, Zenon DEF WellFormed, UrlsUsable
<1>. HIDE DEF r
<1>4. ASSUME r.ok, r.turn, r.login # "absent"
      PROVE  WellFormed(p)
  <2>1. Sound(p, n) /\ \E i \in 1..n : "turn" \in p[i].urls
    BY <1>1, <1>4 DEF Knows
  <2>2. Given(p) = {r.login}
    BY <1>1, <1>4 DEF Knows, Given
  <2>3. Cardinality(Given(p)) = 1
    BY <2>2, FS_Singleton, ZenonT(60)
  <2>4. "partial" \notin Given(p)
    BY <2>1, Zenon DEF Sound, Given
  <2>. QED  BY <1>3, <2>1, <2>3, <2>4, Zenon DEF Sound
<1>5. ASSUME WellFormed(p)
      PROVE  r.ok /\ r.turn /\ r.login # "absent"
  <2>1. PICK x : Given(p) = {x}
    BY <1>3, <1>5, GivenFinite, FS_Singleton, ZenonT(60)
  <2>2. x # "absent" /\ x # "partial" /\ \E i \in 1..n : p[i].login = x
    BY <1>3, <1>5, <2>1, Zenon DEF Given
  <2>3. \A i \in 1..n : p[i].login = "absent" \/ p[i].login = x
    BY <2>1, ZenonT(60) DEF Given
  <2>4. Sound(p, n)
    BY <1>3, <1>5, <2>2, <2>3, Zenon DEF Sound
  <2>. QED  BY <1>1, <1>3, <1>5, <2>2, <2>4 DEF Knows
<1>. QED  BY <1>2, <1>4, <1>5

-----------------------------------------------------------------------------
(* TurnCredentials: what goes out *)

\* What the provider answers is used exactly when it is well formed.
LEMMA VerdictsExact == \A v \in Verdicts : v.usable <=> v.payload = "good"
<1>1. \A p \in Payloads : ParseAccepts(p) <=> WellFormed(p)
  BY TurnAssumption, ParserTheorem
<1>. QED  BY <1>1 DEF Verdicts

\* A step of request a that leaves a record like this behind.
LEMMA OneAnswer ==
    ASSUME TType, ParserIsExact, NEW a \in Asks, NEW x, ask' = [ask EXCEPT ![a] = x],
           x.at = "issued" <=> x.payload = "good"
    PROVE  ParserIsExact'
<1>1. \A b \in Asks : ask'[b] = IF b = a THEN x ELSE ask[b]
  BY DEF TType
<1>. QED  BY <1>1, Zenon DEF ParserIsExact

\* An answer carries no payload, unless the provider was called.
LEMMA AnsweredPayload ==
    ASSUME NEW a, NEW o
    PROVE  Answered(a, o).at = o /\ Answered(a, o).payload = "none"
<1>1. NewAsk \in AskSet  BY NewAskFacts
<1>2. NewAsk.payload = "none"  BY DEF NewAsk
<1>. QED  BY <1>1, <1>2, Zenon DEF Answered, AskSet

\* A request that is not answered yet has no payload that counts.
LEMMA StillAsking ==
    ASSUME ParserIsExact, NEW a \in Asks, ask[a].at # "issued"
    PROVE  ask[a].payload # "good"
BY DEF ParserIsExact

LEMMA AskExact ==
    ASSUME TType, ParserIsExact, NEW a \in Asks, Ask(a)
    PROVE  ParserIsExact'
<1>1. PICK d, e :
         ask' = [ask EXCEPT ![a] = [NewAsk EXCEPT !.at = "transfer", !.device = d,
                                                  !.current = clock, !.entitled = e]]
  BY Zenon DEF Ask
<1>. DEFINE x == [NewAsk EXCEPT !.at = "transfer", !.device = d, !.current = clock, !.entitled = e]
<1>2. x.at = "transfer" /\ x.payload = "none"
  BY DEF NewAsk
<1>. HIDE DEF x
<1>. QED  BY <1>1, <1>2, OneAnswer, ZenonT(60) DEF x

LEMMA ReadsExact ==
    ASSUME TType, ParserIsExact, NEW a \in Asks,
           ReadTransfer(a) \/ ReadActor(a) \/ ReadPeer(a) \/ Charge(a) \/ GiveUp(a)
    PROVE  ParserIsExact'
<1>1. ask[a] \in AskSet  BY DEF TType
<1>2. ask[a].at # "issued"
  BY DEF ReadTransfer, ReadActor, ReadPeer, Charge, GiveUp
<1>3. ask[a].payload # "good"
  BY <1>2, StillAsking
<1>4. ASSUME NEW o, o # "issued"
      PROVE  [ask[a] EXCEPT !.at = o].at # "issued" /\ [ask[a] EXCEPT !.at = o].payload # "good"
  BY <1>1, <1>3, <1>4, Zenon DEF AskSet
<1>5. ASSUME NEW o, o # "issued"
      PROVE  Answered(a, o).at # "issued" /\ Answered(a, o).payload # "good"
  BY <1>5, AnsweredPayload
<1>6. CASE ReadActor(a)
  <2>. DEFINE x == [ask[a] EXCEPT !.at = "peer", !.actor = ask[a].device \in enrolled]
  <2>1. ask' = [ask EXCEPT ![a] = x]
    BY <1>6, ZenonT(60) DEF ReadActor, TType
  <2>2. x.at = "peer" /\ x.payload # "good"
    BY <1>1, <1>3, Zenon DEF AskSet
  <2>. HIDE DEF x
  <2>. QED  BY <2>1, <2>2, OneAnswer, ZenonT(60)
<1>7. CASE ~ReadActor(a)
  <2>1. \E o : /\ o # "issued"
               /\ \/ ask' = [ask EXCEPT ![a] = [ask[a] EXCEPT !.at = o]]
                  \/ ask' = [ask EXCEPT ![a] = Answered(a, o)]
    <3>1. CASE ReadTransfer(a)
      BY <3>1, Zenon DEF ReadTransfer
    <3>2. CASE ReadPeer(a)
      BY <3>2, Zenon DEF ReadPeer
    <3>3. CASE Charge(a)
      BY <3>3, Zenon DEF Charge
    <3>4. CASE GiveUp(a)
      BY <3>4, Zenon DEF GiveUp
    <3>. QED  BY <1>7, <3>1, <3>2, <3>3, <3>4
  <2>. QED  BY <2>1, <1>4, <1>5, OneAnswer, Zenon
<1>. QED  BY <1>6, <1>7

LEMMA CallProviderExact ==
    ASSUME TType, ParserIsExact, NEW a \in Asks, CallProvider(a)
    PROVE  ParserIsExact'
<1>1. PICK v \in Verdicts :
        ask' = [ask EXCEPT ![a] =
            [Answered(a, IF v.usable THEN "issued" ELSE "unavailable") EXCEPT !.payload = v.payload]]
  BY Zenon DEF CallProvider
<1>. DEFINE o == IF v.usable THEN "issued" ELSE "unavailable"
            x == [Answered(a, o) EXCEPT !.payload = v.payload]
<1>2. o = "issued" <=> v.payload = "good"
  BY VerdictsExact
<1>3. o \in {"issued", "unavailable"}  OBVIOUS
<1>4. ask' = [ask EXCEPT ![a] = x]  BY <1>1
<1>. HIDE DEF o
<1>5. Answered(a, o) \in AskSet /\ Answered(a, o).at = o
  BY <1>3, AnsweredFacts
<1>6. x.at = o /\ x.payload = v.payload
  BY <1>5, Zenon DEF AskSet
<1>. HIDE DEF x
<1>. QED  BY <1>2, <1>4, <1>6, OneAnswer, ZenonT(60)

LEMMA EnrolAgainExact ==
    ASSUME TType, ParserIsExact, NEW d, EnrolAgain(d)
    PROVE  ParserIsExact'
<1>1. ASSUME NEW a \in Asks
      PROVE  ask'[a].at = ask[a].at /\ ask'[a].payload = ask[a].payload
  <2>1. ask[a] \in AskSet  BY DEF TType
  <2>2. ask'[a] = IF a \in InFlight THEN [ask[a] EXCEPT !.entitled = TRUE] ELSE ask[a]
    BY DEF EnrolAgain
  <2>. QED  BY <2>1, <2>2, Zenon DEF AskSet
<1>. QED  BY <1>1, Zenon DEF ParserIsExact

LEMMA MeanwhileExact ==
    ASSUME ParserIsExact, EndTransfer \/ TurnTick \/ (\E d \in Devices : LogOut(d)) \/ UNCHANGED tvars
    PROVE  ParserIsExact'
<1>1. ask' = ask
  BY DEF EndTransfer, TurnTick, LogOut, tvars
<1>. QED  BY <1>1, Zenon DEF ParserIsExact

LEMMA ExactStep == TType /\ ParserIsExact /\ [TurnNext]_tvars => ParserIsExact'
BY Zenon, AskExact, ReadsExact, CallProviderExact, EnrolAgainExact, MeanwhileExact DEF TurnNext

\* Credentials go out exactly for the provider's answers that are well formed as
\* a whole: _parse_cloudflare_credentials lets no other through and refuses none
\* of them, for answers with any number of servers.
THEOREM ExactTheorem == TurnSpec => []ParserIsExact
<1>1. TurnInit => ParserIsExact
  <2>1. NewAsk.at = "new" /\ NewAsk.payload = "none"  BY DEF NewAsk
  <2>. QED  BY <2>1 DEF TurnInit, ParserIsExact
<1>2. TInv => TType  BY DEF TInv
<1>. QED  BY <1>1, <1>2, ExactStep, TurnAlways, PTL DEF TurnSpec

=============================================================================
