---------------------------- MODULE LocksProofs ----------------------------
(***************************************************************************)
(* What TLAPS proves of Locks, for any number of goroutines and callbacks  *)
(* inside callbacks to any depth.  What a goroutine holds is what the rest *)
(* of its call gives back: along the rest, whoever asks for a lock holds   *)
(* only locks of a lower rank, but in a callback, and but for the second   *)
(* read of GetLeader.  In a circle of goroutines somebody asks for the     *)
(* lock of the highest rank, and whoever holds that one cannot ask.        *)
(***************************************************************************)
EXTENDS Locks, Integers, TLAPS

\* The steps, with the locks that they are on.
Moves == [do: {"lock", "drain", "unlock", "rlock", "runlock"}, on: Mutexes]
           \cup [do: {"callback", "return"}, on: {"none"}]

Uses == {"write", "read"}
Holdings == [Uses -> [Mutexes -> Nat]]
Nothing == [u \in Uses |-> [l \in Mutexes |-> 0]]

\* How many times a step takes the lock, or gives it back.
Change(step, u, l) ==
  IF step.on # l THEN 0
  ELSE IF step.do = (IF u = "write" THEN "lock" ELSE "rlock") THEN 1
  ELSE IF step.do = (IF u = "write" THEN "unlock" ELSE "runlock") THEN -1
  ELSE 0

Rank == [l \in Mutexes |->
           CASE l = "p.mu" -> 1 [] l = "subsmu" -> 2 [] l = "submu" -> 3
             [] l = "st.mu" -> 4 [] l = "c.mu" -> 5 [] l = "state.mu" -> 6]

\* Whether the i-th step is in a callback.
Inside(path, i) == \E j \in DOMAIN path : j > i /\ path[j].do = "return"

\* What may be held where a lock is asked for.
Asks(step, inside, u, l) ==
  \/ Rank[l] < Rank[step.on] /\ (l = "p.mu" \/ inside)
  \/ u = "read" /\ l = "c.mu" /\ step.do = "rlock" /\ step.on = "c.mu"
  \/ u = "write" /\ step.do = "drain" /\ step.on = l
  \/ inside /\ step.on \in {"p.mu", "subsmu", "submu"}
  \/ inside /\ step.on = "st.mu" /\ u = "write" /\ l = "st.mu"

\* What may be held where a callback is made.
CallsBack(u, l) == <<u, l>> \in {<<"write", "st.mu">>, <<"write", "subsmu">>, <<"read", "submu">>}

Fits(step, inside, u, l) ==
  /\ step.do \in {"lock", "drain", "rlock"} => Asks(step, inside, u, l)
  /\ step.do = "callback" => CallsBack(u, l)

\* held: what is held before each step of the path, and behind the last one.
Follows(path, held) ==
  /\ held \in [1..(Len(path) + 1) -> Holdings]
  /\ \A i \in 1..Len(path), u \in Uses, l \in Mutexes :
       /\ held[i + 1][u][l] = held[i][u][l] + Change(path[i], u, l)
       /\ held[i][u][l] > 0 => Fits(path[i], Inside(path, i), u, l)

Leads(from, path, to) ==
  /\ path \in Seq(Moves)
  /\ \E held : Follows(path, held) /\ held[1] = from /\ held[Len(path) + 1] = to

Holding(g) == [u \in Uses |-> [l \in Mutexes |->
                 IF u = "read" THEN readers[l][g] ELSE IF writer[l] = g THEN 1 ELSE 0]]

\* Who is parked at a lock asks for it.
ParkedAsk == \A l \in Mutexes : \A g \in parked[l] : At(g, "rlock") /\ On(g) = l

\* Who is parked waits for somebody.
ParkedIsBlocked == \A l \in Mutexes : parked[l] # {} => writer[l] # Nobody

IInv == /\ TypeOK
        /\ ParkedAsk
        /\ ParkedIsBlocked
        /\ \A g \in Goroutines : Leads(Holding(g), todo[g], Nothing)

-----------------------------------------------------------------------------
(* Paths *)

\* Holdings that agree on every lock are the same.
LEMMA SameHoldings ==
  ASSUME NEW a \in Holdings, NEW b \in Holdings,
         \A u \in Uses, l \in Mutexes : a[u][l] = b[u][l]
  PROVE  a = b
<1>1. \A u \in Uses : a[u] = b[u]
  BY DEF Holdings
<1> QED BY <1>1 DEF Holdings

\* What is behind the first step of a path.
LEMMA TailLeads ==
  ASSUME NEW from, NEW path, NEW to, Leads(from, path, to), path # <<>>
  PROVE  \E next \in Holdings :
           /\ Leads(next, Tail(path), to)
           /\ from \in Holdings
           /\ \A u \in Uses, l \in Mutexes :
                /\ next[u][l] = from[u][l] + Change(Head(path), u, l)
                /\ from[u][l] > 0 => Fits(Head(path), Inside(path, 1), u, l)
<1>1. PICK held : Follows(path, held) /\ held[1] = from /\ held[Len(path) + 1] = to
  BY DEF Leads
<1>2. /\ path \in Seq(Moves) /\ Len(path) \in Nat /\ Len(path) > 0
      /\ Tail(path) \in Seq(Moves) /\ Len(Tail(path)) = Len(path) - 1
      /\ \A i \in 1..Len(Tail(path)) : Tail(path)[i] = path[i + 1]
      /\ Head(path) = path[1]
  BY DEF Leads
<1> DEFINE rest == [i \in 1..(Len(Tail(path)) + 1) |-> held[i + 1]]
<1>3. rest \in [1..(Len(Tail(path)) + 1) -> Holdings]
  BY <1>1, <1>2 DEF Follows
<1>4. ASSUME NEW i \in 1..Len(Tail(path))
      PROVE  Inside(path, i + 1) => Inside(Tail(path), i)
  <2> SUFFICES ASSUME NEW j \in DOMAIN path, j > i + 1, path[j].do = "return"
               PROVE  Inside(Tail(path), i)
    BY DEF Inside
  <2>1. j - 1 \in DOMAIN Tail(path) /\ j - 1 > i /\ Tail(path)[j - 1] = path[j]
    BY <1>2
  <2> QED BY <2>1 DEF Inside
<1>5. ASSUME NEW i \in 1..Len(Tail(path)), NEW u \in Uses, NEW l \in Mutexes
      PROVE  /\ rest[i + 1][u][l] = rest[i][u][l] + Change(Tail(path)[i], u, l)
             /\ rest[i][u][l] > 0 => Fits(Tail(path)[i], Inside(Tail(path), i), u, l)
  <2>1. i + 1 \in 1..Len(path) /\ rest[i] = held[i + 1] /\ rest[i + 1] = held[(i + 1) + 1]
    BY <1>2
  <2>2. held[(i + 1) + 1][u][l] = held[i + 1][u][l] + Change(path[i + 1], u, l)
    BY <1>1, <2>1 DEF Follows
  <2>3. held[i + 1][u][l] > 0 => Fits(path[i + 1], Inside(path, i + 1), u, l)
    BY <1>1, <2>1 DEF Follows
  <2>4. Tail(path)[i] = path[i + 1]
    BY <1>2
  <2>5. Fits(path[i + 1], Inside(path, i + 1), u, l) =>
          Fits(path[i + 1], Inside(Tail(path), i), u, l)
    BY <1>4 DEF Fits, Asks
  <2> HIDE DEF rest
  <2> QED BY <2>1, <2>2, <2>3, <2>4, <2>5
<1>6. rest[1] = held[2] /\ rest[Len(Tail(path)) + 1] = to
  BY <1>1, <1>2
<1>7. held[2] \in Holdings /\ from \in Holdings
  BY <1>1, <1>2 DEF Follows
<1>8. ASSUME NEW u \in Uses, NEW l \in Mutexes
      PROVE  /\ held[2][u][l] = from[u][l] + Change(Head(path), u, l)
             /\ from[u][l] > 0 => Fits(Head(path), Inside(path, 1), u, l)
  BY <1>1, <1>2 DEF Follows
<1>9. Follows(Tail(path), rest)
  <2> HIDE DEF rest
  <2> QED BY <1>3, <1>5 DEF Follows
<1>10. Leads(held[2], Tail(path), to)
  <2> HIDE DEF rest
  <2> QED BY <1>2, <1>6, <1>9 DEF Leads
<1> QED BY <1>7, <1>8, <1>10

\* One path behind the other.
LEMMA JoinLeads ==
  ASSUME NEW a, NEW s, NEW b, NEW t, NEW c, Leads(a, s, b), Leads(b, t, c)
  PROVE  Leads(a, s \o t, c)
<1>1. PICK h : Follows(s, h) /\ h[1] = a /\ h[Len(s) + 1] = b
  BY DEF Leads
<1>2. PICK k : Follows(t, k) /\ k[1] = b /\ k[Len(t) + 1] = c
  BY DEF Leads
<1> DEFINE n == Len(s)
           held == [i \in 1..(Len(s \o t) + 1) |-> IF i <= n THEN h[i] ELSE k[i - n]]
<1>3. /\ s \in Seq(Moves) /\ t \in Seq(Moves) /\ s \o t \in Seq(Moves)
      /\ n \in Nat /\ Len(t) \in Nat /\ Len(s \o t) = n + Len(t)
      /\ \A i \in 1..n : (s \o t)[i] = s[i]
      /\ \A i \in (n + 1)..(n + Len(t)) : (s \o t)[i] = t[i - n]
  BY DEF Leads
<1>4. \A i \in 1..n : Inside(s, i) => Inside(s \o t, i)
  BY <1>3 DEF Inside
<1>5. \A i \in 1..Len(t) : Inside(t, i) => Inside(s \o t, n + i)
  <2> SUFFICES ASSUME NEW i \in 1..Len(t), NEW j \in DOMAIN t, j > i, t[j].do = "return"
               PROVE  Inside(s \o t, n + i)
    BY DEF Inside
  <2>1. n + j \in DOMAIN (s \o t) /\ n + j > n + i /\ (s \o t)[n + j] = t[j]
    BY <1>3
  <2> QED BY <2>1 DEF Inside
<1>6. held \in [1..(Len(s \o t) + 1) -> Holdings]
  BY <1>1, <1>2, <1>3 DEF Follows
<1>7. ASSUME NEW i \in 1..Len(s \o t), NEW u \in Uses, NEW l \in Mutexes
      PROVE  /\ held[i + 1][u][l] = held[i][u][l] + Change((s \o t)[i], u, l)
             /\ held[i][u][l] > 0 => Fits((s \o t)[i], Inside(s \o t, i), u, l)
  <2>1. CASE i <= n
    <3>1. held[i] = h[i] /\ held[i + 1] = h[i + 1] /\ i \in 1..n
      BY <1>1, <1>2, <1>3, <2>1
    <3>2. /\ h[i + 1][u][l] = h[i][u][l] + Change(s[i], u, l)
          /\ h[i][u][l] > 0 => Fits(s[i], Inside(s, i), u, l)
      BY <1>1, <3>1 DEF Follows
    <3>3. Fits(s[i], Inside(s, i), u, l) => Fits(s[i], Inside(s \o t, i), u, l)
      BY <1>4, <3>1 DEF Fits, Asks
    <3> HIDE DEF held
    <3> QED BY <1>3, <3>1, <3>2, <3>3
  <2>2. CASE i > n
    <3> DEFINE j == i - n
    <3>1. held[i] = k[j] /\ held[i + 1] = k[j + 1] /\ j \in 1..Len(t) /\ i = n + j
      BY <1>3, <2>2
    <3>2. /\ k[j + 1][u][l] = k[j][u][l] + Change(t[j], u, l)
          /\ k[j][u][l] > 0 => Fits(t[j], Inside(t, j), u, l)
      BY <1>2, <3>1 DEF Follows
    <3>3. Fits(t[j], Inside(t, j), u, l) => Fits(t[j], Inside(s \o t, i), u, l)
      BY <1>5, <3>1 DEF Fits, Asks
    <3>4. (s \o t)[i] = t[j]
      BY <1>3, <2>2
    <3> HIDE DEF held, j
    <3> QED BY <3>1, <3>2, <3>3, <3>4
  <2> QED BY <1>3, <2>1, <2>2
<1>8. held[1] = a /\ held[Len(s \o t) + 1] = c
  BY <1>1, <1>2, <1>3
<1>9. Follows(s \o t, held)
  <2> HIDE DEF held
  <2> QED BY <1>6, <1>7 DEF Follows
<1> HIDE DEF held
<1> QED BY <1>3, <1>8, <1>9 DEF Leads
\* A path of one step, and one of none.
LEMMA StepLeads ==
  ASSUME NEW a \in Holdings, NEW b \in Holdings, NEW step \in Moves,
         \A u \in Uses, l \in Mutexes :
           /\ b[u][l] = a[u][l] + Change(step, u, l)
           /\ a[u][l] > 0 => Fits(step, FALSE, u, l)
  PROVE  Leads(a, <<step>>, b)
<1> DEFINE held == [i \in 1..2 |-> IF i = 1 THEN a ELSE b]
<1>1. /\ <<step>> \in Seq(Moves) /\ Len(<<step>>) = 1 /\ <<step>>[1] = step
      /\ DOMAIN <<step>> = 1..1
  OBVIOUS
<1>2. ~Inside(<<step>>, 1)
  BY <1>1 DEF Inside
<1>3. /\ held \in [1..(Len(<<step>>) + 1) -> Holdings]
      /\ held[1] = a /\ held[2] = b /\ held[Len(<<step>>) + 1] = b
  BY <1>1
<1> HIDE DEF held
<1>4. ASSUME NEW i \in 1..Len(<<step>>), NEW u \in Uses, NEW l \in Mutexes
      PROVE  /\ held[i + 1][u][l] = held[i][u][l] + Change(<<step>>[i], u, l)
             /\ held[i][u][l] > 0 => Fits(<<step>>[i], Inside(<<step>>, i), u, l)
  <2>1. i = 1 /\ i + 1 = 2
    BY <1>1
  <2>2. Fits(step, FALSE, u, l) => Fits(<<step>>[1], Inside(<<step>>, 1), u, l)
    BY <1>1, <1>2 DEF Fits, Asks
  <2> QED BY <1>1, <1>3, <2>1, <2>2
<1> QED BY <1>1, <1>3, <1>4 DEF Leads, Follows

LEMMA EmptyLeads ==
  ASSUME NEW a \in Holdings
  PROVE  Leads(a, <<>>, a)
<1> DEFINE held == [i \in 1..1 |-> a]
<1>1. <<>> \in Seq(Moves) /\ Len(<<>>) = 0
  OBVIOUS
<1>2. held \in [1..(Len(<<>>) + 1) -> Holdings] /\ held[1] = a
  BY <1>1
<1> HIDE DEF held
<1>3. Follows(<<>>, held)
  BY <1>1, <1>2 DEF Follows
<1> QED BY <1>1, <1>2, <1>3 DEF Leads

Plus(a, u, l) == [v \in Uses |-> [m \in Mutexes |->
                    IF v = u /\ m = l THEN a[v][m] + 1 ELSE a[v][m]]]

LEMMA PlusType ==
  ASSUME NEW a \in Holdings, NEW u, NEW l
  PROVE  Plus(a, u, l) \in Holdings
  BY DEF Plus, Holdings

LEMMA NothingType == Nothing \in Holdings
  BY DEF Nothing, Holdings

LEMMA LockedLeads ==
  ASSUME NEW a \in Holdings, NEW lock \in Mutexes, NEW body,
         Leads(Plus(a, "write", lock), body, Plus(a, "write", lock)),
         \A u \in Uses, l \in Mutexes :
           a[u][l] > 0 => Asks([do |-> "lock", on |-> lock], FALSE, u, l)
  PROVE  Leads(a, Locked(lock, body), a)
<1> DEFINE b == Plus(a, "write", lock)
           take == [do |-> "lock", on |-> lock]
           give == [do |-> "unlock", on |-> lock]
<1>1. b \in Holdings
  BY PlusType
<1>2. take \in Moves /\ give \in Moves
  BY DEF Moves
<1>3. Leads(a, <<take>>, b)
  <2>1. \A u \in Uses, l \in Mutexes : b[u][l] = a[u][l] + Change(take, u, l)
    BY DEF Plus, Change, Uses, Holdings
  <2>2. \A u \in Uses, l \in Mutexes : a[u][l] > 0 => Fits(take, FALSE, u, l)
    BY DEF Fits
  <2> HIDE DEF b, take
  <2> QED BY <1>1, <1>2, <2>1, <2>2, StepLeads
<1>4. Leads(b, <<give>>, a)
  <2>1. \A u \in Uses, l \in Mutexes :
          /\ a[u][l] = b[u][l] + Change(give, u, l)
          /\ b[u][l] > 0 => Fits(give, FALSE, u, l)
    BY DEF Plus, Change, Uses, Fits, Holdings
  <2> HIDE DEF b, give
  <2> QED BY <1>1, <1>2, <2>1, StepLeads
<1>5. Leads(a, <<take>> \o body, b)
  BY <1>3, JoinLeads
<1>6. Leads(a, (<<take>> \o body) \o <<give>>, a)
  BY <1>4, <1>5, JoinLeads
<1> QED BY <1>6 DEF Locked, Do

LEMMA RLockedLeads ==
  ASSUME NEW a \in Holdings, NEW lock \in Mutexes, NEW body,
         Leads(Plus(a, "read", lock), body, Plus(a, "read", lock)),
         \A u \in Uses, l \in Mutexes :
           a[u][l] > 0 => Asks([do |-> "rlock", on |-> lock], FALSE, u, l)
  PROVE  Leads(a, RLocked(lock, body), a)
<1> DEFINE b == Plus(a, "read", lock)
           take == [do |-> "rlock", on |-> lock]
           give == [do |-> "runlock", on |-> lock]
<1>1. b \in Holdings
  BY PlusType
<1>2. take \in Moves /\ give \in Moves
  BY DEF Moves
<1>3. Leads(a, <<take>>, b)
  <2>1. \A u \in Uses, l \in Mutexes : b[u][l] = a[u][l] + Change(take, u, l)
    BY DEF Plus, Change, Uses, Holdings
  <2>2. \A u \in Uses, l \in Mutexes : a[u][l] > 0 => Fits(take, FALSE, u, l)
    BY DEF Fits
  <2> HIDE DEF b, take
  <2> QED BY <1>1, <1>2, <2>1, <2>2, StepLeads
<1>4. Leads(b, <<give>>, a)
  <2>1. \A u \in Uses, l \in Mutexes :
          /\ a[u][l] = b[u][l] + Change(give, u, l)
          /\ b[u][l] > 0 => Fits(give, FALSE, u, l)
    BY DEF Plus, Change, Uses, Fits, Holdings
  <2> HIDE DEF b, give
  <2> QED BY <1>1, <1>2, <2>1, StepLeads
<1>5. Leads(a, <<take>> \o body, b)
  BY <1>3, JoinLeads
<1>6. Leads(a, (<<take>> \o body) \o <<give>>, a)
  BY <1>4, <1>5, JoinLeads
<1> QED BY <1>6 DEF RLocked, Do

LEMMA CallbackLeads ==
  ASSUME NEW a \in Holdings, \A u \in Uses, l \in Mutexes : a[u][l] > 0 => CallsBack(u, l)
  PROVE  Leads(a, Callback, a)
<1> DEFINE step == [do |-> "callback", on |-> "none"]
<1>1. step \in Moves
  BY DEF Moves
<1>2. \A u \in Uses, l \in Mutexes :
        /\ a[u][l] = a[u][l] + Change(step, u, l)
        /\ a[u][l] > 0 => Fits(step, FALSE, u, l)
  BY DEF Change, Mutexes, Fits, Holdings
<1> HIDE DEF step
<1>3. Leads(a, <<step>>, a)
  BY <1>1, <1>2, StepLeads
<1> QED BY <1>3 DEF Callback, Do, step

-----------------------------------------------------------------------------
(* The calls *)

\* Where nothing is held, everything may be asked for.
LEMMA NothingAsks ==
  ASSUME NEW step
  PROVE  \A u \in Uses, l \in Mutexes : Nothing[u][l] > 0 => Asks(step, FALSE, u, l)
  BY DEF Nothing

LEMMA CallsFromNothing ==
  ASSUME NEW lock \in Mutexes, NEW body
  PROVE  /\ Leads(Plus(Nothing, "write", lock), body, Plus(Nothing, "write", lock))
              => Leads(Nothing, Locked(lock, body), Nothing)
         /\ Leads(Plus(Nothing, "read", lock), body, Plus(Nothing, "read", lock))
              => Leads(Nothing, RLocked(lock, body), Nothing)
  BY NothingAsks, NothingType, LockedLeads, RLockedLeads

\* A lock that is taken and given back, and one that a callback is made with.
LEMMA ShortLeads ==
  ASSUME NEW lock \in Mutexes
  PROVE  Leads(Nothing, Locked(lock, <<>>), Nothing)
  BY NothingType, PlusType, EmptyLeads, CallsFromNothing

LEMMA IterationLeads ==
  /\ \A lock \in {"st.mu", "subsmu"} : Leads(Nothing, Locked(lock, Callback), Nothing)
  /\ Leads(Nothing, RLocked("submu", Callback), Nothing)
<1>1. ASSUME NEW u \in Uses, NEW lock \in Mutexes, CallsBack(u, lock)
      PROVE  Leads(Plus(Nothing, u, lock), Callback, Plus(Nothing, u, lock))
  <2>1. \A v \in Uses, l \in Mutexes : Plus(Nothing, u, lock)[v][l] > 0 => v = u /\ l = lock
    BY DEF Plus, Nothing
  <2>2. \A v \in Uses, l \in Mutexes : Plus(Nothing, u, lock)[v][l] > 0 => CallsBack(v, l)
    BY <1>1, <2>1
  <2> QED BY <2>2, NothingType, PlusType, CallbackLeads
<1>2. {"st.mu", "subsmu", "submu"} \subseteq Mutexes /\ {"write", "read"} \subseteq Uses
  BY DEF Mutexes, Uses
<1>3. CallsBack("write", "st.mu") /\ CallsBack("write", "subsmu") /\ CallsBack("read", "submu")
  BY DEF CallsBack
<1> QED BY <1>1, <1>2, <1>3, CallsFromNothing

\* c.mu, read by itself, with p.mu held and by GetLeader.
LEMMA IsLeaderLeads ==
  /\ Leads(Nothing, IsLeader, Nothing)
  /\ Leads(Plus(Nothing, "write", "p.mu"), IsLeader, Plus(Nothing, "write", "p.mu"))
  /\ Leads(Plus(Nothing, "read", "c.mu"), IsLeader, Plus(Nothing, "read", "c.mu"))
<1> DEFINE step == [do |-> "rlock", on |-> "c.mu"]
<1>1. ASSUME NEW a \in Holdings,
             \A u \in Uses, l \in Mutexes : a[u][l] > 0 => Asks(step, FALSE, u, l)
      PROVE  Leads(a, IsLeader, a)
  BY <1>1, PlusType, EmptyLeads, RLockedLeads DEF IsLeader, Mutexes
<1>2. ASSUME NEW u \in Uses, NEW l \in Mutexes, Plus(Nothing, "write", "p.mu")[u][l] > 0
      PROVE  Asks(step, FALSE, u, l)
  <2>1. l = "p.mu"
    BY <1>2 DEF Plus, Nothing
  <2> QED BY <2>1 DEF Asks, Rank, Mutexes
<1>3. ASSUME NEW u \in Uses, NEW l \in Mutexes, Plus(Nothing, "read", "c.mu")[u][l] > 0
      PROVE  Asks(step, FALSE, u, l)
  <2>1. u = "read" /\ l = "c.mu"
    BY <1>3 DEF Plus, Nothing
  <2> QED BY <2>1 DEF Asks
<1> QED BY <1>1, <1>2, <1>3, NothingAsks, NothingType, PlusType
\* Every call gives back what it takes, and nothing else.
LEMMA CallsLead ==
  ASSUME NEW path \in Calls \cup Work
  PROVE  Leads(Nothing, path, Nothing)
<1>1. {"p.mu", "subsmu", "submu", "st.mu", "c.mu", "state.mu"} \subseteq Mutexes
  BY DEF Mutexes
<1>2. CASE path \in StorageCall \cup ConsensusChange \cup Start \cup GraphChange \cup MeshStateCall
  BY <1>1, <1>2, ShortLeads DEF StorageCall, ConsensusChange, Start, GraphChange, MeshStateCall
<1>3. CASE path \in IterPrefix \cup Reconcile
  BY <1>1, <1>3, ShortLeads, IterationLeads DEF IterPrefix, Reconcile, StorageCall
<1>4. CASE path \in GraphReconcile
  <2>1. Leads(Nothing, RLocked("submu", <<>>), Nothing)
    BY <1>1, NothingType, PlusType, EmptyLeads, CallsFromNothing
  <2> QED BY <1>4, <2>1, IterationLeads DEF GraphReconcile
<1>5. CASE path \in ConsensusRead \cup GetLeader
  <2> DEFINE a == Plus(Nothing, "read", "c.mu")
  <2>1. Leads(a, IsLeader, a) /\ Leads(a, IsLeader \o IsLeader, a)
    BY IsLeaderLeads, JoinLeads
  <2> QED BY <1>1, <1>5, <2>1, IsLeaderLeads, CallsFromNothing DEF ConsensusRead, GetLeader
<1>6. CASE path \in Bootstrap \cup Status \cup Close
  <2> DEFINE a == Plus(Nothing, "write", "p.mu")
  <2>1. a \in Holdings
    BY NothingType, PlusType
  <2>2. Leads(a, <<>>, a) /\ Leads(a, IsLeader, a) /\ Leads(a, IsLeader \o IsLeader, a)
    BY <2>1, EmptyLeads, IsLeaderLeads, JoinLeads
  <2>3. ASSUME NEW lock \in {"subsmu", "c.mu"}
        PROVE  Leads(a, Locked(lock, <<>>), a)
    <3>1. Leads(Plus(a, "write", lock), <<>>, Plus(a, "write", lock))
      BY <2>1, PlusType, EmptyLeads
    <3>2. \A u \in Uses, l \in Mutexes : a[u][l] > 0 => l = "p.mu"
      BY DEF Plus, Nothing
    <3>3. Rank["p.mu"] < Rank[lock]
      BY <1>1 DEF Rank
    <3>4. \A u \in Uses, l \in Mutexes :
            a[u][l] > 0 => Asks([do |-> "lock", on |-> lock], FALSE, u, l)
      BY <3>2, <3>3 DEF Asks
    <3> HIDE DEF a
    <3> QED BY <1>1, <2>1, <3>1, <3>4, LockedLeads
  <2> HIDE DEF a
  <2>4. \A body \in {<<>>, IsLeader, IsLeader \o IsLeader,
                     Locked("subsmu", <<>>), Locked("c.mu", <<>>)} : Leads(a, body, a)
    BY <2>2, <2>3
  <2>5. \A body \in {<<>>, IsLeader, IsLeader \o IsLeader,
                     Locked("subsmu", <<>>), Locked("c.mu", <<>>)} :
          Leads(Nothing, Locked("p.mu", body), Nothing)
    BY <1>1, <2>4, CallsFromNothing DEF a
  <2> QED BY <1>6, <2>5 DEF Bootstrap, Status, Close, ConsensusChange
<1> QED BY <1>2, <1>3, <1>4, <1>5, <1>6 DEF Calls, Work

\* A call in a callback gives back what it takes as well, while the caller keeps the
\* lock of the callback.
LEMMA CallbacksLead ==
  ASSUME NEW path, Leads(Nothing, path, Nothing), NEW a \in Holdings,
         \A u \in Uses, l \in Mutexes : a[u][l] > 0 => CallsBack(u, l)
  PROVE  Leads(a, path \o Do("return", "none"), a)
<1> DEFINE end == [do |-> "return", on |-> "none"]
           n == Len(path)
           all == path \o <<end>>
<1>1. PICK d : Follows(path, d) /\ d[1] = Nothing /\ d[n + 1] = Nothing
  BY DEF Leads
<1> DEFINE held == [i \in 1..(n + 2) |->
                      IF i <= n + 1 THEN [u \in Uses |-> [l \in Mutexes |-> d[i][u][l] + a[u][l]]]
                      ELSE a]
<1>2. /\ path \in Seq(Moves) /\ n \in Nat /\ end \in Moves
      /\ all \in Seq(Moves) /\ Len(all) = n + 1 /\ all[n + 1] = end
      /\ \A i \in 1..n : all[i] = path[i]
  BY DEF Leads, Moves
<1>3. \A i \in 1..n : Inside(all, i)
  <2>1. n + 1 \in DOMAIN all /\ all[n + 1].do = "return"
    BY <1>2
  <2> HIDE DEF all
  <2> QED BY <1>2, <2>1 DEF Inside
<1>4. d \in [1..(n + 1) -> Holdings]
  BY <1>1 DEF Follows
<1>5. held \in [1..(n + 2) -> Holdings]
  BY <1>2, <1>4 DEF Holdings
<1>6. \A u \in Uses, l \in Mutexes : a[u][l] \in Nat /\ \A i \in 1..(n + 1) : d[i][u][l] \in Nat
  BY <1>4 DEF Holdings
<1>7. \A i \in 1..(n + 1), u \in Uses, l \in Mutexes : held[i][u][l] = d[i][u][l] + a[u][l]
  BY <1>2
<1>8. held[1] = a /\ held[n + 1] = a /\ held[n + 2] = a
  <2>1. ASSUME NEW i \in {1, n + 1}
        PROVE  held[i] = a
    <3>1. i \in 1..(n + 1) /\ d[i] = Nothing
      BY <1>1, <1>2
    <3>2. \A u \in Uses, l \in Mutexes : held[i][u][l] = a[u][l]
      BY <1>6, <1>7, <3>1 DEF Nothing
    <3>3. held[i] \in Holdings
      BY <1>2, <1>5, <3>1
    <3> HIDE DEF held
    <3> QED BY <3>2, <3>3, SameHoldings
  <2> QED BY <1>2, <2>1
<1> HIDE DEF held
<1>9. ASSUME NEW i \in 1..Len(all), NEW u \in Uses, NEW l \in Mutexes
      PROVE  /\ held[i + 1][u][l] = held[i][u][l] + Change(all[i], u, l)
             /\ held[i][u][l] > 0 => Fits(all[i], Inside(all, i), u, l)
  <2>1. CASE i \in 1..n
    <3>1. /\ d[i + 1][u][l] = d[i][u][l] + Change(path[i], u, l)
          /\ d[i][u][l] > 0 => Fits(path[i], Inside(path, i), u, l)
      BY <1>1, <2>1 DEF Follows
    <3>2. /\ held[i][u][l] = d[i][u][l] + a[u][l]
          /\ held[i + 1][u][l] = d[i + 1][u][l] + a[u][l]
      BY <1>2, <1>7, <2>1
    <3>3. i \in 1..(n + 1) /\ i + 1 \in 1..(n + 1)
      BY <1>2, <2>1
    <3>4. d[i][u][l] \in Nat /\ d[i + 1][u][l] \in Nat /\ a[u][l] \in Nat
      BY <1>6, <3>3
    <3>5. PICK c \in Int : c = Change(path[i], u, l)
      BY DEF Change
    <3>6. held[i + 1][u][l] = held[i][u][l] + Change(all[i], u, l)
      <4>1. Change(all[i], u, l) = c
        BY <1>2, <2>1, <3>5
      <4>2. held[i + 1][u][l] = (d[i][u][l] + c) + a[u][l]
        BY <3>1, <3>2, <3>5
      <4> HIDE DEF all
      <4> QED BY <3>2, <3>4, <4>1, <4>2
    <3>7. ASSUME d[i][u][l] > 0
          PROVE  Fits(all[i], Inside(all, i), u, l)
      BY <1>2, <1>3, <2>1, <3>1, <3>7 DEF Fits, Asks
    <3>8. ASSUME a[u][l] > 0
          PROVE  Fits(all[i], Inside(all, i), u, l)
      <4>1. CallsBack(u, l)
        BY <3>8
      <4>2. all[i] \in Moves
        BY <1>2, <2>1
      <4>3. all[i].do \in {"lock", "drain", "rlock"} => Asks(all[i], TRUE, u, l)
        BY <4>1, <4>2 DEF Moves, Mutexes, CallsBack, Asks, Rank
      <4> HIDE DEF all
      <4> QED BY <1>3, <2>1, <4>1, <4>3 DEF Fits, Asks
    <3>9. held[i][u][l] > 0 => d[i][u][l] > 0 \/ a[u][l] > 0
      BY <3>2, <3>4
    <3> QED BY <3>6, <3>7, <3>8, <3>9
  <2>2. CASE i = n + 1
    <3>1. all[i] = end /\ held[i + 1] = a /\ held[i] = a
      BY <1>2, <1>8, <2>2
    <3>2. Change(end, u, l) = 0 /\ Fits(end, Inside(all, i), u, l)
      BY DEF Change, Fits, Mutexes
    <3> HIDE DEF end, all
    <3> QED BY <1>6, <3>1, <3>2
  <2> QED BY <1>2, <2>1, <2>2
<1>10. Follows(all, held)
  <2> HIDE DEF all
  <2> QED BY <1>2, <1>5, <1>9 DEF Follows
<1>11. Leads(a, all, a)
  <2> HIDE DEF all
  <2> QED BY <1>2, <1>8, <1>10 DEF Leads
<1> QED BY <1>11 DEF Do

\* A step in front of a path.
LEMMA StepThenLeads ==
  ASSUME NEW a \in Holdings, NEW step \in Moves, NEW b, NEW path, NEW to, Leads(b, path, to),
         \A u \in Uses, l \in Mutexes :
           /\ b[u][l] = a[u][l] + Change(step, u, l)
           /\ a[u][l] > 0 => Fits(step, Inside(<<step>> \o path, 1), u, l)
  PROVE  Leads(a, <<step>> \o path, to)
<1> DEFINE all == <<step>> \o path
<1>1. PICK h : Follows(path, h) /\ h[1] = b /\ h[Len(path) + 1] = to
  BY DEF Leads
<1> DEFINE held == [i \in 1..(Len(all) + 1) |-> IF i = 1 THEN a ELSE h[i - 1]]
<1>2. /\ path \in Seq(Moves) /\ all \in Seq(Moves) /\ Len(path) \in Nat
      /\ Len(all) = Len(path) + 1 /\ all[1] = step
      /\ \A i \in 1..Len(path) : all[i + 1] = path[i]
  BY DEF Leads
<1>3. \A i \in 1..Len(path) : Inside(path, i) => Inside(all, i + 1)
  <2> SUFFICES ASSUME NEW i \in 1..Len(path), NEW j \in DOMAIN path, j > i, path[j].do = "return"
               PROVE  Inside(all, i + 1)
    BY DEF Inside
  <2>1. j + 1 \in DOMAIN all /\ j + 1 > i + 1 /\ all[j + 1] = path[j]
    BY <1>2
  <2> HIDE DEF all
  <2> QED BY <2>1 DEF Inside
<1>4. held \in [1..(Len(all) + 1) -> Holdings]
  BY <1>1, <1>2 DEF Follows
<1>5. /\ held[1] = a /\ held[2] = b /\ held[Len(all) + 1] = to
      /\ \A i \in 1..(Len(path) + 1) : held[i + 1] = h[i]
  BY <1>1, <1>2
<1> HIDE DEF held
<1>6. ASSUME NEW i \in 1..Len(all), NEW u \in Uses, NEW l \in Mutexes
      PROVE  /\ held[i + 1][u][l] = held[i][u][l] + Change(all[i], u, l)
             /\ held[i][u][l] > 0 => Fits(all[i], Inside(all, i), u, l)
  <2>1. CASE i = 1
    BY <1>2, <1>5, <2>1
  <2>2. CASE i # 1
    <3>1. PICK j \in 1..Len(path) : i = j + 1
      BY <1>2, <2>2
    <3>2. held[i] = h[j] /\ held[i + 1] = h[j + 1] /\ all[i] = path[j]
      BY <1>2, <1>5, <3>1
    <3>3. /\ h[j + 1][u][l] = h[j][u][l] + Change(path[j], u, l)
          /\ h[j][u][l] > 0 => Fits(path[j], Inside(path, j), u, l)
      BY <1>1 DEF Follows
    <3>4. Fits(path[j], Inside(path, j), u, l) => Fits(path[j], Inside(all, i), u, l)
      BY <1>3, <3>1 DEF Fits, Asks
    <3> HIDE DEF all
    <3> QED BY <3>2, <3>3, <3>4
  <2> QED BY <2>1, <2>2
<1>7. Follows(all, held)
  <2> HIDE DEF all
  <2> QED BY <1>4, <1>6 DEF Follows
<1>8. Leads(a, all, to)
  <2> HIDE DEF all
  <2> QED BY <1>2, <1>5, <1>7 DEF Leads
<1> QED BY <1>8
-----------------------------------------------------------------------------
(* Steps *)

LEMMA HoldingType ==
  ASSUME TypeOK, NEW g \in Goroutines
  PROVE  Holding(g) \in Holdings
  BY DEF TypeOK, Holding, Holdings

LEMMA MovesAreSteps ==
  ASSUME NEW path \in Seq(Moves)
  PROVE  path \in Seq(Step)
<1>1. Moves \subseteq Step
  BY DEF Moves, Step
<1> QED BY <1>1

\* The first step of what is left to do.
LEMMA FirstMove ==
  ASSUME IInv, NEW g \in Goroutines, todo[g] # <<>>
  PROVE  /\ Head(todo[g]) \in Moves
         /\ \A what \in {"lock", "drain", "unlock", "rlock", "runlock"} :
              At(g, what) => On(g) \in Mutexes /\ Head(todo[g]) = [do |-> what, on |-> On(g)]
<1>1. todo[g] \in Seq(Moves)
  BY DEF IInv, Leads
<1>2. Head(todo[g]) \in Moves
  BY <1>1
<1> QED BY <1>2 DEF At, On, Moves

LEMMA InitIInv == Init => IInv
<1> SUFFICES ASSUME Init PROVE IInv
  OBVIOUS
<1>1. TypeOK
  BY DEF Init, TypeOK
<1>2. ParkedAsk
  BY DEF Init, ParkedAsk
<1>3. ASSUME NEW g \in Goroutines
      PROVE  Leads(Holding(g), todo[g], Nothing)
  <2>1. \A u \in Uses, l \in Mutexes : Holding(g)[u][l] = Nothing[u][l]
    BY GoroutinesAssumption DEF Init, Holding, Nothing, Goroutines
  <2>2. Holding(g) = Nothing
    BY <1>1, <2>1, HoldingType, NothingType, SameHoldings
  <2> QED BY <2>2, NothingType, EmptyLeads DEF Init
<1>4. ParkedIsBlocked
  BY DEF Init, ParkedIsBlocked
<1> QED BY <1>1, <1>2, <1>3, <1>4 DEF IInv

\* A goroutine whose call and locks stay as they are.
LEMMA Stays ==
  ASSUME IInv, NEW h \in Goroutines, todo'[h] = todo[h],
         \A l \in Mutexes : /\ readers'[l][h] = readers[l][h]
                            /\ writer'[l] = h <=> writer[l] = h
  PROVE  Leads(Holding(h)', todo'[h], Nothing)
<1>1. Holding(h)' = Holding(h)
  BY DEF Holding
<1> QED BY <1>1 DEF IInv

\* A goroutine that has done the first step of what was left.
LEMMA Passes ==
  ASSUME IInv, NEW h \in Goroutines, todo[h] # <<>>, todo'[h] = Tail(todo[h]), TypeOK',
         \A u \in Uses, l \in Mutexes :
           Holding(h)'[u][l] = Holding(h)[u][l] + Change(Head(todo[h]), u, l)
  PROVE  Leads(Holding(h)', todo'[h], Nothing)
<1>1. PICK next \in Holdings :
        /\ Leads(next, Tail(todo[h]), Nothing)
        /\ \A u \in Uses, l \in Mutexes :
             next[u][l] = Holding(h)[u][l] + Change(Head(todo[h]), u, l)
  BY TailLeads DEF IInv
<1>2. Holding(h)' \in Holdings
  BY HoldingType DEF TypeOK, Holding, Holdings
<1>3. Holding(h)' = next
  BY <1>1, <1>2, SameHoldings
<1> QED BY <1>1, <1>3

LEMMA BeginKeeps ==
  ASSUME IInv, NEW g \in Goroutines, Begin(g)
  PROVE  IInv'
<1>1. PICK path \in Calls \cup Work : todo' = [todo EXCEPT ![g] = path]
  BY DEF Begin, Paths
<1>2. UNCHANGED <<writer, readers, parked>> /\ todo[g] = <<>>
  BY DEF Begin
<1>3. Leads(Nothing, path, Nothing)
  BY CallsLead
<1>4. TypeOK'
  BY <1>1, <1>2, <1>3, MovesAreSteps DEF IInv, TypeOK, Leads
<1>5. ParkedAsk'
  BY <1>1, <1>2 DEF IInv, TypeOK, ParkedAsk, At, On
<1>6. Holding(g)' = Nothing
  <2>1. Leads(Holding(g), <<>>, Nothing)
    BY <1>2 DEF IInv
  <2>2. Holding(g) = Nothing
    BY <2>1 DEF Leads
  <2> QED BY <1>2, <2>2 DEF Holding
<1>7. ASSUME NEW h \in Goroutines
      PROVE  Leads(Holding(h)', todo'[h], Nothing)
  <2>1. CASE h = g
    BY <1>1, <1>3, <1>6, <2>1 DEF IInv, TypeOK
  <2>2. CASE h # g
    <3>1. todo'[h] = todo[h]
      BY <1>1, <2>2 DEF IInv, TypeOK
    <3> QED BY <1>2, <3>1, Stays
  <2> QED BY <2>1, <2>2
<1>8. ParkedIsBlocked'
  BY <1>2 DEF IInv, ParkedIsBlocked
<1> QED BY <1>4, <1>5, <1>7, <1>8 DEF IInv

\* A step that takes or gives no lock: the first one of what is left, or a callback.
LEMMA PassKeeps ==
  ASSUME IInv, NEW g \in Goroutines, todo[g] # <<>>, Pass(g),
         Head(todo[g]).do \in {"drain", "callback", "return"},
         UNCHANGED <<writer, readers, parked>>
  PROVE  IInv'
<1>1. todo' = [todo EXCEPT ![g] = Tail(todo[g])]
  BY DEF Pass
<1>2. Tail(todo[g]) \in Seq(Step)
  BY DEF IInv, TypeOK
<1>3. TypeOK'
  BY <1>1, <1>2 DEF IInv, TypeOK
<1>4. ParkedAsk'
  BY <1>1 DEF IInv, TypeOK, ParkedAsk, At, On
<1>5. ASSUME NEW h \in Goroutines
      PROVE  Leads(Holding(h)', todo'[h], Nothing)
  <2>1. CASE h = g
    <3>1. todo'[h] = Tail(todo[h]) /\ todo[h] # <<>>
      BY <1>1, <2>1 DEF IInv, TypeOK
    <3>2. \A u \in Uses, l \in Mutexes : Change(Head(todo[h]), u, l) = 0
      BY <2>1 DEF Change
    <3>3. \A u \in Uses, l \in Mutexes : Holding(h)[u][l] \in Nat
      BY HoldingType DEF IInv, Holdings
    <3>4. Holding(h)' = Holding(h)
      BY DEF Holding
    <3> QED BY <1>3, <3>1, <3>2, <3>3, <3>4, Passes
  <2>2. CASE h # g
    <3>1. todo'[h] = todo[h]
      BY <1>1, <2>2 DEF IInv, TypeOK
    <3> QED BY <3>1, Stays
  <2> QED BY <2>1, <2>2
<1>6. ParkedIsBlocked'
  BY DEF IInv, ParkedIsBlocked
<1> QED BY <1>3, <1>4, <1>5, <1>6 DEF IInv

LEMMA CallBackKeeps ==
  ASSUME IInv, NEW g \in Goroutines, CallBack(g)
  PROVE  IInv'
<1>1. /\ todo[g] # <<>> /\ Head(todo[g]).do = "callback"
      /\ UNCHANGED <<writer, readers, parked>>
  BY DEF CallBack, At
<1>2. CASE Pass(g)
  BY <1>1, <1>2, PassKeeps
<1>3. ASSUME NEW path \in BackCalls,
             todo' = [todo EXCEPT ![g] = path \o Do("return", "none") \o Tail(@)]
      PROVE  IInv'
  <2> DEFINE a == Holding(g)
             new == path \o Do("return", "none") \o Tail(todo[g])
  <2>1. todo' = [todo EXCEPT ![g] = new]
    BY <1>3
  <2>2. PICK next \in Holdings :
          /\ Leads(next, Tail(todo[g]), Nothing)
          /\ a \in Holdings
          /\ \A u \in Uses, l \in Mutexes :
               /\ next[u][l] = a[u][l] + Change(Head(todo[g]), u, l)
               /\ a[u][l] > 0 => Fits(Head(todo[g]), Inside(todo[g], 1), u, l)
    BY <1>1, TailLeads DEF IInv
  <2>3. \A u \in Uses, l \in Mutexes : a[u][l] \in Nat /\ next[u][l] = a[u][l]
    <3>1. \A u \in Uses, l \in Mutexes : Change(Head(todo[g]), u, l) = 0
      BY <1>1 DEF Change
    <3>2. \A u \in Uses, l \in Mutexes : a[u][l] \in Nat
      BY <2>2 DEF Holdings
    <3> QED BY <2>2, <3>1, <3>2
  <2>4. next = a
    BY <2>2, <2>3, SameHoldings
  <2>5. \A u \in Uses, l \in Mutexes : a[u][l] > 0 => CallsBack(u, l)
    BY <1>1, <2>2 DEF Fits
  <2>6. Leads(Nothing, path, Nothing)
    BY <1>3, CallsLead, BackCallsAssumption
  <2>7. Leads(a, path \o Do("return", "none"), a)
    BY <2>2, <2>5, <2>6, CallbacksLead
  <2>8. Leads(a, new, Nothing)
    BY <2>2, <2>4, <2>7, JoinLeads
  <2>9. Holding(g)' = a
    BY <1>1 DEF Holding
  <2> HIDE DEF new, a
  <2>10. TypeOK'
    BY <1>1, <2>1, <2>8, MovesAreSteps DEF IInv, TypeOK, Leads
  <2>11. ParkedAsk'
    BY <1>1, <2>1 DEF IInv, TypeOK, ParkedAsk, At, On
  <2>12. ASSUME NEW h \in Goroutines
         PROVE  Leads(Holding(h)', todo'[h], Nothing)
    <3>1. CASE h = g
      BY <2>1, <2>8, <2>9, <3>1 DEF IInv, TypeOK
    <3>2. CASE h # g
      <4>1. todo'[h] = todo[h]
        BY <2>1, <3>2 DEF IInv, TypeOK
      <4> QED BY <1>1, <4>1, Stays
    <3> QED BY <3>1, <3>2
  <2>13. ParkedIsBlocked'
    BY <1>1 DEF IInv, ParkedIsBlocked
  <2> QED BY <2>10, <2>11, <2>12, <2>13 DEF IInv
<1> QED BY <1>2, <1>3 DEF CallBack
LEMMA RUnlockKeeps ==
  ASSUME IInv, NEW g \in Goroutines, RUnlock(g)
  PROVE  IInv'
<1> DEFINE m == On(g)
<1>1. /\ todo[g] # <<>> /\ UNCHANGED <<writer, parked>>
      /\ todo' = [todo EXCEPT ![g] = Tail(todo[g])]
      /\ readers' = [readers EXCEPT ![m][g] = @ - 1]
  BY DEF RUnlock, At, Pass
<1>2. m \in Mutexes /\ Head(todo[g]) = [do |-> "runlock", on |-> m]
  BY <1>1, FirstMove DEF RUnlock
<1> HIDE DEF m
<1>3. \A u \in Uses, l \in Mutexes :
        Change(Head(todo[g]), u, l) = IF u = "read" /\ l = m THEN -1 ELSE 0
  BY <1>2 DEF Change, Uses
<1>4. readers[m][g] - 1 \in Nat
  <2>1. PICK next \in Holdings :
          \A u \in Uses, l \in Mutexes :
            next[u][l] = Holding(g)[u][l] + Change(Head(todo[g]), u, l)
    BY <1>1, TailLeads DEF IInv
  <2>2. "read" \in Uses
    BY DEF Uses
  <2>3. next["read"][m] = Holding(g)["read"][m] - 1
    <3>1. next["read"][m] = Holding(g)["read"][m] + (-1)
      BY <1>2, <1>3, <2>1, <2>2
    <3>2. Holding(g)["read"][m] \in Nat
      BY <1>2, <2>2, HoldingType DEF IInv, Holdings
    <3> QED BY <3>1, <3>2
  <2>4. next["read"][m] \in Nat
    BY <1>2, <2>2 DEF Holdings
  <2>5. Holding(g)["read"][m] = readers[m][g]
    BY <1>2, <2>2 DEF Holding
  <2> QED BY <2>3, <2>4, <2>5
<1>5. Tail(todo[g]) \in Seq(Step)
  BY <1>1 DEF IInv, TypeOK
<1>6. TypeOK'
  BY <1>1, <1>2, <1>4, <1>5 DEF IInv, TypeOK
<1>7. ParkedAsk'
  BY <1>1, <1>2 DEF IInv, TypeOK, ParkedAsk, At, On
<1>8. ASSUME NEW h \in Goroutines
      PROVE  Leads(Holding(h)', todo'[h], Nothing)
  <2>1. CASE h = g
    <3>1. todo'[h] = Tail(todo[h]) /\ todo[h] # <<>>
      BY <1>1, <2>1 DEF IInv, TypeOK
    <3>2. \A u \in Uses, l \in Mutexes : Holding(h)[u][l] \in Nat
      BY HoldingType DEF IInv, Holdings
    <3>3. \A l \in Mutexes : readers'[l][h] = IF l = m THEN readers[l][h] - 1 ELSE readers[l][h]
      BY <1>1, <1>2, <2>1 DEF IInv, TypeOK
    <3>4. \A u \in Uses, l \in Mutexes :
            Holding(h)'[u][l] = IF u = "read" /\ l = m THEN Holding(h)[u][l] - 1
                                ELSE Holding(h)[u][l]
      BY <1>1, <3>3 DEF Holding
    <3>5. \A u \in Uses, l \in Mutexes :
            Holding(h)'[u][l] = Holding(h)[u][l] + Change(Head(todo[h]), u, l)
      BY <1>3, <2>1, <3>2, <3>4
    <3> QED BY <1>6, <3>1, <3>5, Passes
  <2>2. CASE h # g
    <3>1. todo'[h] = todo[h]
      BY <1>1, <2>2 DEF IInv, TypeOK
    <3>2. \A l \in Mutexes : readers'[l][h] = readers[l][h]
      BY <1>1, <2>2 DEF IInv, TypeOK
    <3> QED BY <1>1, <3>1, <3>2, Stays
  <2> QED BY <2>1, <2>2
<1>9. ParkedIsBlocked'
  BY <1>1 DEF IInv, ParkedIsBlocked
<1> QED BY <1>6, <1>7, <1>8, <1>9 DEF IInv

LEMMA RLockKeeps ==
  ASSUME IInv, NEW g \in Goroutines, RLock(g)
  PROVE  IInv'
<1> DEFINE m == On(g)
<1>1. todo[g] # <<>> /\ UNCHANGED writer
  BY DEF RLock, At
<1>2. m \in Mutexes /\ Head(todo[g]) = [do |-> "rlock", on |-> m] /\ At(g, "rlock")
  BY <1>1, FirstMove DEF RLock
<1>3. CASE writer[m] = Nobody
  <2>1. /\ readers' = [readers EXCEPT ![m][g] = @ + 1] /\ UNCHANGED parked
        /\ todo' = [todo EXCEPT ![g] = Tail(todo[g])]
    BY <1>3 DEF RLock, Pass
  <2> HIDE DEF m
  <2>2. \A u \in Uses, l \in Mutexes :
          Change(Head(todo[g]), u, l) = IF u = "read" /\ l = m THEN 1 ELSE 0
    BY <1>2 DEF Change, Uses
  <2>3. Tail(todo[g]) \in Seq(Step)
    BY <1>1 DEF IInv, TypeOK
  <2>4. TypeOK'
    BY <1>1, <1>2, <2>1, <2>3 DEF IInv, TypeOK
  <2>5. g \notin parked[m]
    BY <1>2, <1>3 DEF IInv, ParkedIsBlocked
  <2>6. \A l \in Mutexes : g \notin parked[l]
    BY <1>2, <2>5 DEF IInv, ParkedAsk, On, m
  <2>7. ParkedAsk'
    BY <1>1, <2>1, <2>6 DEF IInv, TypeOK, ParkedAsk, At, On
  <2>8. ASSUME NEW h \in Goroutines
        PROVE  Leads(Holding(h)', todo'[h], Nothing)
    <3>1. CASE h = g
      <4>1. todo'[h] = Tail(todo[h]) /\ todo[h] # <<>>
        BY <1>1, <2>1, <3>1 DEF IInv, TypeOK
      <4>2. \A u \in Uses, l \in Mutexes : Holding(h)[u][l] \in Nat
        BY HoldingType DEF IInv, Holdings
      <4>3. \A l \in Mutexes : readers'[l][h] = IF l = m THEN readers[l][h] + 1 ELSE readers[l][h]
        BY <1>2, <2>1, <3>1 DEF IInv, TypeOK
      <4>4. \A u \in Uses, l \in Mutexes :
              Holding(h)'[u][l] = IF u = "read" /\ l = m THEN Holding(h)[u][l] + 1
                                  ELSE Holding(h)[u][l]
        BY <1>1, <4>3 DEF Holding
      <4>5. \A u \in Uses, l \in Mutexes :
              Holding(h)'[u][l] = Holding(h)[u][l] + Change(Head(todo[h]), u, l)
        BY <2>2, <3>1, <4>2, <4>4
      <4> QED BY <2>4, <4>1, <4>5, Passes
    <3>2. CASE h # g
      <4>1. todo'[h] = todo[h]
        BY <2>1, <3>2 DEF IInv, TypeOK
      <4>2. \A l \in Mutexes : readers'[l][h] = readers[l][h]
        BY <2>1, <3>2 DEF IInv, TypeOK
      <4> QED BY <1>1, <4>1, <4>2, Stays
    <3> QED BY <3>1, <3>2
  <2>9. ParkedIsBlocked'
    BY <1>1, <2>1 DEF IInv, ParkedIsBlocked
  <2> QED BY <2>4, <2>7, <2>8, <2>9 DEF IInv
<1>4. CASE writer[m] # Nobody
  <2>1. parked' = [parked EXCEPT ![m] = @ \cup {g}] /\ UNCHANGED <<readers, todo>>
    BY <1>4 DEF RLock
  <2> HIDE DEF m
  <2>2. TypeOK'
    BY <1>1, <1>2, <2>1 DEF IInv, TypeOK
  <2>3. ParkedAsk'
    BY <1>2, <2>1 DEF IInv, TypeOK, ParkedAsk, At, On, m
  <2>4. ParkedIsBlocked'
    BY <1>1, <1>4, <2>1 DEF IInv, TypeOK, ParkedIsBlocked
  <2>5. \A h \in Goroutines : Leads(Holding(h)', todo'[h], Nothing)
    BY <1>1, <2>1, Stays
  <2> QED BY <2>2, <2>3, <2>4, <2>5 DEF IInv
<1> QED BY <1>3, <1>4

LEMMA UnlockKeeps ==
  ASSUME IInv, NEW g \in Goroutines, Unlock(g)
  PROVE  IInv'
<1> DEFINE m == On(g)
           in == parked[m]
<1>1. todo[g] # <<>> /\ At(g, "unlock")
  BY DEF Unlock, At
<1>2. m \in Mutexes /\ Head(todo[g]) = [do |-> "unlock", on |-> m]
  BY <1>1, FirstMove
<1>3. /\ writer' = [writer EXCEPT ![m] = Nobody]
      /\ readers' = [readers EXCEPT ![m] =
                       [h \in Goroutines |-> IF h \in in THEN @[h] + 1 ELSE @[h]]]
      /\ parked' = [parked EXCEPT ![m] = {}]
      /\ todo' = [h \in Goroutines |-> IF h \in in \cup {g} THEN Tail(todo[h]) ELSE todo[h]]
  BY DEF Unlock
<1>4. \A h \in in : h \in Goroutines /\ At(h, "rlock") /\ On(h) = m
  BY <1>2 DEF IInv, TypeOK, ParkedAsk
<1>5. \A h \in in : todo[h] # <<>> /\ Head(todo[h]) = [do |-> "rlock", on |-> m]
  BY <1>4, FirstMove DEF At
<1>6. g \notin in
  BY <1>2, <1>5
<1> HIDE DEF m, in
<1>7. writer[m] = g
  <2>1. PICK next \in Holdings :
          \A u \in Uses, l \in Mutexes :
            next[u][l] = Holding(g)[u][l] + Change(Head(todo[g]), u, l)
    BY <1>1, TailLeads DEF IInv
  <2>2. "write" \in Uses
    BY DEF Uses
  <2>3. Change(Head(todo[g]), "write", m) = -1
    BY <1>2 DEF Change
  <2>4. next["write"][m] = Holding(g)["write"][m] + (-1) /\ next["write"][m] \in Nat
    BY <1>2, <2>1, <2>2, <2>3 DEF Holdings
  <2>5. Holding(g)["write"][m] = IF writer[m] = g THEN 1 ELSE 0
    BY <1>2, <2>2 DEF Holding
  <2> QED BY <2>4, <2>5
<1>8. TypeOK'
  <2>1. todo' \in [Goroutines -> Seq(Step)]
    BY <1>1, <1>3, <1>5 DEF IInv, TypeOK
  <2>2. readers' \in [Mutexes -> [Goroutines -> Nat]]
    BY <1>2, <1>3 DEF IInv, TypeOK
  <2> QED BY <1>2, <1>3, <2>1, <2>2 DEF IInv, TypeOK
<1>9. ASSUME NEW l \in Mutexes, NEW h \in parked'[l]
      PROVE  /\ l # m /\ h \in parked[l] /\ h \in Goroutines
             /\ todo'[h] = todo[h]
  <2>1. l # m /\ h \in parked[l]
    BY <1>2, <1>3 DEF IInv, TypeOK
  <2>2. h \in Goroutines /\ At(h, "rlock") /\ On(h) = l
    BY <2>1 DEF IInv, TypeOK, ParkedAsk
  <2>3. h \notin in
    BY <1>4, <2>1, <2>2
  <2>4. h # g
    BY <1>1, <2>2 DEF At
  <2> QED BY <1>3, <2>1, <2>2, <2>3, <2>4
<1>10. ParkedAsk'
  BY <1>9 DEF IInv, ParkedAsk, At, On
<1>11. ParkedIsBlocked'
  BY <1>2, <1>3, <1>9 DEF IInv, TypeOK, ParkedIsBlocked
<1>12. ASSUME NEW h \in Goroutines
       PROVE  Leads(Holding(h)', todo'[h], Nothing)
  <2>1. \A l \in Mutexes : /\ readers[l][h] \in Nat
                           /\ readers'[l][h] = IF l = m /\ h \in in THEN readers[l][h] + 1
                                               ELSE readers[l][h]
    BY <1>2, <1>3 DEF IInv, TypeOK
  <2>2. \A l \in Mutexes : writer'[l] = h <=> writer[l] = h /\ ~(l = m /\ h = g)
    BY <1>2, <1>3, <1>7, GoroutinesAssumption DEF IInv, TypeOK, Goroutines
  <2>3. \A u \in Uses, l \in Mutexes :
          /\ Holding(h)[u][l] = IF u = "read" THEN readers[l][h] ELSE IF writer[l] = h THEN 1 ELSE 0
          /\ Holding(h)'[u][l] = IF u = "read" THEN readers'[l][h]
                                 ELSE IF writer'[l] = h THEN 1 ELSE 0
    BY DEF Holding
  <2>4. CASE h = g
    <3>1. todo'[h] = Tail(todo[h]) /\ todo[h] # <<>>
      BY <1>1, <1>3, <2>4
    <3>2. \A u \in Uses, l \in Mutexes :
            Change(Head(todo[h]), u, l) = IF u = "write" /\ l = m THEN -1 ELSE 0
      BY <1>2, <2>4 DEF Change, Uses
    <3>3. \A u \in Uses, l \in Mutexes :
            Holding(h)'[u][l] = Holding(h)[u][l] + Change(Head(todo[h]), u, l)
      BY <1>6, <1>7, <2>1, <2>2, <2>3, <2>4, <3>2 DEF Uses
    <3> QED BY <1>8, <3>1, <3>3, Passes
  <2>5. CASE h \in in
    <3>1. todo'[h] = Tail(todo[h]) /\ todo[h] # <<>>
      BY <1>3, <1>5, <2>5
    <3>2. \A u \in Uses, l \in Mutexes :
            Change(Head(todo[h]), u, l) = IF u = "read" /\ l = m THEN 1 ELSE 0
      BY <1>5, <2>5 DEF Change, Uses
    <3>3. \A u \in Uses, l \in Mutexes :
            Holding(h)'[u][l] = Holding(h)[u][l] + Change(Head(todo[h]), u, l)
      BY <1>6, <2>1, <2>2, <2>3, <2>5, <3>2 DEF Uses
    <3> QED BY <1>8, <3>1, <3>3, Passes
  <2>6. CASE h # g /\ h \notin in
    <3>1. todo'[h] = todo[h]
      BY <1>3, <2>6
    <3> QED BY <2>1, <2>2, <2>6, <3>1, Stays
  <2> QED BY <2>4, <2>5, <2>6
<1> QED BY <1>8, <1>10, <1>11, <1>12 DEF IInv
\* A goroutine that waits for the readers of a lock holds what it will hold once they
\* have left.
LEMMA DrainLeads ==
  ASSUME NEW a, NEW path, NEW to, NEW m \in Mutexes, Leads(a, path, to), path # <<>>,
         Head(path) = [do |-> "lock", on |-> m]
  PROVE  \E b \in Holdings :
           /\ Leads(b, Do("drain", m) \o Tail(path), to)
           /\ \A u \in Uses, l \in Mutexes : b[u][l] = a[u][l] + Change(Head(path), u, l)
<1> DEFINE step == [do |-> "drain", on |-> m]
           all == <<step>> \o Tail(path)
<1>1. PICK b \in Holdings :
        /\ Leads(b, Tail(path), to)
        /\ a \in Holdings
        /\ \A u \in Uses, l \in Mutexes :
             /\ b[u][l] = a[u][l] + Change(Head(path), u, l)
             /\ a[u][l] > 0 => Fits(Head(path), Inside(path, 1), u, l)
  BY TailLeads
<1>2. step \in Moves
  BY DEF Moves
<1>3. Inside(path, 1) => Inside(all, 1)
  <2>1. /\ path \in Seq(Moves) /\ Tail(path) \in Seq(Moves)
        /\ DOMAIN all = DOMAIN path
        /\ \A j \in DOMAIN path : j > 1 => all[j] = path[j]
    BY <1>2 DEF Leads
  <2> HIDE DEF all
  <2> QED BY <2>1 DEF Inside
<1>4. ASSUME NEW u \in Uses, NEW l \in Mutexes
      PROVE  b[u][l] = b[u][l] + Change(step, u, l)
  <2>1. Change(step, u, l) = 0
    BY DEF Change
  <2>2. b[u][l] \in Nat
    BY DEF Holdings
  <2> QED BY <2>1, <2>2
<1>5. ASSUME NEW u \in Uses, NEW l \in Mutexes, b[u][l] > 0
      PROVE  Fits(step, Inside(all, 1), u, l)
  <2>1. CASE u = "write" /\ l = m
    BY <2>1 DEF Fits, Asks
  <2>2. CASE ~(u = "write" /\ l = m)
    <3>1. Change(Head(path), u, l) = 0
      BY <2>2 DEF Change, Uses
    <3>2. a[u][l] > 0
      BY <1>1, <1>5, <3>1 DEF Holdings
    <3>3. Asks(Head(path), Inside(path, 1), u, l)
      BY <1>1, <3>2 DEF Fits
    <3> HIDE DEF all
    <3> QED BY <1>3, <3>3 DEF Fits, Asks
  <2> QED BY <2>1, <2>2
<1>6. Leads(b, all, to)
  <2> HIDE DEF step
  <2> QED BY <1>1, <1>2, <1>4, <1>5, StepThenLeads
<1> QED BY <1>1, <1>6 DEF Do

LEMMA AnnounceKeeps ==
  ASSUME IInv, NEW g \in Goroutines, Announce(g)
  PROVE  IInv'
<1> DEFINE m == On(g)
<1>1. /\ todo[g] # <<>> /\ At(g, "lock") /\ UNCHANGED <<readers, parked>>
      /\ writer[m] = Nobody /\ writer' = [writer EXCEPT ![m] = g]
  BY DEF Announce, At
<1>2. m \in Mutexes /\ Head(todo[g]) = [do |-> "lock", on |-> m]
  BY <1>1, FirstMove
<1>3. PICK rest : /\ todo' = [todo EXCEPT ![g] = rest]
                  /\ \/ rest = Tail(todo[g])
                     \/ rest = Do("drain", m) \o Tail(todo[g])
  BY DEF Announce, Pass
<1> HIDE DEF m
<1>4. PICK b \in Holdings :
        /\ Leads(b, rest, Nothing)
        /\ \A u \in Uses, l \in Mutexes :
             b[u][l] = Holding(g)[u][l] + Change(Head(todo[g]), u, l)
  <2>1. Leads(Holding(g), todo[g], Nothing)
    BY DEF IInv
  <2>2. CASE rest = Tail(todo[g])
    BY <1>1, <2>1, <2>2, TailLeads
  <2>3. CASE rest = Do("drain", m) \o Tail(todo[g])
    BY <1>1, <1>2, <2>1, <2>3, DrainLeads
  <2> QED BY <1>3, <2>2, <2>3
<1>5. TypeOK'
  <2>1. rest \in Seq(Step)
    BY <1>4, MovesAreSteps DEF Leads
  <2> QED BY <1>1, <1>3, <2>1 DEF IInv, TypeOK
<1>6. ParkedAsk'
  BY <1>1, <1>3 DEF IInv, TypeOK, ParkedAsk, At, On
<1>7. ParkedIsBlocked'
  BY <1>1, <1>2, GoroutinesAssumption DEF IInv, TypeOK, ParkedIsBlocked, Goroutines
<1>8. ASSUME NEW h \in Goroutines
      PROVE  Leads(Holding(h)', todo'[h], Nothing)
  <2>1. CASE h = g
    <3>1. todo'[h] = rest
      BY <1>3, <2>1 DEF IInv, TypeOK
    <3>2. \A l \in Mutexes : writer'[l] = h <=> writer[l] = h \/ l = m
      BY <1>1, <1>2, <2>1 DEF IInv, TypeOK
    <3>3. \A u \in Uses, l \in Mutexes :
            /\ Holding(h)[u][l] = IF u = "read" THEN readers[l][h] ELSE IF writer[l] = h THEN 1 ELSE 0
            /\ Holding(h)'[u][l] = IF u = "read" THEN readers[l][h]
                                   ELSE IF writer'[l] = h THEN 1 ELSE 0
      BY <1>1 DEF Holding
    <3>4. writer[m] # h
      BY <1>1, GoroutinesAssumption DEF Goroutines
    <3>5. \A u \in Uses, l \in Mutexes :
            Change(Head(todo[h]), u, l) = IF u = "write" /\ l = m THEN 1 ELSE 0
      BY <1>2, <2>1 DEF Change, Uses
    <3>6. \A l \in Mutexes : readers[l][h] \in Nat
      BY DEF IInv, TypeOK
    <3>7. \A u \in Uses, l \in Mutexes : Holding(h)'[u][l] = b[u][l]
      BY <1>4, <2>1, <3>2, <3>3, <3>4, <3>5, <3>6 DEF Uses
    <3>8. Holding(h)' \in Holdings
      BY <1>5, HoldingType DEF TypeOK, Holding, Holdings
    <3>9. Holding(h)' = b
      BY <3>7, <3>8, SameHoldings
    <3> QED BY <1>4, <3>1, <3>9
  <2>2. CASE h # g
    <3>1. todo'[h] = todo[h]
      BY <1>3, <2>2 DEF IInv, TypeOK
    <3>2. \A l \in Mutexes : writer'[l] = h <=> writer[l] = h
      BY <1>1, <1>2, <2>2, GoroutinesAssumption DEF IInv, TypeOK, Goroutines
    <3> QED BY <1>1, <3>1, <3>2, Stays
  <2> QED BY <2>1, <2>2
<1> QED BY <1>5, <1>6, <1>7, <1>8 DEF IInv

LEMMA NextIInv == IInv /\ [Next]_vars => IInv'
<1> SUFFICES ASSUME IInv, [Next]_vars PROVE IInv'
  OBVIOUS
<1>1. ASSUME NEW g \in Goroutines, Begin(g)
      PROVE  IInv'
  BY <1>1, BeginKeeps
<1>2. ASSUME NEW g \in Goroutines, Announce(g)
      PROVE  IInv'
  BY <1>2, AnnounceKeeps
<1>3. ASSUME NEW g \in Goroutines, Enter(g) \/ Return(g)
      PROVE  IInv'
  BY <1>3, PassKeeps DEF Enter, Return, At
<1>4. ASSUME NEW g \in Goroutines, Unlock(g)
      PROVE  IInv'
  BY <1>4, UnlockKeeps
<1>5. ASSUME NEW g \in Goroutines, RLock(g) \/ RUnlock(g)
      PROVE  IInv'
  BY <1>5, RLockKeeps, RUnlockKeeps
<1>6. ASSUME NEW g \in Goroutines, CallBack(g)
      PROVE  IInv'
  BY <1>6, CallBackKeeps
<1>7. CASE UNCHANGED vars
  <2>1. UNCHANGED <<todo, writer, readers, parked>>
    BY <1>7 DEF vars
  <2>2. \A g \in Goroutines : Leads(Holding(g)', todo'[g], Nothing)
    BY <2>1, Stays
  <2> QED BY <2>1, <2>2 DEF IInv, TypeOK, ParkedAsk, ParkedIsBlocked, At, On
<1> QED BY <1>1, <1>2, <1>3, <1>4, <1>5, <1>6, <1>7 DEF Next, GoOn

LEMMA Invariance == Spec => []IInv
  BY InitIInv, NextIInv, PTL DEF Spec

\* Calls, locks and their readers keep their types: nobody gives back a lock that it has
\* not taken, however calls and callbacks are nested.
THEOREM LocksTypeCorrect == Spec => []TypeOK
<1>1. IInv => TypeOK
  BY DEF IInv
<1> QED BY <1>1, Invariance, PTL
-----------------------------------------------------------------------------
(* Deadlocks *)

Circle(S) == S \subseteq Goroutines /\ \A g \in S : WaitsFor(g) \cap S # {}

\* Who waits asks for a lock.
LEMMA WaiterAsks ==
  ASSUME IInv, NEW g \in Goroutines, WaitsFor(g) # {}
  PROVE  /\ todo[g] # <<>> /\ On(g) \in Mutexes
         /\ Head(todo[g]).do \in {"lock", "drain", "rlock"} /\ Head(todo[g]).on = On(g)
<1>1. todo[g] # <<>> /\ \E what \in {"lock", "drain", "rlock"} : At(g, what)
  BY DEF WaitsFor, At
<1> QED BY <1>1, FirstMove DEF At, On

\* Whom somebody waits for has the lock: the readers, if the lock is closed to new ones.
LEMMA HasLock ==
  ASSUME IInv, NEW g \in Goroutines, NEW h \in WaitsFor(g)
  PROVE  h \in Goroutines /\ Holding(h)[IF At(g, "drain") THEN "read" ELSE "write"][On(g)] > 0
<1>1. On(g) \in Mutexes
  BY WaiterAsks
<1>2. CASE At(g, "drain")
  <2>1. ~At(g, "lock")
    BY <1>2 DEF At
  <2> QED BY <1>1, <1>2, <2>1 DEF WaitsFor, Holding, Uses
<1>3. CASE ~At(g, "drain")
  <2>1. h = writer[On(g)] /\ h # Nobody
    BY <1>3 DEF WaitsFor
  <2>2. h \in Goroutines
    BY <1>1, <2>1 DEF IInv, TypeOK
  <2> QED BY <1>1, <1>3, <2>1, <2>2 DEF Holding, Uses
<1> QED BY <1>2, <1>3

\* Who has a lock and waits asked for the other one in order, or in one of the ways that
\* are known.
LEMMA AsksInOrder ==
  ASSUME IInv, NEW h \in Goroutines, WaitsFor(h) # {},
         NEW u \in Uses, NEW l \in Mutexes, Holding(h)[u][l] > 0
  PROVE  Asks(Head(todo[h]), InCallback(h), u, l)
<1>1. todo[h] # <<>> /\ Head(todo[h]).do \in {"lock", "drain", "rlock"}
  BY WaiterAsks
<1>2. Fits(Head(todo[h]), Inside(todo[h], 1), u, l)
  BY <1>1, TailLeads DEF IInv
<1>3. Inside(todo[h], 1) => InCallback(h)
  BY DEF Inside, InCallback
<1> QED BY <1>1, <1>2, <1>3 DEF Fits, Asks

\* In a circle somebody has the lock that g waits for, and waits for another one or asks
\* for the same again.
LEMMA HolderInCircle ==
  ASSUME IInv, NEW S, Circle(S), NEW g \in S
  PROVE  \E h \in S :
           \/ Rank[On(g)] < Rank[On(h)] /\ (On(g) = "p.mu" \/ InCallback(h))
           \/ On(g) = "c.mu" /\ ReadsTwice(h)
           \/ InCallback(h) /\ On(h) \in {"p.mu", "subsmu", "submu"}
           \/ InCallback(h) /\ On(h) = "st.mu" /\ writer["st.mu"] = h
<1>1. \A k \in S : k \in Goroutines /\ WaitsFor(k) # {}
  BY DEF Circle
<1>2. On(g) \in Mutexes
  BY <1>1, WaiterAsks
<1>3. PICK h \in S, u \in Uses :
        /\ Holding(h)[u][On(g)] > 0
        /\ ~(u = "write" /\ At(h, "drain") /\ On(h) = On(g))
  <2>1. PICK h \in S : h \in WaitsFor(g)
    BY DEF Circle
  <2>2. CASE At(h, "drain") /\ On(h) = On(g)
    <3>1. PICK k \in S : k \in WaitsFor(h)
      BY DEF Circle
    <3>2. Holding(k)["read"][On(g)] > 0
      BY <1>1, <2>2, <3>1, HasLock
    <3> QED BY <3>2 DEF Uses
  <2>3. CASE ~(At(h, "drain") /\ On(h) = On(g))
    BY <1>1, <2>1, <2>3, HasLock DEF Uses
  <2> QED BY <2>2, <2>3
<1>4. Asks(Head(todo[h]), InCallback(h), u, On(g))
  BY <1>1, <1>2, <1>3, AsksInOrder
<1>5. todo[h] # <<>> /\ Head(todo[h]).on = On(h) /\ On(h) \in Mutexes
  BY <1>1, WaiterAsks
<1>6. CASE u = "read" /\ On(g) = "c.mu" /\ Head(todo[h]).do = "rlock" /\ On(h) = "c.mu"
  <2>1. At(h, "rlock") /\ ~At(h, "lock") /\ ~At(h, "drain")
    BY <1>5, <1>6 DEF At
  <2>2. h \in parked["c.mu"]
    BY <1>1, <1>6, <2>1 DEF WaitsFor
  <2>3. readers["c.mu"][h] > 0
    BY <1>2, <1>3, <1>6 DEF Holding, Uses
  <2>4. ReadsTwice(h)
    BY <1>2, <1>6, <2>2, <2>3 DEF ReadsTwice
  <2> QED BY <1>6, <2>4
<1>7. CASE u = "write" /\ On(g) = "st.mu" /\ InCallback(h) /\ On(h) = "st.mu"
  <2>1. writer["st.mu"] = h
    BY <1>2, <1>3, <1>7 DEF Holding, Uses
  <2> QED BY <1>7, <2>1
<1>8. ~(u = "write" /\ Head(todo[h]).do = "drain" /\ On(h) = On(g))
  BY <1>3, <1>5 DEF At
<1> QED BY <1>4, <1>5, <1>6, <1>7, <1>8 DEF Asks

\* Somebody in a circle asks for a lock that no other asks for a higher one than.
LEMMA HighestInCircle ==
  ASSUME IInv, NEW S, Circle(S), S # {}
  PROVE  \E g \in S : \A h \in S : Rank[On(h)] <= Rank[On(g)]
<1> DEFINE Above(r) == \E g \in S : Rank[On(g)] >= r
<1>1. \A g \in S : Rank[On(g)] \in 1..6
  <2>1. \A l \in Mutexes : Rank[l] \in 1..6
    BY DEF Rank, Mutexes
  <2> QED BY <2>1, WaiterAsks DEF Circle
<1>2. Above(1) /\ ~Above(7)
  BY <1>1
<1>3. PICK r \in 1..6 : Above(r) /\ ~Above(r + 1)
  BY <1>2
<1> QED BY <1>1, <1>3

LEMMA CircleIsDeadlocked ==
  /\ \A S : Circle(S) => S \subseteq Deadlocked
  /\ \A g \in Deadlocked : \E S : Circle(S) /\ g \in S
  BY DEF Circle, Deadlocked

\* Whatever calls and callbacks any number of goroutines make, a deadlock has somebody in
\* it who asks for c.mu again in GetLeader, or who asks in a callback for a lock that the
\* callback's caller, or whoever waits for it, may have.
THEOREM DeadlocksAreKnown == Spec => []OnlyKnownDeadlocks
<1>1. IInv => OnlyKnownDeadlocks
  <2> SUFFICES ASSUME IInv, Deadlocked # {}
               PROVE  \E g \in Deadlocked :
                        \/ ReadsTwice(g)
                        \/ InCallback(g) /\ On(g) \in {"p.mu", "subsmu", "submu"}
                        \/ InCallback(g) /\ On(g) = "st.mu" /\ writer["st.mu"] = g
    BY DEF OnlyKnownDeadlocks
  <2>1. PICK S : Circle(S) /\ S # {} /\ S \subseteq Deadlocked
    BY CircleIsDeadlocked
  <2>2. PICK g \in S : \A h \in S : Rank[On(h)] <= Rank[On(g)]
    BY <2>1, HighestInCircle
  <2>3. \A h \in S : ~(Rank[On(g)] < Rank[On(h)])
    <3>1. \A h \in S : Rank[On(h)] \in Nat
      <4>1. \A l \in Mutexes : Rank[l] \in Nat
        BY DEF Rank, Mutexes
      <4> QED BY <2>1, <4>1, WaiterAsks DEF Circle
    <3> QED BY <2>2, <3>1
  <2> QED BY <2>1, <2>3, HolderInCircle
<1> QED BY <1>1, Invariance, PTL

\* Without callbacks, whoever is in a deadlock or waits for one waits for c.mu or p.mu.
THEOREM DeadlocksAreContained == Spec => []DeadlockContained
<1>1. IInv => DeadlockContained
  <2> SUFFICES ASSUME IInv, \A g \in Goroutines : ~InCallback(g), NEW g \in Deadlocked
               PROVE  On(g) \in {"c.mu", "p.mu"}
    BY DEF DeadlockContained
  <2>1. PICK S : Circle(S) /\ g \in S
    BY CircleIsDeadlocked
  <2>2. \A h \in S : ~InCallback(h)
    BY <2>1 DEF Circle
  <2> QED BY <2>1, <2>2, HolderInCircle
<1> QED BY <1>1, Invariance, PTL

-----------------------------------------------------------------------------
(* Callbacks that are harmless: those that ask for c.mu or state.mu only,   *)
(* which rank above the locks that callbacks are made with.                 *)

HarmlessCalls == ConsensusRead \cup GetLeader \cup ConsensusChange \cup MeshStateCall

Inner == {"c.mu", "state.mu", "none"}

\* What a path asks for in a callback.
InnerOnly(path) == \A i \in 1..Len(path) : Inside(path, i) => path[i].on \in Inner

\* A path that returns from no callback, with steps on some locks.
Plain(path, locks) == path \in Seq([do: {"lock", "unlock", "rlock", "runlock", "callback"}, on: locks])

LEMMA PlainDo ==
  ASSUME NEW do \in {"lock", "unlock", "rlock", "runlock", "callback"}, NEW locks, NEW l \in locks
  PROVE  Plain(Do(do, l), locks)
  BY DEF Plain, Do

LEMMA PlainLocked ==
  ASSUME NEW locks, NEW l \in locks, NEW body, Plain(body, locks)
  PROVE  Plain(Locked(l, body), locks) /\ Plain(RLocked(l, body), locks)
<1> DEFINE S == [do: {"lock", "unlock", "rlock", "runlock", "callback"}, on: locks]
<1>1. body \in Seq(S)
  BY DEF Plain
<1>2. \A do \in {"lock", "unlock", "rlock", "runlock"} : Do(do, l) \in Seq(S)
  BY PlainDo DEF Plain
<1> HIDE DEF S
<1>3. Locked(l, body) \in Seq(S)
  BY <1>1, <1>2 DEF Locked
<1>4. RLocked(l, body) \in Seq(S)
  BY <1>1, <1>2 DEF RLocked
<1> QED BY <1>3, <1>4 DEF Plain, S

LEMMA PlainEmpty == \A locks : Plain(<<>>, locks)
  BY DEF Plain

LEMMA PlainTwice ==
  ASSUME NEW locks, NEW a, NEW b, Plain(a, locks), Plain(b, locks)
  PROVE  Plain(a \o b, locks)
  BY DEF Plain

\* No call begins in a callback.
LEMMA CallsArePlain ==
  ASSUME NEW path \in Calls \cup Work
  PROVE  Plain(path, Mutexes \cup {"none"})
<1> DEFINE locks == Mutexes \cup {"none"}
<1>1. {"p.mu", "subsmu", "submu", "st.mu", "c.mu", "state.mu", "none"} \subseteq locks
  BY DEF Mutexes
<1> HIDE DEF locks
<1>2. Plain(Callback, locks)
  BY <1>1, PlainDo DEF Callback
<1>3. \A l \in {"p.mu", "subsmu", "submu", "st.mu", "c.mu", "state.mu"} :
        \A body : Plain(body, locks) => Plain(Locked(l, body), locks) /\ Plain(RLocked(l, body), locks)
  BY <1>1, PlainLocked
<1>4. Plain(IsLeader, locks) /\ Plain(IsLeader \o IsLeader, locks)
  BY <1>3, PlainEmpty, PlainTwice DEF IsLeader
<1> DEFINE locked(body) ==
             \A l \in {"p.mu", "subsmu", "submu", "st.mu", "c.mu", "state.mu"} :
               Plain(Locked(l, body), locks) /\ Plain(RLocked(l, body), locks)
<1>5. locked(<<>>) /\ locked(Callback) /\ locked(IsLeader) /\ locked(IsLeader \o IsLeader)
  BY <1>2, <1>3, <1>4, PlainEmpty
<1>6. locked(Locked("subsmu", <<>>)) /\ locked(Locked("c.mu", <<>>))
  BY <1>3, <1>5
<1> SUFFICES Plain(path, locks)
  BY DEF locks
<1>7. CASE path \in StorageCall \cup IterPrefix \cup ConsensusRead \cup ConsensusChange \cup Start
  BY <1>4, <1>5, <1>7 DEF StorageCall, IterPrefix, ConsensusRead, ConsensusChange, Start
<1>8. CASE path \in GetLeader \cup GraphChange \cup MeshStateCall
  BY <1>5, <1>8 DEF GetLeader, GraphChange, MeshStateCall
<1>9. CASE path \in Work
  BY <1>5, <1>9 DEF Work, Reconcile, GraphReconcile
<1>10. CASE path \in Bootstrap \cup Status \cup Close
  BY <1>5, <1>6, <1>10 DEF Bootstrap, Status, Close, ConsensusChange
<1> QED BY <1>7, <1>8, <1>9, <1>10 DEF Calls

LEMMA HarmlessArePlain ==
  ASSUME NEW path \in HarmlessCalls
  PROVE  Plain(path, Inner)
<1>1. \A l \in {"c.mu", "state.mu"} : \A body :
        Plain(body, Inner) => Plain(Locked(l, body), Inner) /\ Plain(RLocked(l, body), Inner)
  BY PlainLocked DEF Inner
<1>2. Plain(IsLeader, Inner) /\ Plain(IsLeader \o IsLeader, Inner)
  BY <1>1, PlainEmpty, PlainTwice DEF IsLeader
<1>3. /\ \A l \in {"c.mu", "state.mu"} : Plain(Locked(l, <<>>), Inner)
      /\ Plain(RLocked("c.mu", IsLeader), Inner)
      /\ Plain(RLocked("c.mu", IsLeader \o IsLeader), Inner)
  BY <1>1, <1>2, PlainEmpty
<1> QED BY <1>2, <1>3 DEF HarmlessCalls, ConsensusRead, GetLeader, ConsensusChange, MeshStateCall

LEMMA PlainIsInner ==
  ASSUME NEW path, NEW locks, Plain(path, locks)
  PROVE  InnerOnly(path)
<1> DEFINE S == [do: {"lock", "unlock", "rlock", "runlock", "callback"}, on: locks]
<1>1. path \in Seq(S)
  BY DEF Plain
<1>2. \A s \in S : s.do # "return"
  OBVIOUS
<1> HIDE DEF S
<1>3. \A i \in DOMAIN path : path[i].do # "return"
  BY <1>1, <1>2
<1> QED BY <1>3 DEF InnerOnly, Inside

LEMMA InnerTail ==
  ASSUME NEW path \in Seq(Moves), path # <<>>, InnerOnly(path)
  PROVE  InnerOnly(Tail(path))
<1>1. ASSUME NEW i \in 1..Len(Tail(path)), Inside(Tail(path), i)
      PROVE  Tail(path)[i].on \in Inner
  <2>1. PICK j \in 1..Len(Tail(path)) : j > i /\ Tail(path)[j].do = "return"
    BY <1>1 DEF Inside
  <2>2. \A k \in 1..Len(Tail(path)) : Tail(path)[k] = path[k + 1] /\ k + 1 \in 1..Len(path)
    OBVIOUS
  <2>3. Inside(path, i + 1)
    BY <2>1, <2>2 DEF Inside
  <2> QED BY <2>2, <2>3 DEF InnerOnly
<1> QED BY <1>1 DEF InnerOnly

\* The first step may be replaced by another on the same lock.
LEMMA InnerFirst ==
  ASSUME NEW path \in Seq(Moves), path # <<>>, InnerOnly(path), NEW step \in Moves,
         step.on = Head(path).on
  PROVE  InnerOnly(<<step>> \o Tail(path))
<1> DEFINE new == <<step>> \o Tail(path)
<1>1. new \in Seq(Moves) /\ Len(new) = Len(path)
  OBVIOUS
<1>2. \A i \in 1..Len(path) : new[i] = IF i = 1 THEN step ELSE path[i]
  OBVIOUS
<1>3. path[1].on = step.on
  OBVIOUS
<1> HIDE DEF new
<1>4. \A i \in 1..Len(path) : Inside(new, i) => Inside(path, i)
  BY <1>1, <1>2 DEF Inside
<1> QED BY <1>1, <1>2, <1>3, <1>4 DEF InnerOnly, new

LEMMA InnerCallback ==
  ASSUME NEW path, Plain(path, Inner), NEW rest \in Seq(Moves), InnerOnly(rest)
  PROVE  InnerOnly(path \o Do("return", "none") \o rest)
<1> DEFINE new == path \o Do("return", "none") \o rest
           n == Len(path) + 1
<1> DEFINE S == [do: {"lock", "unlock", "rlock", "runlock", "callback"}, on: Inner]
           return == [do |-> "return", on |-> "none"]
<1>1. path \in Seq(S) /\ \A step \in S : step.on \in Inner
  BY DEF Plain
<1> HIDE DEF S
<1>2. Len(path) \in Nat /\ Len(rest) \in Nat /\ n \in Nat
  BY <1>1
<1>3. path \in Seq(S \cup Moves) /\ rest \in Seq(S \cup Moves) /\ <<return>> \in Seq(S \cup Moves)
  <2>1. path \in Seq(S \cup Moves)
    BY <1>1
  <2>2. return \in Moves
    BY DEF Moves
  <2> HIDE DEF return
  <2> QED BY <2>1, <2>2
<1>4. new = path \o <<return>> \o rest
  BY DEF Do
<1> HIDE DEF new, return
<1>5. /\ Len(new) = n + Len(rest)
      /\ \A i \in 1..Len(new) : new[i] = IF i < n THEN path[i]
                                        ELSE IF i = n THEN return
                                        ELSE rest[i - n]
      /\ \A i \in 1..Len(path) : path[i].on \in Inner
      /\ DOMAIN new = 1..Len(new)
  <2>1. new \in Seq(S \cup Moves) /\ Len(new) = n + Len(rest)
    BY <1>3, <1>4
  <2>2. \A i \in 1..Len(new) : new[i] = IF i < n THEN path[i]
                                       ELSE IF i = n THEN return
                                       ELSE rest[i - n]
    BY <1>3, <1>4, <2>1
  <2>3. \A i \in 1..Len(path) : path[i].on \in Inner
    BY <1>1
  <2> QED BY <2>1, <2>2, <2>3
<1>6. ASSUME NEW i \in 1..Len(new), Inside(new, i), i > n
      PROVE  new[i].on \in Inner
  <2>1. PICK j \in 1..Len(new) : j > i /\ new[j].do = "return"
    BY <1>5, <1>6 DEF Inside
  <2>2. i - n \in 1..Len(rest) /\ j - n \in 1..Len(rest) /\ j - n > i - n
    BY <1>2, <1>5, <1>6, <2>1
  <2>3. new[i] = rest[i - n] /\ new[j] = rest[j - n]
    BY <1>2, <1>5, <1>6, <2>1
  <2>4. Inside(rest, i - n)
    BY <2>1, <2>2, <2>3 DEF Inside
  <2> QED BY <2>2, <2>3, <2>4 DEF InnerOnly
<1>7. ASSUME NEW i \in 1..Len(new), i <= n
      PROVE  new[i].on \in Inner
  BY <1>2, <1>5, <1>7 DEF Inner, return
<1>8. \A i \in 1..Len(new) : Inside(new, i) => new[i].on \in Inner
  BY <1>2, <1>5, <1>6, <1>7
<1> QED BY <1>8 DEF InnerOnly, new

HInv == \A g \in Goroutines : InnerOnly(todo[g])

LEMMA HInvStep ==
  ASSUME BackCalls \subseteq HarmlessCalls, IInv, HInv, [Next]_vars
  PROVE  HInv'
<1>1. \A h \in Goroutines : todo[h] \in Seq(Moves)
  BY DEF IInv, Leads
<1>2. SUFFICES ASSUME NEW h \in Goroutines PROVE InnerOnly(todo'[h])
  BY DEF HInv, InnerOnly, Inside
<1>3. InnerOnly(todo[h]) /\ (todo[h] # <<>> => InnerOnly(Tail(todo[h])))
  BY <1>1, InnerTail DEF HInv
<1>4. ASSUME NEW g \in Goroutines, Begin(g)
      PROVE  InnerOnly(todo'[h])
  <2>1. PICK path \in Calls \cup Work : todo' = [todo EXCEPT ![g] = path]
    BY <1>4 DEF Begin, Paths
  <2>2. InnerOnly(path)
    BY CallsArePlain, PlainIsInner
  <2>3. todo'[h] = path \/ todo'[h] = todo[h]
    BY <2>1 DEF IInv, TypeOK
  <2> QED BY <1>3, <2>2, <2>3
<1>5. ASSUME NEW g \in Goroutines, Announce(g)
      PROVE  InnerOnly(todo'[h])
  <2> DEFINE new == Do("drain", On(g)) \o Tail(todo[g])
  <2>1. At(g, "lock") /\ (Pass(g) \/ todo' = [todo EXCEPT ![g] = new])
    BY <1>5 DEF Announce
  <2>2. todo[g] # <<>> /\ On(g) \in Mutexes /\ Head(todo[g]) = [do |-> "lock", on |-> On(g)]
    BY <2>1, FirstMove DEF At
  <2>3. InnerOnly(new)
    <3>1. [do |-> "drain", on |-> On(g)] \in Moves
      BY <2>2 DEF Moves
    <3> QED BY <1>1, <2>2, <3>1, InnerFirst DEF HInv, Do
  <2> HIDE DEF new
  <2>4. todo'[h] = todo[h] \/ (h = g /\ todo'[h] \in {Tail(todo[h]), new})
    BY <2>1 DEF Pass, IInv, TypeOK
  <2> QED BY <1>3, <2>2, <2>3, <2>4
<1>6. ASSUME NEW g \in Goroutines, Enter(g) \/ RLock(g) \/ RUnlock(g) \/ Return(g)
      PROVE  InnerOnly(todo'[h])
  <2>1. todo[g] # <<>> /\ (Pass(g) \/ UNCHANGED todo)
    BY <1>6 DEF Enter, RLock, RUnlock, Return, At
  <2>2. todo'[h] = todo[h] \/ (h = g /\ todo'[h] = Tail(todo[h]))
    BY <2>1 DEF Pass, IInv, TypeOK
  <2> QED BY <1>3, <2>1, <2>2
<1>7. ASSUME NEW g \in Goroutines, Unlock(g)
      PROVE  InnerOnly(todo'[h])
  <2>1. At(g, "unlock") /\ On(g) \in Mutexes
    BY <1>7, FirstMove DEF Unlock, At
  <2>2. todo'[h] = todo[h] \/ (todo'[h] = Tail(todo[h]) /\ h \in parked[On(g)] \cup {g})
    BY <1>7 DEF Unlock
  <2>3. h \in parked[On(g)] \cup {g} => todo[h] # <<>>
    BY <2>1 DEF IInv, ParkedAsk, At
  <2> QED BY <1>3, <2>2, <2>3
<1>8. ASSUME NEW g \in Goroutines, CallBack(g)
      PROVE  InnerOnly(todo'[h])
  <2>1. todo[g] # <<>>
    BY <1>8 DEF CallBack, At
  <2>2. CASE Pass(g)
    <3>1. todo'[h] = todo[h] \/ (h = g /\ todo'[h] = Tail(todo[h]))
      BY <2>2 DEF Pass, IInv, TypeOK
    <3> QED BY <1>3, <2>1, <3>1
  <2>3. ASSUME NEW path \in BackCalls,
               todo' = [todo EXCEPT ![g] = path \o Do("return", "none") \o Tail(@)]
        PROVE  InnerOnly(todo'[h])
    <3>1. CASE h = g
      <4>1. todo'[h] = path \o Do("return", "none") \o Tail(todo[h])
        BY <2>3, <3>1 DEF IInv, TypeOK
      <4>2. Tail(todo[h]) \in Seq(Moves)
        BY <1>1, <2>1, <3>1
      <4> QED BY <1>3, <2>1, <3>1, <4>1, <4>2, HarmlessArePlain, InnerCallback
    <3>2. CASE h # g
      BY <1>3, <2>3, <3>2 DEF IInv, TypeOK
    <3> QED BY <3>1, <3>2
  <2> QED BY <1>8, <2>2, <2>3 DEF CallBack
<1>9. CASE UNCHANGED vars
  BY <1>3, <1>9 DEF vars
<1> QED BY <1>4, <1>5, <1>6, <1>7, <1>8, <1>9 DEF Next, GoOn

\* If iterators and subscribers call nothing but consensus and the mesh state, the only
\* deadlock is that of a GetLeader that asks for c.mu again while another call waits to
\* write.
THEOREM HarmlessCallbacks ==
  ASSUME BackCalls \subseteq HarmlessCalls
  PROVE  Spec => [](Deadlocked # {} => \E g \in Deadlocked : ReadsTwice(g))
<1>1. Init => HInv
  BY PlainEmpty, PlainIsInner DEF Init, HInv
<1>2. Spec => []HInv
  BY <1>1, HInvStep, Invariance, PTL DEF Spec
<1>3. IInv /\ HInv /\ OnlyKnownDeadlocks => (Deadlocked # {} => \E g \in Deadlocked : ReadsTwice(g))
  <2> SUFFICES ASSUME IInv, HInv, NEW g \in Deadlocked, InCallback(g),
                      On(g) \in {"p.mu", "subsmu", "submu", "st.mu"}
               PROVE  FALSE
    BY DEF OnlyKnownDeadlocks
  <2>1. g \in Goroutines /\ WaitsFor(g) # {}
    BY CircleIsDeadlocked DEF Circle
  <2>2. todo[g] # <<>> /\ Head(todo[g]).do # "return" /\ todo[g] \in Seq(Moves)
    BY <2>1, WaiterAsks DEF IInv, Leads
  <2>3. Inside(todo[g], 1)
    <3>1. PICK i \in 1..Len(todo[g]) : todo[g][i].do = "return"
      BY <2>2 DEF InCallback
    <3> QED BY <2>2, <3>1 DEF Inside
  <2>4. On(g) \in Inner
    BY <2>1, <2>2, <2>3 DEF HInv, InnerOnly, On
  <2> QED BY <2>4 DEF Inner
<1> QED BY <1>2, <1>3, Invariance, DeadlocksAreKnown, PTL
=============================================================================
