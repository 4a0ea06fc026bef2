-------------------------- MODULE SchedulerProofs --------------------------
(***************************************************************************)
(* Theorems on the scheduler, for any tasks, callers and numbers of calls: *)
(* however it is used, a Stop that has returned leaves nothing that ticks  *)
(* and no task has two goroutines; used with care, it does not panic.      *)
(* That careful calls return and that tasks run again and again are        *)
(* liveness properties, left to TLC.                                       *)
(***************************************************************************)
EXTENDS Scheduler, TLAPS, FiniteSetTheorems

Bare == [control |-> Nil, ticker |-> Nil]

\* The goroutine has not yet forgotten its channel; it has been told to stop.
Holding(g)  == ticking[g].pc \in {"loop", "select", "close", "nilControl"}
Stopping(g) == ticking[g].pc \in {"close", "nilControl", "stopTicker", "nilTicker"}

StopOps == {"stop", "send", "sending"}

\* A task is registered once, and an array is made for at least one more.
SliceInv ==
    /\ \A i, j \in 1 .. Len(registrations) : registrations[i] = registrations[j] => i = j
    /\ Cardinality(Registered) = Len(registrations)
    /\ array <= Len(registrations)

\* Who holds the mutex goes through the registrations, in the state that
\* running had when the mutex was taken.
Calling(c) ==
    /\ call[c].op # "idle" <=> mutex = c
    /\ call[c].op = "idle" => call[c] = Idle
    /\ call[c].op # "idle" => call[c].i >= 1 /\ call[c].i <= Len(registrations) + 1
    /\ call[c].op \in {"send", "sending"} =>
           /\ call[c].i <= Len(registrations)
           /\ call[c].ch # Nil => call[c].ch[1] = registrations[call[c].i]
    /\ call[c].op = "start" => ~running
    /\ call[c].op \in StopOps => running

CallInv == \A c \in Callers : Calling(c)

\* A call of Start has yet to look at the task.
Awaits(t) ==
    \E c \in Callers : /\ call[c].op = "start"
                       /\ \E j \in call[c].i .. Len(registrations) : registrations[j] = t

\* The first k ticks of a task have been used, one for its registration and
\* one for each Start at most.
Used(t, k) ==
    /\ \A n \in 1 .. MaxCalls + 1 : ticking[<<t, n>>].pc # "none" <=> n <= k
    /\ Awaits(t) => k <= calls
    /\ t \notin Registered => k = 0

NamesInv == \A t \in Tasks : \E k \in 0 .. calls + 1 : Used(t, k)

\* Memory of a task that is not registered is empty; a registration holds its own channel.
CellsInv ==
    /\ \A t \in Tasks \ Registered : \A a \in 0 .. Cardinality(Tasks) : cells[<<t, a>>] = Bare
    /\ \A c \in Cell : cells[c].control # Nil => cells[c].control[1] = c[1]

\* A goroutine has its channel in the memory it points to until it forgets it,
\* and while it ticks in the slice as well: this is what Stop and Start look at.
Pointing(g) ==
    /\ ticking[g].pc # "none" =>
           /\ g[1] \in Registered
           /\ ticking[g].cell \in Cell
           /\ ticking[g].cell[1] = g[1]
           /\ ticking[g].cell[2] <= array
    /\ Holding(g) => cells[ticking[g].cell].control = g
    /\ Ticking(g) => cells[<<g[1], array>>].control = g
    /\ ticking[g].pc = "select" => ticking[g].ctl = g
    /\ g \in closed => ticking[g].pc \in {"nilControl", "stopTicker", "nilTicker", "done"}

TickInv == \A g \in Tick : Pointing(g)

\* A Stop has stopped the tasks it has gone through.
Passed(c) ==
    call[c].op \in StopOps =>
        \A j \in 1 .. call[c].i - 1 : \A g \in Tick : g[1] = registrations[j] => ~Ticking(g)

StopInv == StopIsEffective /\ \A c \in Callers : Passed(c)

\* The last Stop has gone through the task, or is over.
Stopped(t) ==
    \/ ~running /\ mutex = NoCaller
    \/ \E c \in Callers : /\ call[c].op \in StopOps
                          /\ \E j \in 1 .. call[c].i - 1 : registrations[j] = t

\* Used with care, the slice has no stale copy of what a goroutine points to.
InPlace(g) ==
    /\ ticking[g].pc \notin {"none", "done"} =>
           /\ ticking[g].cell = <<g[1], array>>
           /\ cells[ticking[g].cell].ticker = g
    /\ Stopping(g) => Stopped(g[1])

Answered(c) == call[c].op \in {"send", "sending"} => call[c].ch # Nil /\ Ticking(call[c].ch)

Held(t) == cells[<<t, array>>].control # Nil => Holding(cells[<<t, array>>].control)

CareInv ==
    /\ ~panicked
    /\ \A g \in Tick : InPlace(g)
    /\ \A t \in Registered : Held(t)
    /\ \A c \in Callers : Answered(c)

CarefulInv == careful => CareInv

SchedulerInv ==
    /\ TypeOK /\ SliceInv /\ CallInv /\ NamesInv
    /\ CellsInv /\ TickInv /\ StopInv /\ CarefulInv

-----------------------------------------------------------------------------
(* Names, memory and the slice.                                            *)

LEMMA Sizes == Cardinality(Tasks) \in Nat
BY SchedulerAssumption, FS_CardinalityType

LEMMA TickParts ==
    ASSUME NEW g \in Tick
    PROVE  g[1] \in Tasks /\ g[2] \in 1 .. MaxCalls + 1 /\ g = <<g[1], g[2]>>
BY DEF Tick

LEMMA TickIs ==
    ASSUME NEW t \in Tasks, NEW n \in 1 .. MaxCalls + 1
    PROVE  <<t, n>> \in Tick /\ <<t, n>>[1] = t /\ <<t, n>>[2] = n
BY DEF Tick

LEMMA CellParts ==
    ASSUME NEW c \in Cell
    PROVE  c[1] \in Tasks /\ c[2] \in 0 .. Cardinality(Tasks) /\ c = <<c[1], c[2]>>
BY DEF Cell

LEMMA CellIs ==
    ASSUME NEW t \in Tasks, NEW a \in 0 .. Cardinality(Tasks)
    PROVE  <<t, a>> \in Cell /\ <<t, a>>[1] = t /\ <<t, a>>[2] = a
BY DEF Cell

\* The registrations are tasks, and the elements of the slice are memory.
LEMMA Elements ==
    ASSUME TypeOK, NEW i \in 1 .. Len(registrations)
    PROVE  /\ registrations[i] \in Tasks
           /\ registrations[i] \in Registered
           /\ Element(i) = <<registrations[i], array>>
           /\ Element(i) \in Cell
<1>1. registrations[i] \in Tasks
  BY DEF TypeOK
<1>2. array \in 0 .. Cardinality(Tasks)
  BY DEF TypeOK
<1>3. QED
  BY <1>1, <1>2, CellIs DEF Registered, Element

LEMMA RegisteredAreTasks ==
    ASSUME TypeOK
    PROVE  Registered \subseteq Tasks /\ IsFiniteSet(Registered)
<1>1. Registered \subseteq Tasks
  BY Elements DEF Registered
<1>2. QED
  BY <1>1, SchedulerAssumption, FS_Subset

\* The next tick of a task is the first that has not been used.
LEMMA NextTickIs ==
    ASSUME NEW t \in Tasks, NEW k \in 0 .. MaxCalls,
           \A n \in 1 .. MaxCalls + 1 : ticking[<<t, n>>].pc # "none" <=> n <= k
    PROVE  NextTick(t) = <<t, k + 1>>
<1> DEFINE U == {g \in Tick : g[1] = t /\ ticking[g].pc # "none"}
           f == [n \in 1 .. k |-> <<t, n>>]
<1>0. k \in Nat /\ 1 .. k \subseteq 1 .. MaxCalls + 1
  BY SchedulerAssumption
<1>1. \A n \in 1 .. k : <<t, n>> \in U
  BY <1>0, TickIs
<1>2. \A g \in U : \E n \in 1 .. k : g = <<t, n>>
  <2> TAKE g \in U
  <2>1. g[2] \in 1 .. MaxCalls + 1 /\ g = <<t, g[2]>>
    BY TickParts
  <2>2. g[2] <= k
    BY <2>1
  <2>3. QED
    BY <1>0, <2>1, <2>2
<1>3. f \in Bijection(1 .. k, U)
  <2>1. f \in [1 .. k -> U]
    BY <1>1
  <2>2. \A m, n \in 1 .. k : f[m] = f[n] => m = n
    OBVIOUS
  <2>3. \A g \in U : \E n \in 1 .. k : f[n] = g
    BY <1>2
  <2>4. QED
    BY <2>1, <2>2, <2>3 DEF Bijection, Injection, Surjection, IsInjective
<1>4. IsFiniteSet(1 .. k) /\ Cardinality(1 .. k) = k
  BY <1>0, FS_Interval
<1>5. Cardinality(U) = k
  BY <1>3, <1>4, FS_Bijection DEF ExistsBijection
<1>6. QED
  BY <1>5 DEF NextTick

\* A task that is registered or that Start looks at has a tick left.
LEMMA FreshTick ==
    ASSUME TypeOK, NamesInv, NEW t \in Tasks, t \notin Registered \/ Awaits(t)
    PROVE  /\ NextTick(t) \in Tick
           /\ NextTick(t) # Nil
           /\ NextTick(t)[1] = t
           /\ ticking[NextTick(t)].pc = "none"
           /\ \E k \in 0 .. calls : /\ NextTick(t) = <<t, k + 1>>
                                    /\ Used(t, k)
<1>1. PICK k \in 0 .. calls + 1 : Used(t, k)
  BY DEF NamesInv
<1>2. calls \in Nat /\ calls <= MaxCalls /\ MaxCalls \in Nat
  BY SchedulerAssumption DEF TypeOK
<1>3. k \in 0 .. calls
  BY <1>1, <1>2 DEF Used
<1>4. NextTick(t) = <<t, k + 1>>
  BY <1>1, <1>2, <1>3, NextTickIs DEF Used
<1>5. k + 1 \in 1 .. MaxCalls + 1 /\ ~(k + 1 <= k)
  BY <1>2, <1>3
<1>6. NextTick(t) \in Tick /\ NextTick(t)[1] = t
  BY <1>4, <1>5, TickIs
<1>7. ticking[NextTick(t)].pc = "none"
  BY <1>1, <1>4, <1>5 DEF Used
<1>8. QED
  BY <1>1, <1>3, <1>4, <1>6, <1>7, NilAssumption

-----------------------------------------------------------------------------
(* The steps.                                                              *)

LEMMA NextCases ==
    ASSUME [Next]_vars
    PROVE  \/ \E c \in Callers, t \in Tasks : Register(c, t)
           \/ \E c \in Callers : Lock(c, "start") \/ Lock(c, "stop")
           \/ \E c \in Callers : StartOne(c)
           \/ \E c \in Callers : StopCheck(c)
           \/ \E c \in Callers : StopSend(c)
           \/ \E c \in Callers : Unlock(c)
           \/ \E g \in Tick : Select(g)
           \/ \E g \in Tick : ReceiveTick(g)
           \/ \E g \in Tick, c \in Callers : ReceiveStop(g, c)
           \/ \E g \in Tick : Close(g)
           \/ \E g \in Tick : NilControl(g)
           \/ \E g \in Tick : StopTicker(g)
           \/ \E g \in Tick : NilTicker(g)
           \/ \E g \in Tick : Fire(g)
           \/ \E t \in Tasks : RunEnds(t)
           \/ UNCHANGED vars
BY DEF Next, Proceed, Tickings

\* One goroutine comes into being; the others are as they were.
Born(n, cell) ==
    /\ n \in Tick
    /\ ticking[n].pc = "none"
    /\ ticking'[n] = [pc |-> "loop", cell |-> cell, tick |-> Nil, ctl |-> Nil]
    /\ \A g \in Tick : g # n => ticking'[g] = ticking[g]

LEMMA GoIsBorn ==
    ASSUME TypeOK, NamesInv, NEW t \in Tasks, t \notin Registered \/ Awaits(t),
           NEW cell, Go(t, cell)
    PROVE  Born(NextTick(t), cell)
<1>1. NextTick(t) \in Tick /\ ticking[NextTick(t)].pc = "none"
  BY FreshTick
<1>2. DOMAIN ticking = Tick
  BY DEF TypeOK
<1>3. QED
  BY <1>1, <1>2 DEF Go, Born

\* Register puts the task behind the others.
LEMMA RegisterSlice ==
    ASSUME TypeOK, SliceInv, NEW c \in Callers, NEW t \in Tasks, Register(c, t)
    PROVE  /\ registrations' \in Seq(Tasks)
           /\ Len(registrations') = Len(registrations) + 1
           /\ \A i \in 1 .. Len(registrations) : registrations'[i] = registrations[i]
           /\ registrations'[Len(registrations) + 1] = t
           /\ Registered' = Registered \cup {t}
           /\ t \notin Registered
           /\ Len(registrations') <= Cardinality(Tasks)
           /\ Cardinality(Registered') = Len(registrations')
           /\ array' \in {array, array + 1}
           /\ array' \in 0 .. Cardinality(Tasks)
           /\ array' <= Len(registrations')
<1>0. registrations \in Seq(Tasks) /\ registrations' = Append(registrations, t) /\ t \notin Registered
  BY DEF TypeOK, Register
<1>1. /\ registrations' \in Seq(Tasks)
      /\ Len(registrations) \in Nat
      /\ Len(registrations') = Len(registrations) + 1
      /\ \A i \in 1 .. Len(registrations) : registrations'[i] = registrations[i]
      /\ registrations'[Len(registrations) + 1] = t
  BY <1>0
<1>2. Registered' = Registered \cup {t}
  <2>1. Registered' = {registrations'[i] : i \in 1 .. Len(registrations')}
    BY DEF Registered
  <2>2. 1 .. Len(registrations') = (1 .. Len(registrations)) \cup {Len(registrations) + 1}
    BY <1>1
  <2>3. Registered' = {registrations'[i] : i \in (1 .. Len(registrations)) \cup {Len(registrations) + 1}}
    BY <2>1, <2>2
  <2>4. QED
    BY <1>1, <2>3 DEF Registered
<1>3. Cardinality(Registered') = Len(registrations')
  <2>1. Cardinality(Registered \cup {t}) = Cardinality(Registered) + 1
    BY <1>0, RegisteredAreTasks, FS_AddElement
  <2>2. QED
    BY <1>1, <1>2, <2>1 DEF SliceInv
<1>4. Len(registrations') <= Cardinality(Tasks)
  <2>1. Registered' \subseteq Tasks
    BY <1>2, RegisteredAreTasks
  <2>2. Cardinality(Registered') <= Cardinality(Tasks)
    BY <2>1, SchedulerAssumption, FS_Subset
  <2>3. QED
    BY <1>3, <2>2
<1>5. array' \in {array, array + 1}
  BY DEF Register
<1>6. array \in Nat /\ array <= Len(registrations) /\ Cardinality(Tasks) \in Nat
  BY Sizes DEF TypeOK, SliceInv
<1>7. array' <= Len(registrations') /\ array' \in Nat
  BY <1>1, <1>5, <1>6
<1>8. array' \in 0 .. Cardinality(Tasks)
  BY <1>1, <1>4, <1>6, <1>7
<1>9. QED
  BY <1>0, <1>1, <1>2, <1>3, <1>4, <1>5, <1>7, <1>8

\* What append leaves in memory: the registration, in the slice and in the
\* local variable; the others in the slice and wherever they were before.
LEMMA AppendedIs ==
    ASSUME TypeOK, SliceInv, NEW c \in Callers, NEW t \in Tasks, Register(c, t),
           NEW mem, \A d \in Cell : d # Local(t) => mem[d] = cells[d],
           cells' = Appended(mem, t)
    PROVE  /\ DOMAIN cells' = Cell
           /\ cells'[<<t, array'>>] = mem[Local(t)]
           /\ cells'[Local(t)] = mem[Local(t)]
           /\ \A a \in 0 .. Cardinality(Tasks) : cells'[<<t, a>>] \in {mem[Local(t)], cells[<<t, a>>]}
           /\ \A u \in Registered : cells'[<<u, array'>>] = cells[<<u, array>>]
           /\ \A d \in Cell : d[1] # t /\ d[2] <= array => cells'[d] = cells[d]
           /\ \A u \in Tasks \ Registered : u # t =>
                  \A a \in 0 .. Cardinality(Tasks) : cells'[<<u, a>>] = cells[<<u, a>>]
           /\ \A d \in Cell : d[1] # t => cells'[d] \in {cells[d], cells[<<d[1], array>>]}
<1> DEFINE full == Len(registrations) = Capacity
           moved == IF full THEN Registered ELSE {}
<1>1. array' = IF full THEN array + 1 ELSE array
  BY DEF Register
<1>2. cells' = [d \in Cell |-> IF d = <<t, array'>> THEN mem[Local(t)]
                               ELSE IF d[1] \in moved /\ d[2] = array' THEN mem[<<d[1], array>>]
                               ELSE mem[d]]
  BY <1>1 DEF Appended
<1>3. t \notin Registered /\ array' \in 0 .. Cardinality(Tasks) /\ array \in 0 .. Cardinality(Tasks)
  BY RegisterSlice DEF TypeOK
<1> HIDE DEF full
<1>4. Registered \subseteq Tasks
  BY RegisteredAreTasks
<1>5. Local(t) \in Cell /\ Local(t)[1] = t /\ Local(t)[2] = 0 /\ <<t, array'>> \in Cell
  <2>1. 0 \in 0 .. Cardinality(Tasks)
    BY Sizes
  <2>2. QED
    BY <1>3, <2>1, CellIs DEF Local
<1>6. cells'[<<t, array'>>] = mem[Local(t)]
  BY <1>2, <1>5
<1>7. \A a \in 0 .. Cardinality(Tasks) : cells'[<<t, a>>] \in {mem[Local(t)], mem[<<t, a>>]}
  <2> TAKE a \in 0 .. Cardinality(Tasks)
  <2>1. <<t, a>> \in Cell /\ <<t, a>>[1] = t /\ t \notin moved
    BY <1>3, CellIs
  <2>2. QED
    BY <1>2, <2>1
<1>8. cells'[Local(t)] = mem[Local(t)]
  BY <1>2, <1>3, <1>5
<1>9. \A a \in 0 .. Cardinality(Tasks) : cells'[<<t, a>>] \in {mem[Local(t)], cells[<<t, a>>]}
  <2> TAKE a \in 0 .. Cardinality(Tasks)
  <2>1. CASE <<t, a>> = Local(t)
    BY <1>8, <2>1
  <2>2. CASE <<t, a>> # Local(t)
    BY <1>7, <2>2, CellIs
  <2>3. QED
    BY <2>1, <2>2
<1>10. \A d \in Cell : d[1] # t => mem[d] = cells[d]
  BY <1>5
<1>11. \A u \in Registered : cells'[<<u, array'>>] = cells[<<u, array>>]
  <2> TAKE u \in Registered
  <2>1. u \in Tasks /\ u # t
    BY <1>3, <1>4
  <2>2. /\ <<u, array'>> \in Cell /\ <<u, array'>>[1] = u /\ <<u, array'>>[2] = array'
        /\ <<u, array>> \in Cell /\ <<u, array>>[1] = u
    BY <1>3, <2>1, CellIs
  <2>3. mem[<<u, array>>] = cells[<<u, array>>]
    BY <1>10, <2>1, <2>2
  <2>4. CASE full
    BY <1>2, <2>1, <2>2, <2>3, <2>4
  <2>5. CASE ~full
    BY <1>1, <1>2, <2>1, <2>2, <2>3, <2>5
  <2>6. QED
    BY <2>4, <2>5
<1>12. \A d \in Cell : d[1] # t /\ d[2] <= array => cells'[d] = cells[d]
  <2> TAKE d \in Cell
  <2> HAVE d[1] # t /\ d[2] <= array
  <2>1. d # <<t, array'>> /\ mem[d] = cells[d]
    BY <1>10
  <2>2. d[1] \in moved => d[2] # array'
    BY <1>1, <1>3, CellParts
  <2>3. QED
    BY <1>2, <2>1, <2>2
<1>13. \A u \in Tasks \ Registered : u # t =>
           \A a \in 0 .. Cardinality(Tasks) : cells'[<<u, a>>] = cells[<<u, a>>]
  <2> TAKE u \in Tasks \ Registered
  <2> HAVE u # t
  <2> TAKE a \in 0 .. Cardinality(Tasks)
  <2>1. <<u, a>> \in Cell /\ <<u, a>>[1] = u /\ <<u, a>> # <<t, array'>>
    BY CellIs
  <2>2. QED
    BY <1>2, <1>10, <2>1
<1>14. \A d \in Cell : d[1] # t => cells'[d] \in {cells[d], cells[<<d[1], array>>]}
  <2> TAKE d \in Cell
  <2> HAVE d[1] # t
  <2>1. d # <<t, array'>> /\ mem[d] = cells[d]
    BY <1>10
  <2>2. <<d[1], array>> \in Cell /\ <<d[1], array>>[1] = d[1]
    BY <1>3, CellParts, CellIs
  <2>3. mem[<<d[1], array>>] = cells[<<d[1], array>>]
    BY <1>10, <2>2
  <2>4. QED
    BY <1>2, <2>1, <2>3
<1>15. QED
  BY <1>2, <1>6, <1>8, <1>9, <1>11, <1>12, <1>13, <1>14

\* The registration that is appended is the local variable, started or bare.
LEMMA RegisterCells ==
    ASSUME TypeOK, SliceInv, NamesInv, CellsInv, NEW c \in Callers, NEW t \in Tasks, Register(c, t)
    PROVE  \E reg : /\ reg = IF running THEN [control |-> NextTick(t), ticker |-> NextTick(t)] ELSE Bare
                    /\ DOMAIN cells' = Cell
                    /\ cells'[<<t, array'>>] = reg
                    /\ cells'[Local(t)] = reg
                    /\ \A a \in 0 .. Cardinality(Tasks) : cells'[<<t, a>>] \in {reg, Bare}
                    /\ \A u \in Registered : cells'[<<u, array'>>] = cells[<<u, array>>]
                    /\ \A d \in Cell : d[1] # t /\ d[2] <= array => cells'[d] = cells[d]
                    /\ \A u \in Tasks \ Registered : u # t =>
                           \A a \in 0 .. Cardinality(Tasks) : cells'[<<u, a>>] = cells[<<u, a>>]
                    /\ \A d \in Cell : d[1] # t => cells'[d] \in {cells[d], cells[<<d[1], array>>]}
<1> DEFINE reg == IF running THEN [control |-> NextTick(t), ticker |-> NextTick(t)] ELSE Bare
           mem == IF running THEN Started(cells, t, Local(t)) ELSE cells
<1>1. t \notin Registered /\ cells' = Appended(mem, t)
  BY DEF Register, RegisteredTicking
<1>2. Local(t) \in Cell /\ Local(t) = <<t, 0>> /\ 0 \in 0 .. Cardinality(Tasks) /\ DOMAIN cells = Cell
  <2>1. 0 \in 0 .. Cardinality(Tasks)
    BY Sizes
  <2>2. QED
    BY <2>1, CellIs DEF Local, TypeOK
<1>3. \A a \in 0 .. Cardinality(Tasks) : cells[<<t, a>>] = Bare
  BY <1>1 DEF CellsInv
<1>4. mem[Local(t)] = reg
  BY <1>2, <1>3 DEF Started
<1>5. \A d \in Cell : d # Local(t) => mem[d] = cells[d]
  BY <1>2 DEF Started
<1> HIDE DEF mem
<1>6. /\ DOMAIN cells' = Cell
      /\ cells'[<<t, array'>>] = mem[Local(t)]
      /\ cells'[Local(t)] = mem[Local(t)]
      /\ \A a \in 0 .. Cardinality(Tasks) : cells'[<<t, a>>] \in {mem[Local(t)], cells[<<t, a>>]}
      /\ \A u \in Registered : cells'[<<u, array'>>] = cells[<<u, array>>]
      /\ \A d \in Cell : d[1] # t /\ d[2] <= array => cells'[d] = cells[d]
      /\ \A u \in Tasks \ Registered : u # t =>
             \A a \in 0 .. Cardinality(Tasks) : cells'[<<u, a>>] = cells[<<u, a>>]
      /\ \A d \in Cell : d[1] # t => cells'[d] \in {cells[d], cells[<<d[1], array>>]}
  BY <1>1, <1>5, AppendedIs
<1> HIDE DEF reg
<1>7. \A a \in 0 .. Cardinality(Tasks) : cells'[<<t, a>>] \in {reg, Bare}
  BY <1>3, <1>4, <1>6
<1>8. cells'[<<t, array'>>] = reg /\ cells'[Local(t)] = reg
  BY <1>4, <1>6
<1>9. reg = IF running THEN [control |-> NextTick(t), ticker |-> NextTick(t)] ELSE Bare
  BY DEF reg
<1>10. QED
  BY <1>6, <1>7, <1>8, <1>9

\* Start starts what has no channel, at the place the slice says.
LEMMA StartCells ==
    ASSUME TypeOK, NamesInv, NEW c \in Callers, StartOne(c), call[c].i >= 1,
           NEW t, t = registrations[call[c].i]
    PROVE  /\ t \in Tasks /\ t \in Registered /\ <<t, array>> \in Cell
           /\ Awaits(t)
           /\ \/ /\ cells[<<t, array>>].control = Nil
                 /\ cells' = [cells EXCEPT ![<<t, array>>] =
                                  [control |-> NextTick(t), ticker |-> NextTick(t)]]
                 /\ Go(t, <<t, array>>)
              \/ /\ cells[<<t, array>>].control # Nil
                 /\ UNCHANGED <<cells, ticking, alive>>
<1> DEFINE i == call[c].i
<1>1. i \in 1 .. Len(registrations)
  BY DEF StartOne, TypeOK
<1>2. t \in Tasks /\ t \in Registered /\ <<t, array>> \in Cell /\ Element(i) = <<t, array>>
  BY <1>1, Elements
<1>3. Awaits(t)
  <2>1. call[c].op = "start" /\ i \in i .. Len(registrations)
    BY <1>1 DEF StartOne
  <2>2. QED
    BY <2>1 DEF Awaits
<1>4. QED
  BY <1>2, <1>3 DEF StartOne, Started

\* The types of the memory, of the goroutines and of the calls.
Places   == [control : Tick \cup {Nil}, ticker : Tick \cup {Nil}]
PCs      == {"none", "loop", "select", "close", "nilControl", "stopTicker", "nilTicker", "done"}
Routines == [pc : PCs, cell : Cell \cup {Nil}, tick : Tick \cup {Nil}, ctl : Tick \cup {Nil}]
Uses     == [op : {"idle", "start", "stop", "send", "sending"},
             i : 0 .. Cardinality(Tasks) + 1, ch : Tick \cup {Nil}]

LEMMA TypeParts ==
    TypeOK <=>
        /\ running \in BOOLEAN /\ panicked \in BOOLEAN /\ careful \in BOOLEAN
        /\ registrations \in Seq(Tasks)
        /\ Len(registrations) <= Cardinality(Tasks)
        /\ array \in 0 .. Cardinality(Tasks)
        /\ mutex \in Callers \cup {NoCaller}
        /\ cells \in [Cell -> Places]
        /\ alive \subseteq Tick /\ fired \subseteq Tick /\ closed \subseteq Tick
        /\ ticking \in [Tick -> Routines]
        /\ busy \in [Tasks -> 0 .. MaxBusy]
        /\ call \in [Callers -> Uses]
        /\ calls \in 0 .. MaxCalls
BY DEF TypeOK, Places, PCs, Routines, Uses

LEMMA TypeNext ==
    ASSUME running' \in BOOLEAN, panicked' \in BOOLEAN, careful' \in BOOLEAN,
           registrations' \in Seq(Tasks),
           Len(registrations') <= Cardinality(Tasks),
           array' \in 0 .. Cardinality(Tasks),
           mutex' \in Callers \cup {NoCaller},
           cells' \in [Cell -> Places],
           alive' \subseteq Tick, fired' \subseteq Tick, closed' \subseteq Tick,
           ticking' \in [Tick -> Routines],
           busy' \in [Tasks -> 0 .. MaxBusy],
           call' \in [Callers -> Uses],
           calls' \in 0 .. MaxCalls
    PROVE  TypeOK'
BY DEF TypeOK, Places, PCs, Routines, Uses

\* A goroutine goes to another place in its code; only it does.
Moves(g, p) ==
    /\ ticking' \in [Tick -> Routines]
    /\ ticking'[g].pc = p
    /\ ticking'[g].cell = ticking[g].cell
    /\ p # "select" => ticking'[g].ctl = ticking[g].ctl
    /\ \A h \in Tick : h # g => ticking'[h] = ticking[h]

LEMMA MovesTo ==
    ASSUME TypeOK, NEW g \in Tick, NEW p \in PCs, ticking' = [ticking EXCEPT ![g].pc = p]
    PROVE  Moves(g, p)
<1>1. ticking \in [Tick -> Routines]
  BY DEF TypeOK, Routines, PCs
<1>2. ticking'[g] = [ticking[g] EXCEPT !.pc = p] /\ \A h \in Tick : h # g => ticking'[h] = ticking[h]
  BY <1>1
<1>3. ticking[g] \in Routines
  BY <1>1
<1>4. ticking'[g] \in Routines /\ ticking'[g].pc = p /\ ticking'[g].cell = ticking[g].cell /\ ticking'[g].ctl = ticking[g].ctl
  BY <1>2, <1>3 DEF Routines
<1>5. ticking' \in [Tick -> Routines]
  BY <1>1, <1>4
<1>6. QED
  BY <1>2, <1>4, <1>5 DEF Moves

LEMMA SelectMoves ==
    ASSUME TypeOK, NEW g \in Tick, ticking[g].cell \in Cell, Select(g)
    PROVE  Moves(g, "select") /\ ticking'[g].ctl = cells[ticking[g].cell].control
<1> DEFINE r == cells[ticking[g].cell]
<1>1. ticking \in [Tick -> Routines] /\ r \in Places
  BY DEF TypeOK, Routines, PCs, Places
<1>2. ticking'[g] = [ticking[g] EXCEPT !.pc = "select", !.tick = r.ticker, !.ctl = r.control]
      /\ \A h \in Tick : h # g => ticking'[h] = ticking[h]
  BY <1>1 DEF Select
<1>3. ticking[g] \in Routines /\ r.ticker \in Tick \cup {Nil} /\ r.control \in Tick \cup {Nil}
  BY <1>1 DEF Places
<1> HIDE DEF r
<1>4. ticking'[g] \in Routines /\ ticking'[g].pc = "select" /\ ticking'[g].cell = ticking[g].cell
      /\ ticking'[g].ctl = r.control
  BY <1>2, <1>3 DEF Routines, PCs
<1>5. ticking' = [ticking EXCEPT ![g] = ticking'[g]]
  BY <1>1, <1>2 DEF Select
<1>6. ticking' \in [Tick -> Routines]
  BY <1>1, <1>4, <1>5
<1>7. QED
  BY <1>2, <1>4, <1>6 DEF Moves, r

\* What a goroutine does is one move.
Pcs(g, p, q) == ticking[g].pc = p /\ Moves(g, q)

LEMMA TickMoves ==
    ASSUME TypeOK, TickInv, NEW g \in Tick
    PROVE  /\ Select(g) => Pcs(g, "loop", "select") /\ ticking'[g].ctl = cells[ticking[g].cell].control
           /\ ReceiveTick(g) => Pcs(g, "select", "loop")
           /\ \A c \in Callers : ReceiveStop(g, c) => Pcs(g, "select", "close")
           /\ Close(g) => Pcs(g, "close", "nilControl")
           /\ NilControl(g) => Pcs(g, "nilControl", "stopTicker")
           /\ StopTicker(g) => Pcs(g, "stopTicker", "nilTicker")
           /\ NilTicker(g) => Pcs(g, "nilTicker", "done")
<1>1. ticking[g].pc # "none" => ticking[g].cell \in Cell
  BY DEF TickInv, Pointing
<1>2. Select(g) => Pcs(g, "loop", "select") /\ ticking'[g].ctl = cells[ticking[g].cell].control
  <2>1. Select(g) => ticking[g].pc = "loop"
    BY DEF Select
  <2>2. QED
    BY <1>1, <2>1, SelectMoves DEF Pcs
<1>3. QED
  BY <1>2, MovesTo DEF Pcs, PCs, ReceiveTick, Loops, ReceiveStop, Close, NilControl, StopTicker, NilTicker

LEMMA AppendedIsAMap ==
    ASSUME NEW c \in Callers, NEW t \in Tasks, Register(c, t)
    PROVE  cells' = [d \in Cell |-> cells'[d]]
BY DEF Register, RegisteredTicking, Appended

LEMMA Advances ==
    ASSUME call \in [Callers -> Uses], NEW c \in Callers, Advance(c),
           call[c].i <= Cardinality(Tasks)
    PROVE  /\ call' \in [Callers -> Uses]
           /\ call'[c].op = call[c].op /\ call'[c].i = call[c].i + 1 /\ call'[c].ch = Nil
           /\ \A d \in Callers : d # c => call'[d] = call[d]
<1>1. call[c] \in Uses /\ Cardinality(Tasks) \in Nat /\ DOMAIN call = Callers
  BY Sizes
<1> DEFINE u == [call[c] EXCEPT !.i = call[c].i + 1]
           v == [u EXCEPT !.ch = Nil]
<1>2. call' = [call EXCEPT ![c] = v]
  BY <1>1 DEF Advance
<1>3. v.op = call[c].op /\ v.i = call[c].i + 1 /\ v.ch = Nil
  BY <1>1 DEF Uses
<1>0. call[c].i + 1 \in 0 .. Cardinality(Tasks) + 1
  BY <1>1 DEF Uses
<1>4. v \in Uses
  BY <1>0, <1>1 DEF Uses
<1> HIDE DEF u, v
<1>5. call' \in [Callers -> Uses] /\ call'[c] = v /\ \A d \in Callers : d # c => call'[d] = call[d]
  BY <1>1, <1>2, <1>4
<1>6. QED
  BY <1>3, <1>5

\* The call goes on to send, on the channel ch.
Sending(c, op, ch) == call' = [call EXCEPT ![c].op = op, ![c].ch = ch]

LEMMA Sends ==
    ASSUME call \in [Callers -> Uses], NEW c \in Callers, NEW op \in {"send", "sending"},
           NEW ch \in Tick \cup {Nil}, Sending(c, op, ch)
    PROVE  /\ call' \in [Callers -> Uses]
           /\ call'[c].op = op /\ call'[c].i = call[c].i /\ call'[c].ch = ch
           /\ \A d \in Callers : d # c => call'[d] = call[d]
<1>1. call[c] \in Uses /\ DOMAIN call = Callers
  OBVIOUS
<1> DEFINE u == [call[c] EXCEPT !.op = op]
           v == [u EXCEPT !.ch = ch]
<1>2. call' = [call EXCEPT ![c] = v]
  BY <1>1 DEF Sending
<1>3. v.op = op /\ v.i = call[c].i /\ v.ch = ch
  BY <1>1 DEF Uses
<1>4. v \in Uses
  BY <1>1 DEF Uses
<1> HIDE DEF u, v
<1>5. call' \in [Callers -> Uses] /\ call'[c] = v /\ \A d \in Callers : d # c => call'[d] = call[d]
  BY <1>1, <1>2, <1>4
<1>6. QED
  BY <1>3, <1>5

LEMMA TypeStep ==
    ASSUME TypeOK, SliceInv, CallInv, NamesInv, CellsInv, TickInv, [Next]_vars
    PROVE  TypeOK'
<1>0. /\ Nil \notin Tick
      /\ Cardinality(Tasks) \in Nat /\ MaxCalls \in Nat /\ MaxBusy \in Nat
      /\ Len(registrations) \in Nat
      /\ running \in BOOLEAN /\ panicked \in BOOLEAN /\ careful \in BOOLEAN
      /\ registrations \in Seq(Tasks)
      /\ Len(registrations) <= Cardinality(Tasks)
      /\ array \in 0 .. Cardinality(Tasks)
      /\ mutex \in Callers \cup {NoCaller}
      /\ cells \in [Cell -> Places]
      /\ alive \subseteq Tick /\ fired \subseteq Tick /\ closed \subseteq Tick
      /\ ticking \in [Tick -> Routines]
      /\ busy \in [Tasks -> 0 .. MaxBusy]
      /\ call \in [Callers -> Uses]
      /\ calls \in 0 .. MaxCalls
  BY NilAssumption, Sizes, SchedulerAssumption, TypeParts
<1>1. ASSUME NEW c \in Callers, NEW t \in Tasks, Register(c, t)
      PROVE  TypeOK'
  <2>1. /\ registrations' \in Seq(Tasks)
        /\ Len(registrations') <= Cardinality(Tasks)
        /\ array' \in 0 .. Cardinality(Tasks)
    BY <1>1, RegisterSlice
  <2>2. NextTick(t) \in Tick /\ t \notin Registered
    BY <1>1, FreshTick DEF Register
  <2>3. PICK reg : /\ reg = IF running THEN [control |-> NextTick(t), ticker |-> NextTick(t)] ELSE Bare
                   /\ DOMAIN cells' = Cell
                   /\ \A a \in 0 .. Cardinality(Tasks) : cells'[<<t, a>>] \in {reg, Bare}
                   /\ \A d \in Cell : d[1] # t => cells'[d] \in {cells[d], cells[<<d[1], array>>]}
    BY <1>1, RegisterCells
  <2>4. reg \in Places /\ Bare \in Places
    BY <2>2, <2>3 DEF Bare, Places
  <2>5. cells' \in [Cell -> Places]
    <3>1. ASSUME NEW d \in Cell PROVE cells'[d] \in Places
      <4>1. d[1] \in Tasks /\ d[2] \in 0 .. Cardinality(Tasks) /\ d = <<d[1], d[2]>>
        BY CellParts
      <4>2. <<d[1], array>> \in Cell
        BY <1>0, <4>1, CellIs
      <4>3. cells[d] \in Places /\ cells[<<d[1], array>>] \in Places
        BY <1>0, <4>2
      <4>4. CASE d[1] = t
        BY <2>3, <2>4, <4>1, <4>4
      <4>5. CASE d[1] # t
        BY <2>3, <4>3, <4>5
      <4>6. QED
        BY <4>4, <4>5
    <3>2. cells' = [d \in Cell |-> cells'[d]]
      BY <1>1, AppendedIsAMap
    <3>3. QED
      BY <3>1, <3>2
  <2>6. ticking' \in [Tick -> Routines] /\ alive' \subseteq Tick
    <3>1. Local(t) \in Cell
      BY <1>0, CellIs DEF Local
    <3>2. CASE running
      <4>1. [pc |-> "loop", cell |-> Local(t), tick |-> Nil, ctl |-> Nil] \in Routines
        BY <3>1 DEF Routines, PCs
      <4>2. QED
        BY <1>0, <1>1, <2>2, <3>2, <4>1 DEF Register, Go
    <3>3. CASE ~running
      BY <1>0, <1>1, <3>3 DEF Register
    <3>4. QED
      BY <3>2, <3>3
  <2>7. careful' \in BOOLEAN
    BY <1>0, <1>1 DEF Register
  <2>8. UNCHANGED <<running, mutex, call, calls, fired, closed, busy, panicked>>
    BY <1>1 DEF Register
  <2>9. QED
    BY <1>0, <2>1, <2>5, <2>6, <2>7, <2>8, TypeNext
<1>2. ASSUME NEW c \in Callers, NEW op \in {"start", "stop"}, Lock(c, op)
      PROVE  TypeOK'
  <2>1. [op |-> op, i |-> 1, ch |-> Nil] \in Uses
    BY <1>0 DEF Uses
  <2>2. call' \in [Callers -> Uses] /\ mutex' \in Callers \cup {NoCaller} /\ careful' \in BOOLEAN
    BY <1>0, <1>2, <2>1 DEF Lock
  <2>3. calls' \in 0 .. MaxCalls
    BY <1>0, <1>2 DEF Lock
  <2>4. UNCHANGED <<sliceVars, cells, ticking, panicked, runVars>>
    BY <1>2 DEF Lock
  <2>5. QED
    BY <1>0, <2>2, <2>3, <2>4, TypeNext DEF sliceVars, runVars
<1>3. ASSUME NEW c \in Callers, StartOne(c)
      PROVE  TypeOK'
  <2> DEFINE t == registrations[call[c].i]
  <2>0. call[c].i >= 1 /\ call[c].i <= Len(registrations)
    BY <1>3 DEF CallInv, Calling, StartOne
  <2>1. /\ t \in Tasks /\ <<t, array>> \in Cell
        /\ Awaits(t)
        /\ \/ /\ cells' = [cells EXCEPT ![<<t, array>>] =
                                  [control |-> NextTick(t), ticker |-> NextTick(t)]]
              /\ Go(t, <<t, array>>)
           \/ UNCHANGED <<cells, ticking, alive>>
    BY <1>3, <2>0, StartCells
  <2>2. NextTick(t) \in Tick
    BY <2>1, FreshTick
  <2>3. Advance(c)
    BY <1>3 DEF StartOne
  <2>4. call' \in [Callers -> Uses]
    <3>1. call[c].i <= Cardinality(Tasks)
      BY <1>0, <2>0 DEF Uses
    <3>2. QED
      BY <1>0, <2>3, <3>1, Advances
  <2>5. UNCHANGED <<sliceVars, mutex, calls, careful, panicked, fired, closed, busy>>
    BY <1>3 DEF StartOne
  <2> HIDE DEF t
  <2>6. /\ [control |-> NextTick(t), ticker |-> NextTick(t)] \in Places
        /\ [pc |-> "loop", cell |-> <<t, array>>, tick |-> Nil, ctl |-> Nil] \in Routines
    BY <2>1, <2>2 DEF Places, Routines, PCs
  <2>7. /\ cells' \in [Cell -> Places]
        /\ alive' \subseteq Tick
        /\ ticking' \in [Tick -> Routines]
    BY <1>0, <2>1, <2>2, <2>6, ZenonT(60) DEF Go
  <2>8. QED
    BY <1>0, <2>4, <2>5, <2>7, TypeNext DEF sliceVars
<1>4. ASSUME NEW c \in Callers, StopCheck(c)
      PROVE  TypeOK'
  <2> DEFINE e == Element(call[c].i)
  <2>0. call[c].i >= 1 /\ call[c].i <= Len(registrations)
    BY <1>4 DEF CallInv, Calling, StopCheck
  <2>1. e \in Cell
    BY <1>0, <2>0, Elements DEF Uses
  <2>2. cells[e].control \in Tick \cup {Nil}
    BY <1>0, <2>1 DEF Places
  <2>3. \/ Advance(c)
        \/ Sending(c, "send", cells[e].control)
    BY <1>4 DEF StopCheck, Sending
  <2> HIDE DEF e
  <2>4. call' \in [Callers -> Uses]
    <3>1. call[c].i <= Cardinality(Tasks)
      BY <1>0, <2>0 DEF Uses
    <3>2. QED
      BY <1>0, <2>2, <2>3, <3>1, Advances, Sends
  <2>5. UNCHANGED <<sliceVars, cells, ticking, panicked, mutex, calls, careful, runVars>>
    BY <1>4 DEF StopCheck
  <2>6. QED
    BY <1>0, <2>4, <2>5, TypeNext DEF sliceVars, runVars
<1>5. ASSUME NEW c \in Callers, StopSend(c)
      PROVE  TypeOK'
  <2> DEFINE e == Element(call[c].i)
  <2>0. call[c].i >= 1 /\ call[c].i <= Len(registrations)
    BY <1>5 DEF CallInv, Calling, StopSend
  <2>1. e \in Cell
    BY <1>0, <2>0, Elements DEF Uses
  <2>2. cells[e].control \in Tick \cup {Nil} /\ call[c].ch \in Tick \cup {Nil}
    BY <1>0, <2>1 DEF Places, Uses
  <2>3. PICK ch \in {call[c].ch, cells[e].control} :
            Sending(c, "sending", ch) /\ panicked' = (ch \in closed)
    BY <1>5 DEF StopSend, Sending
  <2> HIDE DEF e
  <2>4. call' \in [Callers -> Uses]
    BY <1>0, <2>2, <2>3, Sends
  <2>5. UNCHANGED <<sliceVars, cells, ticking, mutex, calls, careful, runVars>>
    BY <1>5 DEF StopSend
  <2>6. panicked' \in BOOLEAN
    BY <2>3
  <2>7. QED
    BY <1>0, <2>4, <2>5, <2>6, TypeNext DEF sliceVars, runVars
<1>6. ASSUME NEW c \in Callers, Unlock(c)
      PROVE  TypeOK'
  <2>1. Idle \in Uses
    BY <1>0 DEF Idle, Uses
  <2>2. call' \in [Callers -> Uses] /\ running' \in BOOLEAN
    BY <1>0, <1>6, <2>1 DEF Unlock
  <2>3. mutex' = NoCaller /\ UNCHANGED <<registrations, array, cells, ticking, panicked, calls, careful, runVars>>
    BY <1>6 DEF Unlock
  <2>4. QED
    BY <1>0, <2>2, <2>3, TypeNext DEF runVars
<1>7. ASSUME NEW g \in Tick, NEW c \in Callers, ReceiveStop(g, c)
      PROVE  TypeOK'
  <2>0. call[c].i <= Len(registrations)
    BY <1>7 DEF CallInv, Calling, ReceiveStop
  <2>1. [op |-> "stop", i |-> call[c].i + 1, ch |-> Nil] \in Uses
    BY <1>0, <2>0 DEF Uses
  <2>2. call' = [call EXCEPT ![c] = [op |-> "stop", i |-> call[c].i + 1, ch |-> Nil]]
    BY <1>7 DEF ReceiveStop
  <2>3. call' \in [Callers -> Uses]
    BY <1>0, <2>1, <2>2
  <2>4. ticking' \in [Tick -> Routines]
    BY <1>7, TickMoves DEF Pcs, Moves
  <2>5. UNCHANGED <<sliceVars, cells, panicked, mutex, calls, careful, runVars>>
    BY <1>7 DEF ReceiveStop
  <2>6. QED
    BY <1>0, <2>3, <2>4, <2>5, TypeNext DEF sliceVars, runVars
<1>8. ASSUME NEW g \in Tick, ticking[g].pc # "none",
             \/ Select(g) \/ ReceiveTick(g) \/ Close(g) \/ NilControl(g)
             \/ StopTicker(g) \/ NilTicker(g)
      PROVE  TypeOK'
  <2> DEFINE e == ticking[g].cell
  <2>0. e \in Cell /\ g[1] \in Tasks
    BY <1>8, TickParts DEF TickInv, Pointing
  <2>1. ticking' \in [Tick -> Routines]
    BY <1>8, TickMoves DEF Pcs, Moves
  <2>2. cells[e] \in Places
    BY <1>0, <2>0
  <2> HIDE DEF e
  <2>3. CASE Select(g)
    BY <1>0, <2>1, <2>3, TypeNext DEF Select, sliceVars, userVars, runVars
  <2>4. CASE ReceiveTick(g)
    <3>1. busy' \in [Tasks -> 0 .. MaxBusy] /\ fired' \subseteq Tick
      BY <1>0, <2>0, <2>4 DEF ReceiveTick
    <3>2. QED
      BY <1>0, <2>1, <2>4, <3>1, TypeNext DEF ReceiveTick, sliceVars, userVars
  <2>5. CASE Close(g)
    <3>1. closed' \subseteq Tick /\ panicked' \in BOOLEAN
      BY <1>0, <2>2, <2>5 DEF Close, Places, e
    <3>2. QED
      BY <1>0, <2>1, <2>5, <3>1, TypeNext DEF Close, sliceVars, userVars
  <2>6. CASE NilControl(g)
    <3>1. cells' = [cells EXCEPT ![e].control = Nil]
      BY <2>6 DEF NilControl, ForgetControl, e
    <3>2. cells' \in [Cell -> Places]
      BY <1>0, <2>0, <2>2, <3>1 DEF Places
    <3>3. QED
      BY <1>0, <2>1, <2>6, <3>2, TypeNext DEF NilControl, sliceVars, userVars, runVars
  <2>7. CASE StopTicker(g)
    <3>1. alive' \subseteq Tick /\ panicked' \in BOOLEAN
      BY <1>0, <2>7 DEF StopTicker
    <3>2. QED
      BY <1>0, <2>1, <2>7, <3>1, TypeNext DEF StopTicker, sliceVars, userVars
  <2>8. CASE NilTicker(g)
    <3>1. cells' = [cells EXCEPT ![e].ticker = Nil]
      BY <2>8 DEF NilTicker, e
    <3>2. cells' \in [Cell -> Places]
      BY <1>0, <2>0, <2>2, <3>1 DEF Places
    <3>3. QED
      BY <1>0, <2>1, <2>8, <3>2, TypeNext DEF NilTicker, sliceVars, userVars, runVars
  <2>9. QED
    BY <1>8, <2>3, <2>4, <2>5, <2>6, <2>7, <2>8
<1>9. ASSUME NEW g \in Tick, Fire(g)
      PROVE  TypeOK'
  BY <1>0, <1>9, TypeNext DEF Fire, sliceVars, userVars
<1>10. ASSUME NEW t \in Tasks, RunEnds(t)
       PROVE  TypeOK'
  <2>1. busy' \in [Tasks -> 0 .. MaxBusy]
    BY <1>0, <1>10 DEF RunEnds
  <2>2. QED
    BY <1>0, <1>10, <2>1, TypeNext DEF RunEnds, sliceVars, userVars
<1>11. CASE UNCHANGED vars
  BY <1>0, <1>11, TypeNext DEF vars, sliceVars, userVars, runVars
<1>12. \A g \in Tick : \/ Select(g) \/ ReceiveTick(g) \/ Close(g) \/ NilControl(g)
                       \/ StopTicker(g) \/ NilTicker(g)
                       => ticking[g].pc # "none"
  BY DEF Select, ReceiveTick, Close, NilControl, StopTicker, NilTicker
<1>13. QED
  BY NextCases, <1>1, <1>2, <1>3, <1>4, <1>5, <1>6, <1>7, <1>8, <1>9, <1>10, <1>11, <1>12

-----------------------------------------------------------------------------
(* The slice, the calls, the names and the memory.                         *)

LEMMA SliceStep ==
    ASSUME TypeOK, SliceInv, [Next]_vars
    PROVE  SliceInv'
<1>1. ASSUME NEW c \in Callers, NEW t \in Tasks, Register(c, t)
      PROVE  SliceInv'
  <2>1. /\ Len(registrations') = Len(registrations) + 1
        /\ \A i \in 1 .. Len(registrations) : registrations'[i] = registrations[i]
        /\ registrations'[Len(registrations) + 1] = t
        /\ t \notin Registered
        /\ Cardinality(Registered') = Len(registrations')
        /\ array' <= Len(registrations')
    BY <1>1, RegisterSlice
  <2>2. \A i \in 1 .. Len(registrations) : registrations[i] # t
    BY <2>1 DEF Registered
  <2>3. Len(registrations) \in Nat
    BY DEF TypeOK
  <2>4. \A i, j \in 1 .. Len(registrations') : registrations'[i] = registrations'[j] => i = j
    <3> TAKE i, j \in 1 .. Len(registrations')
    <3>1. i \in 1 .. Len(registrations) \/ i = Len(registrations) + 1
      BY <2>1, <2>3
    <3>2. j \in 1 .. Len(registrations) \/ j = Len(registrations) + 1
      BY <2>1, <2>3
    <3>3. QED
      BY <2>1, <2>2, <3>1, <3>2 DEF SliceInv
  <2>5. QED
    BY <2>1, <2>4 DEF SliceInv
<1>2. CASE UNCHANGED <<registrations, array>>
  BY <1>2 DEF SliceInv, Registered
<1>3. \/ \E c \in Callers, t \in Tasks : Register(c, t)
      \/ UNCHANGED <<registrations, array>>
  BY NextCases DEF Lock, StartOne, StopCheck, StopSend, Unlock, Select, ReceiveTick, ReceiveStop,
     Close, NilControl, StopTicker, NilTicker, Fire, RunEnds, vars, sliceVars
<1>4. QED
  BY <1>1, <1>2, <1>3

LEMMA OthersIdle ==
    ASSUME CallInv, NEW c \in Callers, mutex \in {c, NoCaller}
    PROVE  \A d \in Callers : d # c => call[d] = Idle
BY SchedulerAssumption DEF CallInv, Calling

\* A caller that is idle is as it should be, whoever else has the mutex.
LEMMA IdleIsCalling ==
    ASSUME NEW d \in Callers, call'[d] = Idle, mutex' # d
    PROVE  Calling(d)'
<1>1. call'[d].op = "idle"
  BY DEF Idle
<1>2. QED
  BY <1>1 DEF Calling, StopOps

LEMMA CallStep ==
    ASSUME TypeOK, SliceInv, CallInv, CellsInv, TickInv, [Next]_vars
    PROVE  CallInv'
<1>0. /\ call \in [Callers -> Uses] /\ NoCaller \notin Callers
      /\ Len(registrations) \in Nat /\ Nil \notin Tick
  BY TypeParts, SchedulerAssumption, NilAssumption
<1>1. ASSUME NEW c \in Callers, NEW t \in Tasks, Register(c, t)
      PROVE  CallInv'
  <2>1. mutex = NoCaller /\ mutex' = NoCaller /\ call' = call /\ call[c] = Idle
    BY <1>1 DEF Register
  <2>2. \A d \in Callers : call'[d] = Idle /\ mutex' # d
    BY <1>0, <2>1, OthersIdle
  <2>3. QED
    BY <2>2, IdleIsCalling DEF CallInv
<1>2. ASSUME NEW c \in Callers, NEW op \in {"start", "stop"}, Lock(c, op)
      PROVE  CallInv'
  <2>1. mutex = NoCaller /\ call[c] = Idle /\ UNCHANGED <<registrations, running>>
    BY <1>2 DEF Lock, sliceVars
  <2>2. \A d \in Callers : d # c => call[d] = Idle
    BY <2>1, OthersIdle
  <2>3. CASE running = (op = "start")
    <3>1. mutex' = NoCaller /\ call' = call
      BY <1>2, <2>1, <2>3 DEF Lock
    <3>2. QED
      BY <1>0, <2>1, <2>2, <3>1, IdleIsCalling DEF CallInv
  <2>4. CASE running # (op = "start")
    <3>1. mutex' = c /\ call' = [call EXCEPT ![c] = [op |-> op, i |-> 1, ch |-> Nil]]
      BY <1>2, <2>4 DEF Lock
    <3>2. call'[c].op = op /\ call'[c].i = 1 /\ \A d \in Callers : d # c => call'[d] = Idle
      BY <1>0, <2>2, <3>1
    <3>3. (op = "start" => ~running) /\ (op = "stop" => running)
      BY <2>4 DEF TypeOK
    <3>4. Calling(c)'
      BY <1>0, <2>1, <3>1, <3>2, <3>3 DEF Calling, StopOps
    <3>5. \A d \in Callers : d # c => Calling(d)'
      BY <3>1, <3>2, IdleIsCalling
    <3>6. QED
      BY <3>4, <3>5 DEF CallInv
  <2>5. QED
    BY <2>3, <2>4
<1>3. ASSUME NEW c \in Callers, StartOne(c) \/ StopCheck(c) \/ StopSend(c)
      PROVE  CallInv'
  <2> DEFINE i == call[c].i
             e == Element(i)
  <2>1. /\ call[c].op # "idle" /\ call[c].op \in {"start"} \cup StopOps
        /\ UNCHANGED <<mutex, registrations, running>>
    BY <1>3 DEF StartOne, StopCheck, StopSend, sliceVars, StopOps
  <2>2. mutex = c /\ \A d \in Callers : d # c => call[d] = Idle
    BY <2>1, OthersIdle DEF CallInv, Calling
  <2>3. i \in 1 .. Len(registrations)
    BY <1>0, <1>3 DEF CallInv, Calling, StartOne, StopCheck, StopSend, Uses
  <2>4. e \in Cell /\ e[1] = registrations[i]
    BY <2>3, Elements
  <2>5. cells[e].control \in Tick \cup {Nil}
    BY <2>4 DEF TypeOK
  <2>6. cells[e].control # Nil => cells[e].control[1] = registrations[i]
    BY <2>4 DEF CellsInv
  <2>7. (call[c].op = "start" => ~running) /\ (call[c].op \in StopOps => running)
    BY DEF CallInv, Calling
  <2>8. \/ Advance(c) /\ call[c].op \in {"start", "stop"}
        \/ Sending(c, "send", cells[e].control) /\ call[c].op = "stop"
        \/ /\ call[c].op = "send"
           /\ \E ch \in {call[c].ch, cells[e].control} : Sending(c, "sending", ch)
    BY <1>3 DEF StartOne, StopCheck, StopSend, Sending
  <2>9. call[c].op = "send" /\ call[c].ch # Nil => call[c].ch[1] = registrations[i]
    BY DEF CallInv, Calling
  <2>10. call[c].ch \in Tick \cup {Nil}
    BY <1>0 DEF Uses
  <2> HIDE DEF e
  <2>11. CASE Advance(c) /\ call[c].op \in {"start", "stop"}
    <3>1. i <= Cardinality(Tasks)
      BY <2>3, Sizes DEF TypeOK
    <3>2. /\ call'[c].op = call[c].op /\ call'[c].i = i + 1
          /\ \A d \in Callers : d # c => call'[d] = call[d]
      BY <1>0, <2>11, <3>1, Advances
    <3>3. Calling(c)'
      <4> HIDE DEF i
      <4>1. i + 1 >= 1 /\ i + 1 <= Len(registrations) + 1
        BY <1>0, <2>3
      <4>2. QED
        BY <2>1, <2>2, <2>7, <2>11, <3>2, <4>1 DEF Calling, StopOps
    <3>4. \A d \in Callers : d # c => Calling(d)'
      BY <2>1, <2>2, <3>2, IdleIsCalling
    <3>5. QED
      BY <3>3, <3>4 DEF CallInv
  <2>12. ASSUME NEW op \in {"send", "sending"}, NEW ch \in Tick \cup {Nil},
                Sending(c, op, ch), call[c].op \in StopOps,
                ch # Nil => ch[1] = registrations[i]
         PROVE  CallInv'
    <3>2. /\ call'[c].op = op /\ call'[c].i = i /\ call'[c].ch = ch
          /\ \A d \in Callers : d # c => call'[d] = call[d]
      BY <1>0, <2>12, Sends
    <3>3. Calling(c)'
      <4> HIDE DEF i
      <4>1. i >= 1 /\ i <= Len(registrations) /\ i <= Len(registrations) + 1
        BY <1>0, <2>3
      <4>2. QED
        BY <2>1, <2>2, <2>7, <2>12, <3>2, <4>1 DEF Calling, StopOps
    <3>4. \A d \in Callers : d # c => Calling(d)'
      BY <2>1, <2>2, <3>2, IdleIsCalling
    <3>5. QED
      BY <3>3, <3>4 DEF CallInv
  <2>13. QED
    BY <2>5, <2>6, <2>8, <2>9, <2>10, <2>11, <2>12 DEF StopOps
<1>4. ASSUME NEW c \in Callers, Unlock(c)
      PROVE  CallInv'
  <2>1. mutex = c /\ mutex' = NoCaller /\ call' = [call EXCEPT ![c] = Idle]
    BY <1>4 DEF Unlock, CallInv, Calling
  <2>2. \A d \in Callers : call'[d] = Idle /\ mutex' # d
    BY <1>0, <2>1, OthersIdle
  <2>3. QED
    BY <2>2, IdleIsCalling DEF CallInv
<1>5. ASSUME NEW g \in Tick, NEW c \in Callers, ReceiveStop(g, c)
      PROVE  CallInv'
  <2>1. /\ call[c].op = "sending" /\ UNCHANGED <<mutex, registrations, running>>
        /\ call' = [call EXCEPT ![c] = [op |-> "stop", i |-> call[c].i + 1, ch |-> Nil]]
    BY <1>5 DEF ReceiveStop, sliceVars
  <2>2. mutex = c /\ running /\ call[c].i >= 1 /\ call[c].i <= Len(registrations)
    BY <2>1 DEF CallInv, Calling, StopOps
  <2>3. /\ call'[c].op = "stop" /\ call'[c].i = call[c].i + 1
        /\ \A d \in Callers : d # c => call'[d] = Idle
    BY <1>0, <2>1, <2>2, OthersIdle
  <2>4. call[c].i + 1 >= 1 /\ call[c].i + 1 <= Len(registrations) + 1
    BY <1>0, <2>2 DEF Uses
  <2>5. Calling(c)'
    BY <2>1, <2>2, <2>3, <2>4 DEF Calling, StopOps
  <2>6. \A d \in Callers : d # c => Calling(d)'
    BY <2>1, <2>2, <2>3, IdleIsCalling
  <2>7. QED
    BY <2>5, <2>6 DEF CallInv
<1>6. CASE UNCHANGED <<call, mutex, running, registrations>>
  BY <1>6 DEF CallInv, Calling
<1>7. \/ \E c \in Callers, t \in Tasks : Register(c, t)
      \/ \E c \in Callers : Lock(c, "start") \/ Lock(c, "stop")
      \/ \E c \in Callers : StartOne(c) \/ StopCheck(c) \/ StopSend(c)
      \/ \E c \in Callers : Unlock(c)
      \/ \E g \in Tick, c \in Callers : ReceiveStop(g, c)
      \/ UNCHANGED <<call, mutex, running, registrations>>
  BY NextCases DEF Select, ReceiveTick, Close, NilControl, StopTicker, NilTicker, Fire, RunEnds,
     vars, sliceVars, userVars
<1>8. QED
  BY <1>1, <1>2, <1>3, <1>4, <1>5, <1>6, <1>7

\* A goroutine that has been made is not unmade.
LEMMA NamesKept ==
    ASSUME TypeOK, TickInv, NEW g \in Tick,
           \/ Select(g) \/ ReceiveTick(g) \/ (\E c \in Callers : ReceiveStop(g, c)) \/ Close(g)
           \/ NilControl(g) \/ StopTicker(g) \/ NilTicker(g)
    PROVE  \A h \in Tick : ticking'[h].pc # "none" <=> ticking[h].pc # "none"
BY TickMoves DEF Pcs, Moves

LEMMA NamesStep ==
    ASSUME TypeOK, SliceInv, CallInv, NamesInv, TickInv, [Next]_vars
    PROVE  NamesInv'
<1>0. /\ call \in [Callers -> Uses] /\ NoCaller \notin Callers
      /\ Len(registrations) \in Nat /\ calls \in Nat /\ calls <= MaxCalls /\ MaxCalls \in Nat
  BY TypeParts, SchedulerAssumption
<1>1. ASSUME \A g \in Tick : ticking'[g].pc # "none" <=> ticking[g].pc # "none",
             \A t \in Tasks : Awaits(t)' => Awaits(t) \/ calls' = calls + 1,
             calls' \in {calls, calls + 1},
             Registered' = Registered
      PROVE  NamesInv'
  <2> SUFFICES ASSUME NEW t \in Tasks PROVE \E k \in 0 .. calls' + 1 : Used(t, k)'
    BY DEF NamesInv
  <2>1. PICK k \in 0 .. calls + 1 : Used(t, k)
    BY DEF NamesInv
  <2>2. k \in 0 .. calls' + 1
    <3>1. calls' = calls \/ calls' = calls + 1
      BY <1>1
    <3>2. calls \in Nat
      BY <1>0
    <3>3. k \in 0 .. calls + 1
      OBVIOUS
    <3>4. CASE calls' = calls
      BY <3>3, <3>4
    <3>5. CASE calls' = calls + 1
      BY <3>2, <3>3, <3>5
    <3>6. QED
      BY <3>1, <3>4, <3>5
  <2>3. \A n \in 1 .. MaxCalls + 1 : ticking'[<<t, n>>].pc # "none" <=> n <= k
    BY <1>1, <2>1, TickIs DEF Used
  <2>4. Awaits(t)' => k <= calls'
    BY <1>0, <1>1, <2>1 DEF Used
  <2>5. Used(t, k)'
    BY <1>1, <2>1, <2>3, <2>4 DEF Used
  <2>6. QED
    BY <2>2, <2>5
<1>2. ASSUME NEW c \in Callers, NEW t \in Tasks, Register(c, t)
      PROVE  NamesInv'
  <2>1. /\ Registered' = Registered \cup {t} /\ t \notin Registered
        /\ mutex = NoCaller /\ call' = call /\ call[c] = Idle /\ calls' = calls
    BY <1>2, RegisterSlice DEF Register
  <2>2. \A d \in Callers : call'[d].op = "idle"
    BY <1>0, <2>1, OthersIdle DEF Idle
  <2>3. \A u \in Tasks : ~Awaits(u)'
    BY <2>2 DEF Awaits
  <2>4. PICK k \in 0 .. calls : NextTick(t) = <<t, k + 1>> /\ Used(t, k)
    BY <2>1, FreshTick
  <2>5. k = 0
    BY <2>1, <2>4 DEF Used
  <2>6. \/ running /\ Go(t, Local(t))
        \/ ~running /\ ticking' = ticking
    BY <1>2 DEF Register
  <2>7. ASSUME NEW u \in Tasks, u # t
        PROVE  \E m \in 0 .. calls' + 1 : Used(u, m)'
    <3>1. PICK m \in 0 .. calls + 1 : Used(u, m)
      BY DEF NamesInv
    <3>2. \A n \in 1 .. MaxCalls + 1 : ticking'[<<u, n>>] = ticking[<<u, n>>]
      <4>1. CASE ~running /\ ticking' = ticking
        BY <4>1
      <4>2. CASE Go(t, Local(t))
        <5>1. \A g \in Tick : g # NextTick(t) => ticking'[g] = ticking[g]
          BY <2>1, <4>2, GoIsBorn DEF Born
        <5>2. QED
          BY <2>4, <2>7, <5>1, TickIs
      <4>3. QED
        BY <2>6, <4>1, <4>2
    <3>3. Used(u, m)'
      BY <2>1, <2>3, <3>1, <3>2 DEF Used
    <3>4. QED
      BY <2>1, <3>1, <3>3
  <2>8. \E m \in 0 .. calls' + 1 : Used(t, m)'
    <3>1. CASE ~running /\ ticking' = ticking
      <4>1. Used(t, 0)'
        BY <2>1, <2>3, <2>4, <2>5, <3>1 DEF Used
      <4>2. QED
        BY <1>0, <2>1, <4>1
    <3>2. CASE Go(t, Local(t))
      <4>1. Born(NextTick(t), Local(t))
        BY <2>1, <3>2, GoIsBorn
      <4>2. NextTick(t) = <<t, 1>>
        BY <2>4, <2>5
      <4>3. \A n \in 1 .. MaxCalls + 1 : ticking'[<<t, n>>].pc # "none" <=> n <= 1
        <5> TAKE n \in 1 .. MaxCalls + 1
        <5>1. <<t, n>> \in Tick /\ (n # 1 => <<t, n>> # <<t, 1>>)
          BY TickIs
        <5>2. ticking[<<t, n>>].pc # "none" <=> n <= 0
          BY <2>4, <2>5 DEF Used
        <5>3. CASE n = 1
          BY <4>1, <4>2, <5>3 DEF Born
        <5>4. CASE n # 1
          BY <4>1, <4>2, <5>1, <5>2, <5>4 DEF Born
        <5>5. QED
          BY <5>3, <5>4
      <4>4. Used(t, 1)'
        BY <2>1, <2>3, <4>3 DEF Used
      <4>5. QED
        BY <1>0, <2>1, <4>4
    <3>3. QED
      BY <2>6, <3>1, <3>2
  <2>9. QED
    BY <2>7, <2>8 DEF NamesInv
<1>3. ASSUME NEW c \in Callers, StartOne(c)
      PROVE  NamesInv'
  <2> DEFINE i == call[c].i
  <2>1. /\ call[c].op = "start" /\ i >= 1 /\ i \in 1 .. Len(registrations) /\ mutex = c
        /\ UNCHANGED <<registrations, calls>>
    BY <1>0, <1>3 DEF CallInv, Calling, StartOne, sliceVars, Uses
  <2>2. i <= Cardinality(Tasks)
    BY <2>1, Sizes DEF TypeOK
  <2>0. PICK t \in Tasks : t = registrations[i]
    BY <2>1, Elements
  <2>3. /\ call'[c].op = "start" /\ call'[c].i = i + 1
        /\ \A d \in Callers : d # c => call'[d] = call[d]
    BY <1>0, <1>3, <2>1, <2>2, Advances DEF StartOne
  <2>4. \A d \in Callers : d # c => call[d].op = "idle"
    BY <2>1, OthersIdle DEF Idle
  <2>5. \A u \in Tasks : Awaits(u)' => Awaits(u) /\ u # t
    <3> TAKE u \in Tasks
    <3> HAVE Awaits(u)'
    <3>1. PICK j \in i + 1 .. Len(registrations) : registrations[j] = u
      BY <2>1, <2>3, <2>4 DEF Awaits
    <3>2. j \in i .. Len(registrations) /\ j \in 1 .. Len(registrations) /\ j # i
      BY <1>0, <2>1, <3>1
    <3>3. Awaits(u)
      BY <2>1, <3>1, <3>2 DEF Awaits
    <3>4. u # t
      BY <2>0, <2>1, <3>1, <3>2 DEF SliceInv
    <3>5. QED
      BY <3>3, <3>4
  <2>6. t \in Tasks /\ t \in Registered /\ Awaits(t)
        /\ (Go(t, <<t, array>>) \/ UNCHANGED ticking)
    BY <1>3, <2>0, <2>1, StartCells
  <2>7. Registered' = Registered
    BY <2>1 DEF Registered
  <2>8. CASE UNCHANGED ticking
    BY <1>1, <2>1, <2>5, <2>7, <2>8
  <2>9. CASE Go(t, <<t, array>>)
    <3>1. PICK k \in 0 .. calls : NextTick(t) = <<t, k + 1>> /\ Used(t, k)
      BY <2>6, FreshTick
    <3>2. Born(<<t, k + 1>>, <<t, array>>)
      BY <2>6, <2>9, <3>1, GoIsBorn
    <3>3. ASSUME NEW u \in Tasks, u # t
          PROVE  \E m \in 0 .. calls' + 1 : Used(u, m)'
      <4>1. PICK m \in 0 .. calls + 1 : Used(u, m)
        BY DEF NamesInv
      <4>2. \A n \in 1 .. MaxCalls + 1 : ticking'[<<u, n>>] = ticking[<<u, n>>]
        BY <3>2, <3>3, TickIs DEF Born
      <4>3. Used(u, m)'
        BY <2>1, <2>5, <2>7, <4>1, <4>2 DEF Used
      <4>4. QED
        BY <2>1, <4>1, <4>3
    <3>4. \A n \in 1 .. MaxCalls + 1 : ticking'[<<t, n>>].pc # "none" <=> n <= k + 1
      <4> TAKE n \in 1 .. MaxCalls + 1
      <4>1. <<t, n>> \in Tick /\ (n # k + 1 => <<t, n>> # <<t, k + 1>>)
        BY <2>6, TickIs
      <4>2. ticking[<<t, n>>].pc # "none" <=> n <= k
        BY <3>1 DEF Used
      <4>3. CASE n = k + 1
        BY <3>2, <4>3 DEF Born
      <4>4. CASE n # k + 1
        BY <3>2, <4>1, <4>2, <4>4 DEF Born
      <4>5. QED
        BY <4>3, <4>4
    <3>5. Used(t, k + 1)'
      BY <2>5, <2>6, <2>7, <3>4 DEF Used
    <3>6. k + 1 \in 0 .. calls' + 1
      BY <1>0, <2>1
    <3>7. QED
      BY <3>3, <3>5, <3>6 DEF NamesInv
  <2>10. QED
    BY <2>6, <2>8, <2>9
<1>4. ASSUME NEW c \in Callers, Lock(c, "start") \/ Lock(c, "stop")
      PROVE  NamesInv'
  <2>1. calls' = calls + 1 /\ UNCHANGED <<registrations, ticking>>
    BY <1>4 DEF Lock, sliceVars
  <2>2. QED
    BY <1>1, <2>1 DEF Registered
<1>5. ASSUME NEW c \in Callers,
             \/ StopCheck(c) \/ StopSend(c) \/ Unlock(c) \/ \E g \in Tick : ReceiveStop(g, c)
      PROVE  NamesInv'
  <2>1. /\ call'[c].op # "start" /\ \A d \in Callers : d # c => call'[d] = call[d]
        /\ UNCHANGED <<registrations, calls>>
    <3>1. CASE StopCheck(c)
      <4>1. call' = [call EXCEPT ![c].i = @ + 1, ![c].ch = Nil]
            \/ \E ch : call' = [call EXCEPT ![c].op = "send", ![c].ch = ch]
        BY <3>1 DEF StopCheck, Advance
      <4>2. call[c].op = "stop" /\ UNCHANGED <<registrations, calls>>
        BY <3>1 DEF StopCheck, sliceVars
      <4>3. QED
        BY <1>0, <4>1, <4>2 DEF Uses
    <3>2. CASE StopSend(c)
      <4>1. \E ch : call' = [call EXCEPT ![c].op = "sending", ![c].ch = ch]
        BY <3>2 DEF StopSend
      <4>2. UNCHANGED <<registrations, calls>>
        BY <3>2 DEF StopSend, sliceVars
      <4>3. QED
        BY <1>0, <4>1, <4>2 DEF Uses
    <3>3. CASE Unlock(c)
      BY <1>0, <3>3 DEF Unlock, Idle
    <3>4. CASE \E g \in Tick : ReceiveStop(g, c)
      BY <1>0, <3>4 DEF ReceiveStop, sliceVars
    <3>5. QED
      BY <1>5, <3>1, <3>2, <3>3, <3>4
  <2>2. \A t \in Tasks : Awaits(t)' => Awaits(t)
    BY <2>1 DEF Awaits
  <2>3. \A g \in Tick : ticking'[g].pc # "none" <=> ticking[g].pc # "none"
    BY <1>5, NamesKept DEF StopCheck, StopSend, Unlock
  <2>4. QED
    BY <1>1, <2>1, <2>2, <2>3 DEF Registered
<1>6. ASSUME UNCHANGED <<registrations, calls, call>>,
             \A g \in Tick : ticking'[g].pc # "none" <=> ticking[g].pc # "none"
      PROVE  NamesInv'
  BY <1>1, <1>6 DEF Awaits, Registered
<1>7. \A g \in Tick :
          \/ Select(g) \/ ReceiveTick(g) \/ Close(g) \/ NilControl(g) \/ StopTicker(g) \/ NilTicker(g)
          => /\ UNCHANGED <<registrations, calls, call>>
             /\ \A h \in Tick : ticking'[h].pc # "none" <=> ticking[h].pc # "none"
  <2> TAKE g \in Tick
  <2> HAVE \/ Select(g) \/ ReceiveTick(g) \/ Close(g) \/ NilControl(g) \/ StopTicker(g) \/ NilTicker(g)
  <2>1. UNCHANGED <<registrations, calls, call>>
    BY DEF Select, ReceiveTick, Close, NilControl, StopTicker, NilTicker, sliceVars, userVars
  <2>2. QED
    BY <2>1, NamesKept
<1>8. \/ \E g \in Tick : Fire(g)
      \/ \E t \in Tasks : RunEnds(t)
      \/ UNCHANGED vars
      => UNCHANGED <<registrations, calls, call, ticking>>
  BY DEF Fire, RunEnds, vars, sliceVars, userVars
<1>9. QED
  BY NextCases, <1>2, <1>3, <1>4, <1>5, <1>6, <1>7, <1>8

LEMMA StartIs ==
    ASSUME TypeOK, CallInv, NamesInv, NEW c \in Callers, StartOne(c)
    PROVE  \E t \in Tasks :
               /\ call[c].i \in 1 .. Len(registrations)
               /\ t = registrations[call[c].i]
               /\ t \in Registered
               /\ <<t, array>> \in Cell
               /\ UNCHANGED <<registrations, array, running, mutex, closed, careful, panicked>>
               /\ \/ /\ cells[<<t, array>>].control = Nil
                     /\ cells' = [cells EXCEPT ![<<t, array>>] =
                                      [control |-> NextTick(t), ticker |-> NextTick(t)]]
                     /\ Born(NextTick(t), <<t, array>>)
                     /\ NextTick(t)[1] = t /\ NextTick(t) # Nil
                  \/ /\ cells[<<t, array>>].control # Nil
                     /\ UNCHANGED <<cells, ticking>>
<1>1. call[c].i >= 1 /\ call[c].i \in 1 .. Len(registrations)
  <2>1. call[c].i \in Int
    BY DEF TypeOK
  <2>2. QED
    BY <2>1 DEF CallInv, Calling, StartOne
<1>2. PICK t \in Tasks : t = registrations[call[c].i]
  BY <1>1, Elements
<1>3. /\ t \in Registered /\ <<t, array>> \in Cell
      /\ Awaits(t)
      /\ \/ /\ cells[<<t, array>>].control = Nil
            /\ cells' = [cells EXCEPT ![<<t, array>>] =
                             [control |-> NextTick(t), ticker |-> NextTick(t)]]
            /\ Go(t, <<t, array>>)
         \/ /\ cells[<<t, array>>].control # Nil
            /\ UNCHANGED <<cells, ticking, alive>>
  BY <1>1, <1>2, StartCells
<1>4. NextTick(t)[1] = t /\ NextTick(t) # Nil /\ (Go(t, <<t, array>>) => Born(NextTick(t), <<t, array>>))
  BY <1>3, FreshTick, GoIsBorn
<1>5. UNCHANGED <<registrations, array, running, mutex, closed, careful, panicked>>
  BY DEF StartOne, sliceVars
<1>6. QED
  BY <1>1, <1>2, <1>3, <1>4, <1>5

\* Close closes the channel of its goroutine, the others do not touch channels.
LEMMA CloseIs ==
    ASSUME TickInv, NEW g \in Tick, Close(g)
    PROVE  /\ cells[ticking[g].cell].control = g
           /\ closed' = closed \cup {g}
           /\ panicked' = (\E c \in Callers : call[c].op = "sending" /\ call[c].ch = g)
<1>1. ticking[g].pc = "close"
  BY DEF Close
<1>2. cells[ticking[g].cell].control = g /\ g \notin closed
  BY <1>1 DEF TickInv, Pointing, Holding
<1>3. g # Nil
  BY NilAssumption
<1>4. QED
  BY <1>2, <1>3 DEF Close

\* What a goroutine writes in memory, at the place it points to.
LEMMA NilWrites ==
    ASSUME TypeOK, TickInv, NEW g \in Tick
    PROVE  /\ NilControl(g) =>
                  /\ ticking[g].cell \in Cell /\ ticking[g].cell[1] = g[1] /\ g[1] \in Registered
                  /\ cells[ticking[g].cell].control = g
                  /\ cells'[ticking[g].cell].control = Nil
                  /\ \A d \in Cell : cells'[d].ticker = cells[d].ticker
                  /\ \A d \in Cell : d # ticking[g].cell => cells'[d] = cells[d]
           /\ NilTicker(g) =>
                  /\ ticking[g].cell \in Cell /\ ticking[g].cell[1] = g[1] /\ g[1] \in Registered
                  /\ \A d \in Cell : cells'[d].control = cells[d].control
                  /\ \A d \in Cell : d # ticking[g].cell => cells'[d] = cells[d]
<1>1. ticking[g].pc # "none" => ticking[g].cell \in Cell /\ ticking[g].cell[1] = g[1] /\ g[1] \in Registered
  BY DEF TickInv, Pointing
<1>2. cells \in [Cell -> Places]
  BY TypeParts
<1>3. ASSUME NilControl(g)
      PROVE  /\ ticking[g].cell \in Cell /\ cells[ticking[g].cell].control = g
             /\ cells'[ticking[g].cell].control = Nil
             /\ \A d \in Cell : cells'[d].ticker = cells[d].ticker
             /\ \A d \in Cell : d # ticking[g].cell => cells'[d] = cells[d]
  <2>1. ticking[g].pc = "nilControl" /\ cells' = [cells EXCEPT ![ticking[g].cell].control = Nil]
    BY <1>3 DEF NilControl, ForgetControl
  <2>2. ticking[g].cell \in Cell /\ cells[ticking[g].cell].control = g
    BY <1>1, <2>1 DEF TickInv, Pointing, Holding
  <2>3. QED
    BY <1>2, <2>1, <2>2 DEF Places
<1>4. ASSUME NilTicker(g)
      PROVE  /\ ticking[g].cell \in Cell
             /\ \A d \in Cell : cells'[d].control = cells[d].control
             /\ \A d \in Cell : d # ticking[g].cell => cells'[d] = cells[d]
  <2>1. ticking[g].pc = "nilTicker" /\ cells' = [cells EXCEPT ![ticking[g].cell].ticker = Nil]
    BY <1>4 DEF NilTicker
  <2>2. ticking[g].cell \in Cell
    BY <1>1, <2>1
  <2>3. QED
    BY <1>2, <2>1, <2>2 DEF Places
<1>5. (NilControl(g) => ticking[g].pc # "none") /\ (NilTicker(g) => ticking[g].pc # "none")
  BY DEF NilControl, NilTicker
<1>6. QED
  BY <1>1, <1>3, <1>4, <1>5

LEMMA CellsStep ==
    ASSUME TypeOK, SliceInv, CallInv, NamesInv, CellsInv, TickInv, [Next]_vars
    PROVE  CellsInv'
<1>0. array \in 0 .. Cardinality(Tasks)
  BY DEF TypeOK
<1>1. ASSUME NEW c \in Callers, NEW t \in Tasks, Register(c, t)
      PROVE  CellsInv'
  <2>1. Registered' = Registered \cup {t} /\ t \notin Registered
    BY <1>1, RegisterSlice
  <2>2. PICK reg : /\ reg = IF running THEN [control |-> NextTick(t), ticker |-> NextTick(t)] ELSE Bare
                   /\ \A a \in 0 .. Cardinality(Tasks) : cells'[<<t, a>>] \in {reg, Bare}
                   /\ \A u \in Tasks \ Registered : u # t =>
                          \A a \in 0 .. Cardinality(Tasks) : cells'[<<u, a>>] = cells[<<u, a>>]
                   /\ \A d \in Cell : d[1] # t => cells'[d] \in {cells[d], cells[<<d[1], array>>]}
    BY <1>1, RegisterCells
  <2>3. reg.control # Nil => reg.control[1] = t
    BY <2>1, <2>2, FreshTick DEF Bare
  <2>4. \A u \in Tasks \ Registered' : \A a \in 0 .. Cardinality(Tasks) : cells'[<<u, a>>] = Bare
    <3> TAKE u \in Tasks \ Registered'
    <3> TAKE a \in 0 .. Cardinality(Tasks)
    <3>1. u \in Tasks \ Registered /\ u # t
      BY <2>1
    <3>2. cells[<<u, a>>] = Bare
      BY <3>1 DEF CellsInv
    <3>3. cells'[<<u, a>>] = cells[<<u, a>>]
      BY <2>2, <3>1
    <3>4. QED
      BY <3>2, <3>3
  <2>5. ASSUME NEW d \in Cell, cells'[d].control # Nil
        PROVE  cells'[d].control[1] = d[1]
    <3>1. d[1] \in Tasks /\ d[2] \in 0 .. Cardinality(Tasks) /\ d = <<d[1], d[2]>>
      BY CellParts
    <3>2. CASE d[1] = t
      <4>1. cells'[d] \in {reg, Bare}
        BY <2>2, <3>1, <3>2
      <4>2. Bare.control = Nil
        BY DEF Bare
      <4>3. QED
        BY <2>3, <2>5, <3>2, <4>1, <4>2
    <3>3. CASE d[1] # t
      <4>1. <<d[1], array>> \in Cell /\ <<d[1], array>>[1] = d[1]
        BY <1>0, <3>1, CellIs
      <4>2. cells'[d] \in {cells[d], cells[<<d[1], array>>]}
        BY <2>2, <3>3
      <4>3. QED
        BY <2>5, <4>1, <4>2 DEF CellsInv
    <3>4. QED
      BY <3>2, <3>3
  <2>6. QED
    BY <2>4, <2>5 DEF CellsInv
<1>2. ASSUME NEW c \in Callers, StartOne(c)
      PROVE  CellsInv'
  <2>1. PICK t \in Tasks :
            /\ t \in Registered /\ <<t, array>> \in Cell /\ UNCHANGED registrations
            /\ \/ /\ cells' = [cells EXCEPT ![<<t, array>>] =
                                   [control |-> NextTick(t), ticker |-> NextTick(t)]]
                  /\ NextTick(t)[1] = t
               \/ UNCHANGED cells
    BY <1>2, StartIs
  <2>2. Registered' = Registered
    BY <2>1 DEF Registered
  <2>3. CASE UNCHANGED cells
    BY <2>2, <2>3 DEF CellsInv
  <2>4. CASE /\ cells' = [cells EXCEPT ![<<t, array>>] = [control |-> NextTick(t), ticker |-> NextTick(t)]]
             /\ NextTick(t)[1] = t
    <3>1. /\ cells'[<<t, array>>].control[1] = t
          /\ \A d \in Cell : d # <<t, array>> => cells'[d] = cells[d]
      BY <2>1, <2>4 DEF TypeOK
    <3>2. \A u \in Tasks \ Registered : \A a \in 0 .. Cardinality(Tasks) : cells'[<<u, a>>] = cells[<<u, a>>]
      BY <2>1, <3>1, CellIs
    <3>3. QED
      BY <2>2, <3>1, <3>2 DEF CellsInv
  <2>5. QED
    BY <2>1, <2>3, <2>4
<1>3. ASSUME NEW g \in Tick, NilControl(g) \/ NilTicker(g)
      PROVE  CellsInv'
  <2>1. /\ ticking[g].cell[1] \in Registered
        /\ \A d \in Cell : cells'[d].control \in {Nil, cells[d].control}
        /\ \A d \in Cell : d # ticking[g].cell => cells'[d] = cells[d]
    BY <1>3, NilWrites
  <2>2. Registered' = Registered
    BY <1>3 DEF NilControl, NilTicker, sliceVars, Registered
  <2>3. \A u \in Tasks \ Registered : \A a \in 0 .. Cardinality(Tasks) : cells'[<<u, a>>] = cells[<<u, a>>]
    <3> TAKE u \in Tasks \ Registered
    <3> TAKE a \in 0 .. Cardinality(Tasks)
    <3>1. <<u, a>> \in Cell /\ <<u, a>>[1] = u
      BY CellIs
    <3>2. <<u, a>> # ticking[g].cell
      BY <2>1, <3>1
    <3>3. QED
      BY <2>1, <3>1, <3>2
  <2>4. QED
    BY <2>1, <2>2, <2>3 DEF CellsInv
<1>4. CASE UNCHANGED <<cells, registrations>>
  BY <1>4 DEF CellsInv, Registered
<1>5. \/ \E c \in Callers, t \in Tasks : Register(c, t)
      \/ \E c \in Callers : StartOne(c)
      \/ \E g \in Tick : NilControl(g) \/ NilTicker(g)
      \/ UNCHANGED <<cells, registrations>>
  BY NextCases DEF Lock, StopCheck, StopSend, Unlock, Select, ReceiveTick, ReceiveStop,
     Close, StopTicker, Fire, RunEnds, vars, sliceVars
<1>6. QED
  BY <1>1, <1>2, <1>3, <1>4, <1>5

-----------------------------------------------------------------------------
(* The goroutines.                                                         *)

\* A goroutine moves, and the channels in memory are what they were.
MovesOnly(g) ==
    /\ UNCHANGED <<registrations, array, closed>>
    /\ \A d \in Cell : cells'[d].control = cells[d].control
    /\ \/ Pcs(g, "loop", "select") /\ ticking'[g].ctl = cells[ticking[g].cell].control
       \/ Pcs(g, "select", "loop")
       \/ Pcs(g, "select", "close")
       \/ Pcs(g, "stopTicker", "nilTicker")
       \/ Pcs(g, "nilTicker", "done")

LEMMA MostOnlyMove ==
    ASSUME TypeOK, TickInv, NEW g \in Tick,
           \/ Select(g) \/ ReceiveTick(g) \/ (\E c \in Callers : ReceiveStop(g, c))
           \/ StopTicker(g) \/ NilTicker(g)
    PROVE  MovesOnly(g)
<1>1. UNCHANGED <<registrations, array, closed>>
  BY DEF Select, ReceiveTick, ReceiveStop, StopTicker, NilTicker, sliceVars, runVars
<1>2. \A d \in Cell : cells'[d].control = cells[d].control
  BY NilWrites DEF Select, ReceiveTick, ReceiveStop, StopTicker
<1>3. QED
  BY <1>1, <1>2, TickMoves DEF MovesOnly

LEMMA TickStep ==
    ASSUME TypeOK, SliceInv, CallInv, NamesInv, CellsInv, TickInv, [Next]_vars
    PROVE  TickInv'
<1>0. array \in 0 .. Cardinality(Tasks)
  BY DEF TypeOK
<1>1. \A h \in Tick : <<h[1], array>> \in Cell
  BY <1>0, TickParts, CellIs
<1>2. ASSUME NEW c \in Callers, NEW t \in Tasks, Register(c, t)
      PROVE  TickInv'
  <2>1. /\ Registered' = Registered \cup {t} /\ t \notin Registered
        /\ array' \in {array, array + 1} /\ closed' = closed
    BY <1>2, RegisterSlice DEF Register
  <2>2. PICK reg : /\ reg = IF running THEN [control |-> NextTick(t), ticker |-> NextTick(t)] ELSE Bare
                   /\ cells'[<<t, array'>>] = reg
                   /\ cells'[Local(t)] = reg
                   /\ \A u \in Registered : cells'[<<u, array'>>] = cells[<<u, array>>]
                   /\ \A d \in Cell : d[1] # t /\ d[2] <= array => cells'[d] = cells[d]
    BY <1>2, RegisterCells
  <2>3. ASSUME NEW h \in Tick, ticking'[h] = ticking[h]
        PROVE  Pointing(h)'
    <3>1. Pointing(h)
      BY DEF TickInv
    <3>2. CASE ticking[h].pc = "none"
      BY <2>1, <2>3, <3>1, <3>2 DEF Pointing, Holding, Ticking
    <3>3. CASE ticking[h].pc # "none"
      <4>1. /\ h[1] \in Registered /\ h[1] # t
            /\ ticking[h].cell \in Cell /\ ticking[h].cell[1] = h[1] /\ ticking[h].cell[2] <= array
        BY <2>1, <3>1, <3>3 DEF Pointing
      <4>2. ticking[h].cell[2] \in Int /\ array \in Int
        BY <1>0, <4>1, CellParts
      <4>3. ticking[h].cell[2] <= array'
        BY <2>1, <4>1, <4>2
      <4>4. cells'[ticking[h].cell] = cells[ticking[h].cell] /\ cells'[<<h[1], array'>>] = cells[<<h[1], array>>]
        BY <2>2, <4>1
      <4>5. QED
        BY <2>1, <2>3, <3>1, <4>1, <4>3, <4>4 DEF Pointing, Holding, Ticking
    <3>4. QED
      BY <3>2, <3>3
  <2>4. CASE running
    <3> DEFINE n == NextTick(t)
    <3>1. Born(n, Local(t)) /\ n[1] = t
      BY <1>2, <2>1, <2>4, GoIsBorn, FreshTick DEF Register
    <3>2. \A h \in Tick : h # n => Pointing(h)'
      BY <2>3, <3>1 DEF Born
    <3>3. /\ Local(t) \in Cell /\ Local(t)[1] = t /\ Local(t)[2] = 0
      <4>1. 0 \in 0 .. Cardinality(Tasks)
        BY Sizes
      <4>2. QED
        BY <4>1, CellIs DEF Local
    <3>4. 0 <= array'
      <4>1. array \in Nat
        BY <1>0
      <4>2. QED
        BY <2>1, <4>1
    <3>5. n \notin closed
      BY <3>1 DEF Born, TickInv, Pointing
    <3>6. reg.control = n
      BY <2>2, <2>4
    <3> HIDE DEF n
    <3>7. ticking'[n].pc = "loop" /\ ticking'[n].cell = Local(t)
      BY <3>1 DEF Born
    <3>8. \A m \in Tick : m = n => Pointing(m)'
      BY <2>1, <2>2, <3>1, <3>3, <3>4, <3>5, <3>6, <3>7 DEF Pointing, Holding, Ticking
    <3>9. QED
      BY <3>2, <3>8 DEF TickInv
  <2>5. CASE ~running
    BY <1>2, <2>3, <2>5 DEF Register, TickInv
  <2>6. QED
    BY <2>4, <2>5 DEF TypeOK
<1>3. ASSUME NEW c \in Callers, StartOne(c)
      PROVE  TickInv'
  <2>1. PICK t \in Tasks :
            /\ t \in Registered /\ <<t, array>> \in Cell /\ UNCHANGED <<registrations, array, closed>>
            /\ \/ /\ cells[<<t, array>>].control = Nil
                  /\ cells' = [cells EXCEPT ![<<t, array>>] =
                                   [control |-> NextTick(t), ticker |-> NextTick(t)]]
                  /\ Born(NextTick(t), <<t, array>>)
                  /\ NextTick(t)[1] = t
               \/ UNCHANGED <<cells, ticking>>
    BY <1>3, StartIs
  <2>2. Registered' = Registered
    BY <2>1 DEF Registered
  <2>3. CASE UNCHANGED <<cells, ticking>>
    BY <2>1, <2>2, <2>3 DEF TickInv, Pointing, Holding, Ticking
  <2>4. CASE /\ cells[<<t, array>>].control = Nil
             /\ cells' = [cells EXCEPT ![<<t, array>>] = [control |-> NextTick(t), ticker |-> NextTick(t)]]
             /\ Born(NextTick(t), <<t, array>>)
             /\ NextTick(t)[1] = t
    <3>0. PICK n \in Tick : n = NextTick(t)
      BY <2>4 DEF Born
    <3>1. /\ cells'[<<t, array>>].control = n
          /\ \A d \in Cell : d # <<t, array>> => cells'[d] = cells[d]
      BY <2>1, <2>4, <3>0 DEF TypeOK
    <3>2. ASSUME NEW h \in Tick, h # n PROVE Pointing(h)'
      <4>1. ticking'[h] = ticking[h] /\ Pointing(h) /\ h # Nil
        BY <2>4, <3>0, <3>2, NilAssumption DEF Born, TickInv
      <4>2. Holding(h) => ticking[h].cell # <<t, array>> /\ ticking[h].cell \in Cell
        BY <2>4, <4>1 DEF Pointing, Holding
      <4>3. Ticking(h) => <<h[1], array>> # <<t, array>>
        BY <2>4, <4>1 DEF Pointing
      <4>4. (Holding(h)' <=> Holding(h)) /\ (Ticking(h)' <=> Ticking(h))
        BY <4>1 DEF Holding, Ticking
      <4>5. Holding(h)' => cells'[ticking'[h].cell].control = h
        BY <3>1, <4>1, <4>2, <4>4 DEF Pointing
      <4>6. Ticking(h)' => cells'[<<h[1], array'>>].control = h
        BY <1>1, <2>1, <3>1, <4>1, <4>3, <4>4 DEF Pointing
      <4>7. QED
        BY <2>1, <2>2, <4>1, <4>5, <4>6 DEF Pointing
    <3>3. Pointing(n)'
      <4>1. ticking'[n].pc = "loop" /\ ticking'[n].cell = <<t, array>> /\ n[1] = t
        BY <2>4, <3>0 DEF Born
      <4>2. n \notin closed
        BY <2>4, <3>0 DEF Born, TickInv, Pointing
      <4>3. <<t, array>>[1] = t /\ <<t, array>>[2] <= array
        BY <1>0, CellIs
      <4>4. QED
        BY <2>1, <2>2, <3>1, <4>1, <4>2, <4>3 DEF Pointing, Holding, Ticking
    <3>4. QED
      BY <3>2, <3>3 DEF TickInv
  <2>5. QED
    BY <2>1, <2>3, <2>4
<1>4. ASSUME NEW g \in Tick, MovesOnly(g)
      PROVE  TickInv'
  <2>1. Registered' = Registered /\ UNCHANGED <<array, closed>>
    BY <1>4 DEF MovesOnly, Registered
  <2>2. \A d \in Cell : cells'[d].control = cells[d].control
    BY <1>4 DEF MovesOnly
  <2>3. /\ ticking'[g].cell = ticking[g].cell
        /\ \A h \in Tick : h # g => ticking'[h] = ticking[h]
    BY <1>4 DEF MovesOnly, Pcs, Moves
  <2>4. ASSUME NEW h \in Tick, h # g PROVE Pointing(h)'
    <3>1. Pointing(h) /\ ticking'[h] = ticking[h]
      BY <2>3, <2>4 DEF TickInv
    <3>2. Holding(h) => ticking[h].cell \in Cell
      BY <3>1 DEF Pointing, Holding
    <3>3. QED
      BY <1>1, <2>1, <2>2, <3>1, <3>2 DEF Pointing, Holding, Ticking
  <2>5. Pointing(g)'
    <3>1. Pointing(g) /\ ticking[g].pc # "none" /\ ticking[g].cell \in Cell
      BY <1>4 DEF TickInv, Pointing, MovesOnly, Pcs
    <3>2. Holding(g)' => Holding(g)
      BY <1>4 DEF MovesOnly, Pcs, Moves, Holding
    <3>3. Ticking(g)' => Ticking(g)
      BY <1>4 DEF MovesOnly, Pcs, Moves, Ticking
    <3>4. ticking'[g].pc = "select" => ticking'[g].ctl = g
      BY <1>4, <3>1 DEF MovesOnly, Pcs, Moves, Pointing, Holding
    <3>5. g \in closed => ticking'[g].pc \in {"nilControl", "stopTicker", "nilTicker", "done"}
      BY <1>4, <3>1 DEF MovesOnly, Pcs, Moves, Pointing
    <3>6. Holding(g)' => cells'[ticking'[g].cell].control = g
      BY <2>2, <2>3, <3>1, <3>2 DEF Pointing
    <3>7. Ticking(g)' => cells'[<<g[1], array'>>].control = g
      BY <1>1, <2>1, <2>2, <3>1, <3>3 DEF Pointing
    <3>8. QED
      BY <2>1, <2>3, <3>1, <3>4, <3>5, <3>6, <3>7 DEF Pointing
  <2>6. QED
    BY <2>4, <2>5 DEF TickInv
<1>5. ASSUME NEW g \in Tick, Close(g)
      PROVE  TickInv'
  <2>1. Registered' = Registered /\ UNCHANGED <<array, cells>> /\ closed' = closed \cup {g}
    BY <1>5, CloseIs DEF Close, sliceVars, Registered
  <2>2. Pcs(g, "close", "nilControl")
    BY <1>5, TickMoves
  <2>3. \A h \in Tick : h # g => Pointing(h)'
    BY <2>1, <2>2 DEF Pcs, Moves, TickInv, Pointing, Holding, Ticking
  <2>4. Pointing(g)'
    BY <2>1, <2>2 DEF Pcs, Moves, TickInv, Pointing, Holding, Ticking
  <2>5. QED
    BY <2>3, <2>4 DEF TickInv
<1>6. ASSUME NEW g \in Tick, NilControl(g)
      PROVE  TickInv'
  <2>1. Registered' = Registered /\ UNCHANGED <<array, closed>>
    BY <1>6 DEF NilControl, sliceVars, runVars, Registered
  <2>2. Pcs(g, "nilControl", "stopTicker")
    BY <1>6, TickMoves
  <2>3. /\ cells[ticking[g].cell].control = g
        /\ \A d \in Cell : d # ticking[g].cell => cells'[d] = cells[d]
    BY <1>6, NilWrites
  <2>4. ASSUME NEW h \in Tick, h # g PROVE Pointing(h)'
    <3>1. Pointing(h) /\ ticking'[h] = ticking[h]
      BY <2>2, <2>4 DEF Pcs, Moves, TickInv
    <3>2. Holding(h) => ticking[h].cell \in Cell /\ ticking[h].cell # ticking[g].cell
      BY <2>3, <2>4, <3>1 DEF Pointing, Holding
    <3>3. Ticking(h) => <<h[1], array>> # ticking[g].cell
      BY <2>3, <2>4, <3>1 DEF Pointing
    <3>4. (Holding(h)' <=> Holding(h)) /\ (Ticking(h)' <=> Ticking(h))
      BY <3>1 DEF Holding, Ticking
    <3>5. Holding(h)' => cells'[ticking'[h].cell].control = h
      BY <2>3, <3>1, <3>2, <3>4 DEF Pointing
    <3>6. Ticking(h)' => cells'[<<h[1], array'>>].control = h
      BY <1>1, <2>1, <2>3, <3>1, <3>3, <3>4 DEF Pointing
    <3>7. QED
      BY <2>1, <3>1, <3>5, <3>6 DEF Pointing
  <2>5. Pointing(g)'
    BY <2>1, <2>2 DEF Pcs, Moves, TickInv, Pointing, Holding, Ticking
  <2>6. QED
    BY <2>4, <2>5 DEF TickInv
<1>7. CASE UNCHANGED <<registrations, array, cells, ticking, closed>>
  BY <1>7 DEF TickInv, Pointing, Holding, Ticking, Registered
<1>8. \/ \E c \in Callers, t \in Tasks : Register(c, t)
      \/ \E c \in Callers : StartOne(c)
      \/ \E g \in Tick : \/ Select(g) \/ ReceiveTick(g) \/ (\E c \in Callers : ReceiveStop(g, c))
                         \/ StopTicker(g) \/ NilTicker(g)
      \/ \E g \in Tick : Close(g)
      \/ \E g \in Tick : NilControl(g)
      \/ UNCHANGED <<registrations, array, cells, ticking, closed>>
  BY NextCases DEF Lock, StopCheck, StopSend, Unlock, Fire, RunEnds, vars, sliceVars, runVars
<1>9. QED
  BY <1>2, <1>3, <1>4, <1>5, <1>6, <1>7, <1>8, MostOnlyMove

-----------------------------------------------------------------------------
(* Stop.                                                                   *)

\* No goroutine starts to tick but those that Register and Start make.
LEMMA TicksOn ==
    ASSUME TypeOK, TickInv, NEW g \in Tick,
           \/ Select(g) \/ ReceiveTick(g) \/ (\E c \in Callers : ReceiveStop(g, c)) \/ Close(g)
           \/ NilControl(g) \/ StopTicker(g) \/ NilTicker(g)
    PROVE  \A h \in Tick : Ticking(h)' => Ticking(h)
BY TickMoves DEF Pcs, Moves, Ticking

\* Of a registered task, the goroutine that ticks is the one in the slice.
LEMMA OneTicks ==
    ASSUME TickInv, NEW g \in Tick, NEW h \in Tick, g[1] = h[1], Ticking(g), Ticking(h)
    PROVE  g = h
BY DEF TickInv, Pointing

LEMMA StopStep ==
    ASSUME TypeOK, SliceInv, CallInv, NamesInv, CellsInv, TickInv, StopInv, [Next]_vars
    PROVE  StopInv'
<1>0. /\ call \in [Callers -> Uses] /\ NoCaller \notin Callers /\ Nil \notin Tick
      /\ Len(registrations) \in Nat
  BY TypeParts, SchedulerAssumption, NilAssumption
<1>1. ASSUME NEW c \in Callers, NEW t \in Tasks, Register(c, t)
      PROVE  StopInv'
  <2>1. mutex = NoCaller /\ call[c] = Idle /\ UNCHANGED <<mutex, call, running>> /\ (running \/ UNCHANGED ticking)
    BY <1>1 DEF Register
  <2>2. \A d \in Callers : call'[d].op = "idle"
    BY <1>0, <2>1, OthersIdle DEF Idle
  <2>3. StopIsEffective'
    BY <2>1 DEF StopInv, StopIsEffective, Ticking
  <2>4. QED
    BY <2>2, <2>3 DEF StopInv, Passed, StopOps
<1>2. ASSUME NEW c \in Callers, NEW op \in {"start", "stop"}, Lock(c, op)
      PROVE  StopInv'
  <2>1. mutex = NoCaller /\ call[c] = Idle /\ UNCHANGED <<running, registrations, ticking>>
    BY <1>2 DEF Lock, sliceVars
  <2>2. \/ UNCHANGED <<mutex, call>>
        \/ mutex' = c /\ call' = [call EXCEPT ![c] = [op |-> op, i |-> 1, ch |-> Nil]]
    BY <1>2 DEF Lock
  <2>3. CASE UNCHANGED <<mutex, call>>
    BY <2>1, <2>3 DEF StopInv, StopIsEffective, Passed, Ticking
  <2>4. CASE mutex' = c /\ call' = [call EXCEPT ![c] = [op |-> op, i |-> 1, ch |-> Nil]]
    <3>1. call'[c].i = 1 /\ \A d \in Callers : d # c => call'[d].op = "idle"
      BY <1>0, <2>1, <2>4, OthersIdle DEF Idle
    <3>2. \A d \in Callers : Passed(d)'
      BY <3>1 DEF Passed, StopOps
    <3>3. QED
      BY <1>0, <2>4, <3>2 DEF StopInv, StopIsEffective
  <2>5. QED
    BY <2>2, <2>3, <2>4
<1>3. ASSUME NEW c \in Callers, StartOne(c)
      PROVE  StopInv'
  <2>1. mutex' = c /\ mutex = c /\ call[c].op = "start"
    BY <1>3 DEF StartOne, CallInv, Calling
  <2>2. call[c].i <= Len(registrations) /\ Advance(c)
    BY <1>3 DEF StartOne
  <2>3. call[c].i <= Cardinality(Tasks)
    BY <1>0, <2>2, Sizes DEF TypeOK
  <2>4. call'[c].op = "start" /\ \A d \in Callers : d # c => call'[d].op = "idle"
    BY <1>0, <2>1, <2>2, <2>3, OthersIdle, Advances DEF Idle
  <2>5. \A d \in Callers : Passed(d)'
    BY <2>4 DEF Passed, StopOps
  <2>6. QED
    BY <1>0, <2>1, <2>5 DEF StopInv, StopIsEffective
<1>4. ASSUME NEW c \in Callers, StopCheck(c) \/ StopSend(c)
      PROVE  StopInv'
  <2> DEFINE i == call[c].i
             e == Element(i)
  <2>1. /\ call[c].op \in {"stop", "send"} /\ UNCHANGED <<running, mutex, registrations, array, ticking>>
        /\ i <= Len(registrations)
    BY <1>4 DEF StopCheck, StopSend, sliceVars, CallInv, Calling
  <2>2. mutex = c /\ i >= 1 /\ \A d \in Callers : d # c => call[d].op = "idle"
    BY <2>1, OthersIdle DEF CallInv, Calling, Idle
  <2>3. i \in 1 .. Len(registrations)
    BY <1>0, <2>1, <2>2 DEF Uses
  <2>4. e = <<registrations[i], array>> /\ cells[e].control \in Tick \cup {Nil}
    BY <2>3, Elements DEF TypeOK
  <2>5. \/ Advance(c) /\ cells[e].control = Nil
        \/ \E op \in {"send", "sending"} : \E ch \in {call[c].ch, cells[e].control} : Sending(c, op, ch)
    BY <1>4 DEF StopCheck, StopSend, Sending
  <2>6. Passed(c)
    BY DEF StopInv
  <2>7. ASSUME \A d \in Callers : d # c => call'[d] = call[d],
               \A j \in 1 .. call'[c].i - 1 : j \in 1 .. i - 1 \/ (j = i /\ cells[e].control = Nil)
        PROVE  StopInv'
    <3>1. ASSUME NEW j \in 1 .. call'[c].i - 1, NEW g \in Tick, g[1] = registrations[j]
          PROVE  ~Ticking(g)
      <4>1. CASE j \in 1 .. i - 1
        BY <2>1, <2>6, <3>1, <4>1 DEF Passed, StopOps
      <4>2. CASE j = i /\ cells[e].control = Nil
        BY <1>0, <2>4, <3>1, <4>2 DEF TickInv, Pointing
      <4>3. QED
        BY <2>7, <3>1, <4>1, <4>2
    <3>2. Passed(c)'
      BY <2>1, <3>1 DEF Passed, Ticking
    <3>3. \A d \in Callers : d # c => Passed(d)'
      BY <2>2, <2>7 DEF Passed, StopOps
    <3>4. StopIsEffective'
      BY <1>0, <2>1, <2>2 DEF StopIsEffective
    <3>5. QED
      BY <3>2, <3>3, <3>4 DEF StopInv
  <2> HIDE DEF e
  <2>8. CASE Advance(c) /\ cells[e].control = Nil
    <3>1. i <= Cardinality(Tasks)
      BY <2>1, <2>3, Sizes DEF TypeOK
    <3>2. call'[c].i = i + 1 /\ \A d \in Callers : d # c => call'[d] = call[d]
      BY <1>0, <2>8, <3>1, Advances
    <3> HIDE DEF i
    <3>3. \A j \in 1 .. call'[c].i - 1 : j \in 1 .. i - 1 \/ j = i
      BY <1>0, <2>3, <3>2
    <3>4. QED
      BY <2>7, <2>8, <3>2, <3>3
  <2>9. ASSUME NEW op \in {"send", "sending"}, NEW ch \in {call[c].ch, cells[e].control}, Sending(c, op, ch)
        PROVE  StopInv'
    <3>1. ch \in Tick \cup {Nil}
      BY <1>0, <2>4, <2>9 DEF Uses
    <3>2. call'[c].i = i /\ \A d \in Callers : d # c => call'[d] = call[d]
      BY <1>0, <2>9, <3>1, Sends
    <3> HIDE DEF i
    <3>3. \A j \in 1 .. call'[c].i - 1 : j \in 1 .. i - 1 \/ (j = i /\ cells[e].control = Nil)
      BY <3>2
    <3>4. QED
      BY <2>7, <3>2, <3>3
  <2>10. QED
    BY <2>5, <2>8, <2>9
<1>5. ASSUME NEW c \in Callers, Unlock(c)
      PROVE  StopInv'
  <2>1. /\ mutex' = NoCaller /\ UNCHANGED <<registrations, ticking>>
        /\ call[c].op \in {"start", "stop"} /\ call[c].i > Len(registrations)
        /\ running' = (call[c].op = "start")
        /\ call' = [call EXCEPT ![c] = Idle]
    BY <1>5 DEF Unlock
  <2>2. mutex = c
    BY <2>1 DEF CallInv, Calling
  <2>3. \A d \in Callers : call'[d].op = "idle"
    BY <1>0, <2>1, <2>2, OthersIdle DEF Idle
  <2>4. call[c].op = "stop" => \A g \in Tick : ~Ticking(g)
    <3> HAVE call[c].op = "stop"
    <3> TAKE g \in Tick
    <3>1. Passed(c)
      BY DEF StopInv
    <3>2. Ticking(g) => g[1] \in Registered
      BY DEF Ticking, TickInv, Pointing
    <3>3. \A j \in 1 .. Len(registrations) : j \in 1 .. call[c].i - 1
      BY <1>0, <2>1 DEF Uses
    <3>4. QED
      BY <3>1, <3>2, <3>3 DEF Passed, StopOps, Registered
  <2>5. StopIsEffective'
    BY <2>1, <2>4 DEF StopIsEffective, Ticking
  <2>6. QED
    BY <2>3, <2>5 DEF StopInv, Passed, StopOps
<1>6. ASSUME NEW g \in Tick, NEW c \in Callers, ReceiveStop(g, c)
      PROVE  StopInv'
  <2>1. /\ call[c].op = "sending" /\ UNCHANGED <<mutex, registrations, running>>
        /\ call' = [call EXCEPT ![c] = [op |-> "stop", i |-> call[c].i + 1, ch |-> Nil]]
        /\ call[c].ch = ticking[g].ctl /\ call[c].ch # Nil
        /\ ticking[g].pc = "select"
    BY <1>6 DEF ReceiveStop, sliceVars
  <2>2. mutex = c /\ call[c].i \in 1 .. Len(registrations) /\ \A d \in Callers : d # c => call[d].op = "idle"
    <3>1. mutex = c /\ call[c].i >= 1 /\ call[c].i <= Len(registrations)
      BY <2>1 DEF CallInv, Calling
    <3>2. QED
      BY <1>0, <3>1, OthersIdle DEF Uses, Idle
  <2>3. call[c].ch = g
    BY <2>1 DEF TickInv, Pointing
  <2>4. g[1] = registrations[call[c].i] /\ Ticking(g)
    BY <2>1, <2>3 DEF CallInv, Calling, Ticking
  <2>5. /\ ticking'[g].pc = "close" /\ \A h \in Tick : h # g => ticking'[h] = ticking[h]
    BY <1>6, TickMoves DEF Pcs, Moves
  <2>6. /\ call'[c].i = call[c].i + 1 /\ \A d \in Callers : d # c => call'[d].op = "idle"
    BY <1>0, <2>1, <2>2
  <2>7. ASSUME NEW j \in 1 .. call'[c].i - 1, NEW h \in Tick, h[1] = registrations[j]
        PROVE  ~Ticking(h)'
    <3>1. j \in 1 .. call[c].i - 1 \/ j = call[c].i
      BY <1>0, <2>2, <2>6
    <3>2. CASE j \in 1 .. call[c].i - 1
      <4>1. ~Ticking(h)
        BY <2>1, <2>7, <3>2 DEF StopInv, Passed, StopOps
      <4>2. QED
        BY <2>5, <4>1 DEF Ticking
    <3>3. CASE j = call[c].i
      <4>1. Ticking(h) => h = g
        BY <2>4, <2>7, <3>3, OneTicks
      <4>2. QED
        BY <2>5, <4>1 DEF Ticking
    <3>4. QED
      BY <3>1, <3>2, <3>3
  <2>8. \A d \in Callers : Passed(d)'
    BY <2>1, <2>6, <2>7 DEF Passed, StopOps
  <2>9. StopIsEffective'
    BY <1>0, <2>1, <2>2 DEF StopIsEffective
  <2>10. QED
    BY <2>8, <2>9 DEF StopInv
<1>7. ASSUME UNCHANGED <<running, mutex, call, registrations>>,
             \A g \in Tick : Ticking(g)' => Ticking(g)
      PROVE  StopInv'
  <2>1. StopIsEffective'
    BY <1>7 DEF StopInv, StopIsEffective
  <2>2. \A c \in Callers : Passed(c)'
    BY <1>7 DEF StopInv, Passed
  <2>3. QED
    BY <2>1, <2>2 DEF StopInv
<1>8. \A g \in Tick :
          \/ Select(g) \/ ReceiveTick(g) \/ Close(g) \/ NilControl(g) \/ StopTicker(g) \/ NilTicker(g)
          => StopInv'
  <2> TAKE g \in Tick
  <2> HAVE \/ Select(g) \/ ReceiveTick(g) \/ Close(g) \/ NilControl(g) \/ StopTicker(g) \/ NilTicker(g)
  <2>1. UNCHANGED <<running, mutex, call, registrations>>
    BY DEF Select, ReceiveTick, Close, NilControl, StopTicker, NilTicker, sliceVars, userVars
  <2>2. QED
    BY <1>7, <2>1, TicksOn
<1>9. \/ \E g \in Tick : Fire(g)
      \/ \E t \in Tasks : RunEnds(t)
      \/ UNCHANGED vars
      => StopInv'
  <2>1. \/ \E g \in Tick : Fire(g)
        \/ \E t \in Tasks : RunEnds(t)
        \/ UNCHANGED vars
        => UNCHANGED <<running, mutex, call, registrations, ticking>>
    BY DEF Fire, RunEnds, vars, sliceVars, userVars
  <2>2. QED
    BY <1>7, <2>1 DEF Ticking
<1>10. QED
  BY NextCases, <1>1, <1>2, <1>3, <1>4, <1>5, <1>6, <1>8, <1>9

-----------------------------------------------------------------------------
(* Care.                                                                   *)

\* While all goroutines have returned, nothing points anywhere.
LEMMA NoneIsInPlace ==
    ASSUME AllReturned', NEW g \in Tick
    PROVE  InPlace(g)'
BY DEF AllReturned, InPlace, Stopping

\* When nobody is sending no answer is due.
LEMMA NoneIsAnswered ==
    ASSUME NEW c \in Callers, call'[c].op \in {"idle", "start", "stop"}
    PROVE  Answered(c)'
BY DEF Answered

\* Neither a program that waits for a call nor one that starts has a goroutine that is stopping.
LEMMA NoneStops ==
    ASSUME CallInv, CareInv, \/ running /\ mutex = NoCaller
                             \/ \E c \in Callers : call[c].op = "start"
    PROVE  \A g \in Tick : ~Stopping(g)
<1>1. \A t : ~Stopped(t)
  <2>1. CASE running /\ mutex = NoCaller
    BY <2>1, SchedulerAssumption DEF CallInv, Calling, Stopped, StopOps
  <2>2. ASSUME NEW c \in Callers, call[c].op = "start"
        PROVE  \A t : ~Stopped(t)
    <3>1. mutex = c
      BY <2>2 DEF CallInv, Calling
    <3>2. \A d \in Callers : call[d].op \notin StopOps
      BY <2>2, <3>1 DEF CallInv, Calling, StopOps
    <3>3. QED
      BY <3>1, <3>2, SchedulerAssumption DEF Stopped
  <2>3. QED
    BY <2>1, <2>2
<1>2. QED
  BY <1>1 DEF CareInv, InPlace

\* A task stays held when its element does, and the goroutine that has it.
LEMMA HeldKept ==
    ASSUME TypeOK, NEW t \in Registered, Held(t), UNCHANGED array,
           cells'[<<t, array>>].control = cells[<<t, array>>].control,
           \A h \in Tick : Holding(h) => Holding(h)'
    PROVE  Held(t)'
<1>1. <<t, array>> \in Cell
  BY RegisteredAreTasks, CellIs DEF TypeOK
<1>2. cells[<<t, array>>].control \in Tick \cup {Nil}
  BY <1>1 DEF TypeOK
<1>3. CASE cells[<<t, array>>].control = Nil
  BY <1>3 DEF Held
<1>4. CASE cells[<<t, array>>].control # Nil
  <2>1. PICK h \in Tick : h = cells[<<t, array>>].control
    BY <1>2, <1>4
  <2>2. Holding(h) /\ Holding(h)'
    BY <1>4, <2>1 DEF Held
  <2>3. QED
    BY <2>1, <2>2 DEF Held, Holding
<1>5. QED
  BY <1>3, <1>4

\* An answer stays due while the goroutine that is to give it ticks.
LEMMA AnsweredKept ==
    ASSUME TypeOK, NEW c \in Callers, Answered(c), call'[c] = call[c],
           \A h \in Tick : h = call[c].ch /\ Ticking(h) => Ticking(h)'
    PROVE  Answered(c)'
<1>1. call[c].ch \in Tick \cup {Nil}
  BY DEF TypeOK
<1>2. CASE call[c].op \in {"send", "sending"}
  <2>1. PICK h \in Tick : h = call[c].ch
    BY <1>1, <1>2 DEF Answered
  <2>2. Ticking(h)'
    BY <1>2, <2>1 DEF Answered
  <2>3. QED
    BY <1>1, <2>1, <2>2, NilAssumption DEF Answered, Ticking
<1>3. CASE call[c].op \notin {"send", "sending"}
  BY <1>3 DEF Answered
<1>4. QED
  BY <1>2, <1>3

\* A goroutine moves within its loop, or through what it does when it is stopped.
Stays(g) ==
    \/ Pcs(g, "loop", "select") \/ Pcs(g, "select", "loop")
    \/ Pcs(g, "close", "nilControl")
    \/ Pcs(g, "stopTicker", "nilTicker")

\* Such a move, that leaves memory and calls alone, changes nothing of this.
LEMMA StaysInPlace ==
    ASSUME TypeOK, TickInv, CareInv, NEW g \in Tick, Stays(g),
           UNCHANGED <<registrations, array, cells, running, mutex, call>>, ~panicked'
    PROVE  CareInv'
<1>1. /\ ticking'[g].cell = ticking[g].cell
      /\ \A h \in Tick : h # g => ticking'[h] = ticking[h]
  BY DEF Stays, Pcs, Moves
<1>2. \A h \in Tick : /\ Stopping(h)' <=> Stopping(h)
                      /\ Holding(h)' <=> Holding(h)
                      /\ Ticking(h)' <=> Ticking(h)
                      /\ ticking'[h].pc \notin {"none", "done"} <=> ticking[h].pc \notin {"none", "done"}
  BY <1>1 DEF Stays, Pcs, Moves, Stopping, Holding, Ticking
<1>3. \A h \in Tick : ticking'[h].cell = ticking[h].cell
  BY <1>1
<1>4. \A t : Stopped(t)' <=> Stopped(t)
  BY DEF Stopped
<1>5. \A h \in Tick : InPlace(h)'
  BY <1>2, <1>3, <1>4 DEF CareInv, InPlace
<1>6. Registered' = Registered
  BY DEF Registered
<1>7. \A t \in Registered : Held(t)'
  BY <1>2, HeldKept DEF CareInv
<1>8. \A c \in Callers : Answered(c)'
  BY <1>2, AnsweredKept DEF CareInv
<1>9. QED
  BY <1>5, <1>6, <1>7, <1>8 DEF CareInv

LEMMA CareRegister ==
    ASSUME TypeOK, SliceInv, CallInv, NamesInv, CellsInv, CareInv, NEW c \in Callers, NEW t \in Tasks,
           Register(c, t), careful'
    PROVE  CareInv'
<1>1. /\ ~running /\ AllReturned /\ mutex = NoCaller /\ call[c] = Idle
      /\ UNCHANGED <<ticking, call, panicked, running, mutex>>
  BY DEF Register
<1>2. AllReturned'
  BY <1>1 DEF AllReturned
<1>3. \A d \in Callers : call'[d].op = "idle"
  BY <1>1, OthersIdle DEF Idle
<1>4. Registered' = Registered \cup {t} /\ array' \in 0 .. Cardinality(Tasks)
  BY RegisterSlice
<1>5. cells'[<<t, array'>>] = Bare /\ \A u \in Registered : cells'[<<u, array'>>] = cells[<<u, array>>]
  BY <1>1, RegisterCells
<1>6. Held(t)'
  BY <1>5 DEF Held, Bare
<1>7. ASSUME NEW u \in Registered PROVE Held(u)'
  <2>1. Held(u) /\ cells'[<<u, array'>>] = cells[<<u, array>>]
    BY <1>5 DEF CareInv
  <2>2. QED
    BY <1>1, <2>1 DEF Held, Holding
<1>8. \A g \in Tick : InPlace(g)'
  BY <1>2, NoneIsInPlace
<1>9. \A d \in Callers : Answered(d)'
  BY <1>3, NoneIsAnswered
<1>10. ~panicked'
  BY <1>1 DEF CareInv
<1>11. QED
  BY <1>4, <1>6, <1>7, <1>8, <1>9, <1>10 DEF CareInv

LEMMA CareLock ==
    ASSUME TypeOK, CallInv, CareInv, NEW c \in Callers, NEW op \in {"start", "stop"},
           Lock(c, op), careful'
    PROVE  CareInv'
<1>1. /\ mutex = NoCaller /\ call[c] = Idle
      /\ UNCHANGED <<registrations, array, running, cells, ticking, panicked>>
  BY DEF Lock, sliceVars
<1>2. \A d \in Callers : call[d].op = "idle"
  BY <1>1, OthersIdle DEF Idle
<1>3. \A g \in Tick : /\ Stopping(g)' <=> Stopping(g)
                      /\ Holding(g)' <=> Holding(g)
                      /\ Ticking(g)' <=> Ticking(g)
  BY <1>1 DEF Stopping, Holding, Ticking
<1>4. \A t \in Registered : Held(t)'
  BY <1>1, <1>3, HeldKept DEF CareInv
<1>5. \A d \in Callers : call'[d].op \in {"idle", "start", "stop"}
  <2>1. \/ call' = call
        \/ call' = [call EXCEPT ![c] = [op |-> op, i |-> 1, ch |-> Nil]]
    BY DEF Lock
  <2>2. DOMAIN call = Callers
    BY DEF TypeOK
  <2>3. CASE call' = call
    BY <1>2, <2>3
  <2>4. CASE call' = [call EXCEPT ![c] = [op |-> op, i |-> 1, ch |-> Nil]]
    <3>1. call'[c].op = op /\ \A d \in Callers : d # c => call'[d] = call[d]
      BY <2>2, <2>4
    <3>2. QED
      BY <1>2, <3>1
  <2>5. QED
    BY <2>1, <2>3, <2>4
<1>6. \A d \in Callers : Answered(d)'
  BY <1>5, NoneIsAnswered
<1>7. \A g \in Tick : InPlace(g)'
  <2>1. CASE running = (op = "start")
    <3>1. UNCHANGED <<mutex, call>>
      BY <2>1 DEF Lock
    <3>2. QED
      BY <1>1, <3>1 DEF CareInv, InPlace, Stopping, Stopped
  <2>2. CASE running # (op = "start") /\ op = "start"
    <3>1. AllReturned'
      BY <1>1, <2>2 DEF Lock, AllReturned
    <3>2. QED
      BY <3>1, NoneIsInPlace
  <2>3. CASE running # (op = "start") /\ op = "stop"
    <3>1. running
      BY <2>3 DEF TypeOK
    <3>2. \A g \in Tick : ~Stopping(g)
      BY <1>1, <3>1, NoneStops
    <3>3. QED
      BY <1>1, <1>3, <3>2 DEF CareInv, InPlace
  <2>4. QED
    BY <2>1, <2>2, <2>3
<1>8. Registered' = Registered /\ ~panicked'
  BY <1>1 DEF Registered, CareInv
<1>9. QED
  BY <1>4, <1>6, <1>7, <1>8 DEF CareInv

LEMMA CareStart ==
    ASSUME TypeOK, SliceInv, CallInv, NamesInv, CellsInv, TickInv, CareInv,
           NEW c \in Callers, StartOne(c)
    PROVE  CareInv'
<1>0. /\ array \in 0 .. Cardinality(Tasks) /\ call \in [Callers -> Uses] /\ Nil \notin Tick
      /\ call[c].op = "start" /\ mutex = c
  BY TypeParts, NilAssumption DEF StartOne, CallInv, Calling
<1>1. PICK t \in Tasks :
          /\ call[c].i \in 1 .. Len(registrations)
          /\ t \in Registered /\ <<t, array>> \in Cell
          /\ UNCHANGED <<registrations, array, running, mutex, closed, careful, panicked>>
          /\ \/ /\ cells[<<t, array>>].control = Nil
                /\ cells' = [cells EXCEPT ![<<t, array>>] =
                                 [control |-> NextTick(t), ticker |-> NextTick(t)]]
                /\ Born(NextTick(t), <<t, array>>)
                /\ NextTick(t)[1] = t
             \/ UNCHANGED <<cells, ticking>>
  BY StartIs
<1>2. \A g \in Tick : ~Stopping(g)
  BY <1>0, NoneStops
<1>3. \A d \in Callers : call'[d].op \in {"idle", "start", "stop"}
  <2>1. call[c].i <= Cardinality(Tasks) /\ Advance(c)
    BY <1>1, Sizes DEF StartOne, TypeOK
  <2>2. call'[c].op = "start" /\ \A d \in Callers : d # c => call'[d] = call[d]
    BY <1>0, <2>1, Advances
  <2>3. \A d \in Callers : d # c => call[d].op = "idle"
    BY <1>0, OthersIdle DEF Idle
  <2>4. QED
    BY <2>2, <2>3
<1>4. \A d \in Callers : Answered(d)'
  BY <1>3, NoneIsAnswered
<1>5. Registered' = Registered /\ ~panicked'
  BY <1>1 DEF Registered, CareInv
<1>6. CASE UNCHANGED <<cells, ticking>>
  <2>1. \A g \in Tick : InPlace(g)'
    BY <1>1, <1>2, <1>6 DEF CareInv, InPlace, Stopping
  <2>2. \A u \in Registered : Held(u)'
    BY <1>1, <1>6 DEF CareInv, Held, Holding
  <2>3. QED
    BY <1>4, <1>5, <2>1, <2>2 DEF CareInv
<1>7. CASE /\ cells[<<t, array>>].control = Nil
           /\ cells' = [cells EXCEPT ![<<t, array>>] = [control |-> NextTick(t), ticker |-> NextTick(t)]]
           /\ Born(NextTick(t), <<t, array>>)
           /\ NextTick(t)[1] = t
  <2>0. PICK n \in Tick : n = NextTick(t)
    BY <1>7 DEF Born
  <2>1. /\ cells'[<<t, array>>].control = n /\ cells'[<<t, array>>].ticker = n
        /\ \A d \in Cell : d # <<t, array>> => cells'[d] = cells[d]
    BY <1>1, <1>7, <2>0 DEF TypeOK
  <2>2. /\ ticking[n].pc = "none" /\ ticking'[n].pc = "loop" /\ ticking'[n].cell = <<t, array>> /\ n[1] = t
        /\ \A g \in Tick : g # n => ticking'[g] = ticking[g]
    BY <1>7, <2>0 DEF Born
  <2>3. \A g \in Tick : ~Stopping(g)'
    BY <1>2, <2>2 DEF Stopping
  <2>4. ASSUME NEW g \in Tick PROVE InPlace(g)'
    <3>1. CASE g = n
      BY <1>1, <2>1, <2>2, <2>3, <3>1 DEF InPlace
    <3>2. CASE g # n /\ ticking[g].pc \notin {"none", "done"}
      <4>1. Holding(g)
        BY <1>2, <3>2 DEF Holding, Stopping, TypeOK
      <4>2. ticking[g].cell \in Cell /\ cells[ticking[g].cell].control = g
        BY <3>2, <4>1 DEF TickInv, Pointing
      <4>3. cells'[ticking[g].cell] = cells[ticking[g].cell]
        BY <1>0, <1>7, <2>1, <4>2
      <4>4. QED
        BY <1>1, <2>2, <2>3, <3>2, <4>3 DEF CareInv, InPlace
    <3>3. CASE g # n /\ ticking[g].pc \in {"none", "done"}
      BY <2>2, <2>3, <3>3 DEF InPlace
    <3>4. QED
      BY <3>1, <3>2, <3>3
  <2>5. ASSUME NEW u \in Registered PROVE Held(u)'
    <3>1. CASE u = t
      BY <1>1, <2>1, <2>2, <3>1 DEF Held, Holding
    <3>2. CASE u # t
      <4>1. <<u, array>> \in Cell /\ <<u, array>> # <<t, array>>
        BY <1>0, <3>2, RegisteredAreTasks, CellIs
      <4>2. cells'[<<u, array>>] = cells[<<u, array>>]
        BY <2>1, <4>1
      <4>3. \A h \in Tick : Holding(h) => Holding(h)'
        BY <2>2 DEF Holding
      <4>4. QED
        BY <1>1, <4>2, <4>3, HeldKept DEF CareInv
    <3>3. QED
      BY <3>1, <3>2
  <2>6. QED
    BY <1>4, <1>5, <2>4, <2>5 DEF CareInv
<1>8. QED
  BY <1>1, <1>6, <1>7

\* A Stop finds a goroutine that ticks behind each channel it sends on.
LEMMA CareStop ==
    ASSUME TypeOK, SliceInv, CallInv, CellsInv, TickInv, CareInv,
           NEW c \in Callers, StopCheck(c) \/ StopSend(c)
    PROVE  CareInv'
<1> DEFINE i == call[c].i
           e == Element(i)
<1>0. call \in [Callers -> Uses] /\ Nil \notin Tick /\ Len(registrations) \in Nat
  BY TypeParts, NilAssumption
<1>1. /\ call[c].op \in {"stop", "send"} /\ i <= Len(registrations)
      /\ UNCHANGED <<running, mutex, registrations, array, ticking, cells>>
  BY DEF StopCheck, StopSend, sliceVars, CallInv, Calling
<1>2. mutex = c /\ running /\ i >= 1 /\ \A d \in Callers : d # c => call[d].op = "idle"
  BY <1>1, OthersIdle DEF CallInv, Calling, Idle, StopOps
<1>3. i \in 1 .. Len(registrations)
  BY <1>0, <1>1, <1>2 DEF Uses
<1>4. PICK t \in Registered : t = registrations[i] /\ e = <<t, array>> /\ e \in Cell
  BY <1>3, Elements
<1>5. cells[e].control \in Tick \cup {Nil} /\ call[c].ch \in Tick \cup {Nil}
  BY <1>4 DEF TypeOK
<1>6. ~Stopped(t)
  <2>1. mutex # NoCaller
    BY <1>2, SchedulerAssumption
  <2>2. \A j \in 1 .. i - 1 : registrations[j] # t
    <3> TAKE j \in 1 .. i - 1
    <3>1. j \in 1 .. Len(registrations) /\ j # i
      BY <1>0, <1>3
    <3>2. QED
      BY <1>3, <1>4, <3>1 DEF SliceInv
  <2>3. \A d \in Callers : call[d].op \in StopOps => d = c
    BY <1>2 DEF StopOps
  <2>4. QED
    BY <2>1, <2>2, <2>3 DEF Stopped
<1>7. ASSUME cells[e].control # Nil
      PROVE  Ticking(cells[e].control) /\ cells[e].control \in Tick
  <2>1. PICK g \in Tick : g = cells[e].control
    BY <1>5, <1>7
  <2>2. g[1] = t /\ Holding(g)
    BY <1>4, <1>7, <2>1 DEF CellsInv, CareInv, Held
  <2>3. ~Stopping(g)
    BY <1>6, <2>2 DEF CareInv, InPlace
  <2>4. Ticking(g)
    BY <2>2, <2>3 DEF Holding, Stopping, Ticking
  <2>5. QED
    BY <2>1, <2>4
<1>8. ASSUME call[c].op = "send"
      PROVE  call[c].ch = cells[e].control /\ call[c].ch \in Tick
  <2>1. PICK g \in Tick : g = call[c].ch
    BY <1>5, <1>8 DEF CareInv, Answered
  <2>2. g[1] = t /\ Ticking(g)
    BY <1>0, <1>4, <1>8, <2>1 DEF CareInv, Answered, CallInv, Calling
  <2>3. QED
    BY <1>4, <2>1, <2>2 DEF TickInv, Pointing
<1> HIDE DEF e
<1>9. \/ Advance(c) /\ call[c].op = "stop" /\ UNCHANGED panicked
      \/ /\ cells[e].control # Nil
         /\ \E op \in {"send", "sending"} : Sending(c, op, cells[e].control)
         /\ panicked' => panicked \/ cells[e].control \in closed
  <2>1. CASE StopCheck(c)
    <3>1. UNCHANGED panicked /\ call[c].op = "stop"
      BY <2>1 DEF StopCheck
    <3>2. IF cells[e].control = Nil THEN Advance(c) ELSE Sending(c, "send", cells[e].control)
      BY <2>1 DEF StopCheck, Sending, e
    <3>3. QED
      BY <3>1, <3>2
  <2>2. CASE StopSend(c)
    <3>1. PICK ch \in {call[c].ch, cells[e].control} :
              Sending(c, "sending", ch) /\ panicked' = (ch \in closed)
      BY <2>2 DEF StopSend, Sending, e
    <3>2. ch = cells[e].control /\ ch # Nil
      BY <1>0, <1>8, <2>2, <3>1 DEF StopSend
    <3>3. ~panicked
      BY DEF CareInv
    <3>4. QED
      BY <3>1, <3>2, <3>3
  <2>3. QED
    BY <2>1, <2>2
<1>10. cells[e].control # Nil => cells[e].control \notin closed
  BY <1>7 DEF TickInv, Pointing, Ticking
<1>11. ~panicked'
  BY <1>9, <1>10 DEF CareInv
<1>12. /\ call'[c].op \in StopOps
       /\ \A j \in 1 .. i - 1 : j \in 1 .. call'[c].i - 1
       /\ \A d \in Callers : d # c => call'[d] = call[d]
       /\ call'[c].op \in {"send", "sending"} => call'[c].ch = cells[e].control /\ cells[e].control # Nil
  <2>1. CASE Advance(c) /\ call[c].op = "stop"
    <3>1. i <= Cardinality(Tasks)
      BY <1>1, <1>3, Sizes DEF TypeOK
    <3>2. call'[c].op = "stop" /\ call'[c].i = i + 1 /\ \A d \in Callers : d # c => call'[d] = call[d]
      BY <1>0, <2>1, <3>1, Advances
    <3> HIDE DEF i
    <3>3. \A j \in 1 .. i - 1 : j \in 1 .. call'[c].i - 1
      BY <1>0, <1>3, <3>2
    <3>4. QED
      BY <3>2, <3>3 DEF StopOps
  <2>2. ASSUME NEW op \in {"send", "sending"}, Sending(c, op, cells[e].control), cells[e].control # Nil
        PROVE  /\ call'[c].op \in StopOps /\ call'[c].i = i
               /\ \A d \in Callers : d # c => call'[d] = call[d]
               /\ call'[c].ch = cells[e].control
    <3>1. PICK ch \in Tick \cup {Nil} : ch = cells[e].control
      BY <1>5
    <3>2. /\ call'[c].op = op /\ call'[c].i = i /\ call'[c].ch = ch
          /\ \A d \in Callers : d # c => call'[d] = call[d]
      BY <1>0, <2>2, <3>1, Sends
    <3>3. QED
      BY <3>1, <3>2 DEF StopOps
  <2>3. QED
    BY <1>9, <2>1, <2>2
<1>13. ASSUME NEW u, Stopped(u) PROVE Stopped(u)'
  <2>1. PICK d \in Callers : call[d].op \in StopOps /\ \E j \in 1 .. call[d].i - 1 : registrations[j] = u
    BY <1>2, <1>13, SchedulerAssumption DEF Stopped
  <2>2. d = c
    BY <1>2, <2>1 DEF StopOps
  <2>3. PICK j \in 1 .. i - 1 : registrations[j] = u
    BY <2>1, <2>2
  <2>4. QED
    BY <1>1, <1>12, <2>3 DEF Stopped
<1>14. \A g \in Tick : InPlace(g)'
  BY <1>1, <1>13 DEF CareInv, InPlace, Stopping
<1>15. Registered' = Registered
  BY <1>1 DEF Registered
<1>16. \A u \in Registered : Held(u)'
  BY <1>1 DEF CareInv, Held, Holding
<1>17. \A d \in Callers : Answered(d)'
  <2>1. Answered(c)'
    <3>1. cells[e].control # Nil => Ticking(cells[e].control)
      BY <1>7
    <3>2. QED
      BY <1>1, <1>12, <3>1 DEF Answered, Ticking
  <2>2. \A d \in Callers : d # c => Answered(d)'
    BY <1>2, <1>12, NoneIsAnswered
  <2>3. QED
    BY <2>1, <2>2
<1>18. QED
  BY <1>11, <1>14, <1>15, <1>16, <1>17 DEF CareInv

LEMMA CareUnlock ==
    ASSUME TypeOK, CallInv, CareInv, NEW c \in Callers, Unlock(c)
    PROVE  CareInv'
<1>1. /\ call[c].op \in {"start", "stop"} /\ running' = (call[c].op = "start") /\ mutex' = NoCaller
      /\ call' = [call EXCEPT ![c] = Idle]
      /\ UNCHANGED <<registrations, array, cells, ticking, panicked>>
  BY DEF Unlock
<1>2. mutex = c
  BY <1>1 DEF CallInv, Calling
<1>3. \A d \in Callers : call'[d].op = "idle"
  BY <1>1, <1>2, OthersIdle DEF Idle, TypeOK
<1>4. \A d \in Callers : Answered(d)'
  BY <1>3, NoneIsAnswered
<1>5. \A g \in Tick : InPlace(g)'
  <2>1. CASE call[c].op = "start"
    <3>1. \A g \in Tick : ~Stopping(g)
      BY <2>1, NoneStops
    <3>2. QED
      BY <1>1, <3>1 DEF CareInv, InPlace, Stopping
  <2>2. CASE call[c].op = "stop"
    <3>1. \A t : Stopped(t)'
      BY <1>1, <2>2 DEF Stopped
    <3>2. QED
      BY <1>1, <3>1 DEF CareInv, InPlace
  <2>3. QED
    BY <1>1, <2>1, <2>2
<1>6. Registered' = Registered /\ ~panicked'
  BY <1>1 DEF Registered, CareInv
<1>7. \A u \in Registered : Held(u)'
  BY <1>1 DEF CareInv, Held, Holding
<1>8. QED
  BY <1>4, <1>5, <1>6, <1>7 DEF CareInv

LEMMA CareReceiveStop ==
    ASSUME TypeOK, CallInv, TickInv, CareInv, NEW g \in Tick, NEW c \in Callers, ReceiveStop(g, c)
    PROVE  CareInv'
<1>0. call \in [Callers -> Uses]
  BY TypeParts
<1>1. /\ call[c].op = "sending" /\ call[c].ch = ticking[g].ctl /\ call[c].ch # Nil
      /\ ticking[g].pc = "select"
      /\ call' = [call EXCEPT ![c] = [op |-> "stop", i |-> call[c].i + 1, ch |-> Nil]]
      /\ UNCHANGED <<registrations, array, cells, running, mutex, panicked>>
  BY DEF ReceiveStop, sliceVars
<1>2. call[c].ch = g
  BY <1>1 DEF TickInv, Pointing
<1>3. /\ call[c].i >= 1 /\ call[c].i <= Len(registrations) /\ g[1] = registrations[call[c].i]
      /\ mutex = c /\ running
  BY <1>1, <1>2 DEF CallInv, Calling, StopOps
<1>4. \A d \in Callers : d # c => call[d].op = "idle"
  BY <1>3, OthersIdle DEF Idle
<1>5. /\ ticking'[g].pc = "close" /\ ticking'[g].cell = ticking[g].cell
      /\ \A h \in Tick : h # g => ticking'[h] = ticking[h]
  BY TickMoves DEF Pcs, Moves
<1>6. call'[c].op = "stop" /\ call'[c].i = call[c].i + 1 /\ \A d \in Callers : d # c => call'[d] = call[d]
  BY <1>0, <1>1
<1>7. \A d \in Callers : Answered(d)'
  BY <1>4, <1>6, NoneIsAnswered
<1>8. \A j \in 1 .. call[c].i : j \in 1 .. call'[c].i - 1
  BY <1>0, <1>6 DEF Uses
<1>9. Stopped(g[1])'
  <2>1. call[c].i \in 1 .. call[c].i
    BY <1>0, <1>3 DEF Uses
  <2>2. QED
    BY <1>1, <1>3, <1>6, <1>8, <2>1 DEF Stopped, StopOps
<1>10. ASSUME NEW u, Stopped(u) PROVE Stopped(u)'
  <2>1. PICK d \in Callers : call[d].op \in StopOps /\ \E j \in 1 .. call[d].i - 1 : registrations[j] = u
    BY <1>3, <1>10 DEF Stopped
  <2>2. d = c
    BY <1>4, <2>1 DEF StopOps
  <2>3. PICK j \in 1 .. call[c].i - 1 : registrations[j] = u
    BY <2>1, <2>2
  <2>4. j \in 1 .. call[c].i
    BY <1>0, <2>3 DEF Uses
  <2>5. QED
    BY <1>1, <1>6, <1>8, <2>3, <2>4 DEF Stopped, StopOps
<1>11. ASSUME NEW h \in Tick PROVE InPlace(h)'
  <2>1. InPlace(h)
    BY DEF CareInv
  <2>2. CASE h = g
    BY <1>1, <1>5, <1>9, <2>1, <2>2 DEF InPlace
  <2>3. CASE h # g
    BY <1>1, <1>5, <1>10, <2>1, <2>3 DEF InPlace, Stopping
  <2>4. QED
    BY <2>2, <2>3
<1>12. \A h \in Tick : Holding(h) => Holding(h)'
  BY <1>5 DEF Holding
<1>13. \A u \in Registered : Held(u)'
  BY <1>1, <1>12, HeldKept DEF CareInv
<1>14. Registered' = Registered /\ ~panicked'
  BY <1>1 DEF Registered, CareInv
<1>15. QED
  BY <1>7, <1>11, <1>13, <1>14 DEF CareInv

\* Memory is forgotten by the goroutine it belongs to, and by no other.
LEMMA CareForget ==
    ASSUME TypeOK, CellsInv, TickInv, CareInv, NEW g \in Tick, NilControl(g) \/ NilTicker(g)
    PROVE  CareInv'
<1>1. UNCHANGED <<registrations, array, running, mutex, call, panicked>>
  BY DEF NilControl, NilTicker, sliceVars, userVars
<1>2. /\ ticking[g].cell \in Cell
      /\ \A d \in Cell : d # ticking[g].cell => cells'[d] = cells[d]
  BY NilWrites
<1>3. /\ ticking[g].pc \in {"nilControl", "nilTicker"}
      /\ ticking'[g].pc \in {"stopTicker", "done"} /\ ticking'[g].cell = ticking[g].cell
      /\ \A h \in Tick : h # g => ticking'[h] = ticking[h]
  BY TickMoves DEF Pcs, Moves
<1>4. \A u : Stopped(u)' <=> Stopped(u)
  BY <1>1 DEF Stopped
<1>5. cells[ticking[g].cell].ticker = g /\ ticking[g].cell = <<g[1], array>>
  BY <1>3 DEF CareInv, InPlace
<1>6. ASSUME NEW h \in Tick, h # g PROVE InPlace(h)'
  <2>1. InPlace(h) /\ ticking'[h] = ticking[h]
    BY <1>3, <1>6 DEF CareInv
  <2>2. CASE ticking[h].pc \notin {"none", "done"}
    <3>1. ticking[h].cell \in Cell /\ ticking[h].cell # ticking[g].cell
      BY <1>5, <1>6, <2>1, <2>2 DEF InPlace, TickInv, Pointing
    <3>2. cells'[ticking[h].cell] = cells[ticking[h].cell]
      BY <1>2, <3>1
    <3>3. QED
      BY <1>1, <1>4, <2>1, <3>2 DEF InPlace, Stopping
  <2>3. CASE ticking[h].pc \in {"none", "done"}
    BY <2>1, <2>3 DEF InPlace, Stopping
  <2>4. QED
    BY <2>2, <2>3
<1>7. InPlace(g)'
  <2>1. CASE NilControl(g)
    <3>1. cells'[ticking[g].cell].ticker = g
      BY <1>2, <1>5, <2>1, NilWrites
    <3>2. Stopping(g)
      BY <2>1 DEF NilControl, Stopping
    <3>3. Stopped(g[1])
      BY <3>2 DEF CareInv, InPlace
    <3>4. QED
      BY <1>1, <1>3, <1>4, <1>5, <3>1, <3>3 DEF InPlace
  <2>2. CASE NilTicker(g)
    <3>1. ticking'[g].pc = "done"
      BY <2>2, TickMoves DEF Pcs, Moves
    <3>2. QED
      BY <3>1 DEF InPlace, Stopping
  <2>3. QED
    BY <2>1, <2>2
<1>8. ASSUME NEW u \in Registered PROVE Held(u)'
  <2>1. <<u, array>> \in Cell /\ <<u, array>>[1] = u
    BY RegisteredAreTasks, CellIs DEF TypeOK
  <2>2. CASE NilControl(g)
    <3>1. cells[ticking[g].cell].control = g /\ cells'[ticking[g].cell].control = Nil
      BY <2>2, NilWrites
    <3>2. CASE <<u, array>> = ticking[g].cell
      BY <1>1, <3>1, <3>2 DEF Held
    <3>3. CASE <<u, array>> # ticking[g].cell
      <4>1. cells'[<<u, array>>] = cells[<<u, array>>]
        BY <1>2, <2>1, <3>3
      <4>2. CASE cells[<<u, array>>].control = Nil
        BY <1>1, <4>1, <4>2 DEF Held
      <4>3. CASE cells[<<u, array>>].control # Nil
        <5>1. PICK h \in Tick : h = cells[<<u, array>>].control
          BY <2>1, <4>3 DEF TypeOK
        <5>2. h[1] = u /\ Holding(h)
          BY <2>1, <4>3, <5>1 DEF CellsInv, CareInv, Held
        <5>3. h # g
          BY <1>5, <3>3, <5>2
        <5>4. Holding(h)'
          BY <1>3, <5>2, <5>3 DEF Holding
        <5>5. cells'[<<u, array'>>].control = h
          BY <1>1, <4>1, <5>1
        <5>6. QED
          BY <5>4, <5>5 DEF Held, Holding
      <4>4. QED
        BY <4>2, <4>3
    <3>4. QED
      BY <3>2, <3>3
  <2>3. CASE NilTicker(g)
    <3>1. cells'[<<u, array>>].control = cells[<<u, array>>].control
      BY <2>1, <2>3, NilWrites
    <3>2. ticking[g].pc = "nilTicker"
      BY <2>3 DEF NilTicker
    <3>3. \A h \in Tick : Holding(h) => Holding(h)'
      BY <1>3, <3>2 DEF Holding
    <3>4. QED
      BY <1>1, <3>1, <3>3, HeldKept DEF CareInv
  <2>4. QED
    BY <2>2, <2>3
<1>9. ASSUME NEW c \in Callers PROVE Answered(c)'
  <2>1. \A h \in Tick : Ticking(h) => Ticking(h)'
    BY <1>3 DEF Ticking
  <2>2. QED
    BY <1>1, <2>1, AnsweredKept DEF CareInv
<1>10. Registered' = Registered /\ ~panicked'
  BY <1>1 DEF Registered, CareInv
<1>11. QED
  BY <1>6, <1>7, <1>8, <1>9, <1>10 DEF CareInv

\* Nobody sends on the channel that is closed, and the ticker that is stopped is there.
LEMMA CareMoves ==
    ASSUME TypeOK, TickInv, CareInv, NEW g \in Tick,
           Select(g) \/ ReceiveTick(g) \/ Close(g) \/ StopTicker(g)
    PROVE  CareInv'
<1>1. Stays(g)
  BY TickMoves DEF Stays
<1>2. UNCHANGED <<registrations, array, cells, running, mutex, call>>
  BY DEF Select, ReceiveTick, Close, StopTicker, sliceVars, userVars
<1>3. ~panicked
  BY DEF CareInv
<1>4. CASE Select(g) \/ ReceiveTick(g)
  <2>1. panicked' = panicked
    BY <1>4 DEF Select, ReceiveTick
  <2>2. QED
    BY <1>1, <1>2, <1>3, <2>1, StaysInPlace
<1>5. CASE Close(g)
  <2>1. panicked' = (\E c \in Callers : call[c].op = "sending" /\ call[c].ch = g)
    BY <1>5, CloseIs
  <2>2. ~Ticking(g)
    BY <1>5 DEF Close, Ticking
  <2>3. ~panicked'
    BY <2>1, <2>2 DEF CareInv, Answered
  <2>4. QED
    BY <1>1, <1>2, <2>3, StaysInPlace
<1>6. CASE StopTicker(g)
  <2>1. panicked' = (cells[ticking[g].cell].ticker = Nil) /\ ticking[g].pc = "stopTicker"
    BY <1>6 DEF StopTicker
  <2>2. cells[ticking[g].cell].ticker = g
    BY <2>1 DEF CareInv, InPlace
  <2>3. ~panicked'
    BY <2>1, <2>2, NilAssumption
  <2>4. QED
    BY <1>1, <1>2, <2>3, StaysInPlace
<1>7. QED
  BY <1>4, <1>5, <1>6

LEMMA CareStep ==
    ASSUME TypeOK, SliceInv, CallInv, NamesInv, CellsInv, TickInv, CarefulInv, [Next]_vars
    PROVE  CarefulInv'
<1>1. (careful => CareInv) /\ (CarefulInv' <=> (careful' => CareInv'))
  BY DEF CarefulInv
<1>2. SUFFICES ASSUME careful' PROVE CareInv'
  BY <1>1
<1>3. careful' => careful
  BY NextCases DEF Register, Lock, StartOne, StopCheck, StopSend, Unlock, Select, ReceiveTick,
     ReceiveStop, Close, NilControl, StopTicker, NilTicker, Fire, RunEnds, vars, userVars
<1>4. CareInv
  BY <1>1, <1>2, <1>3
<1>5. CASE UNCHANGED <<registrations, array, cells, running, mutex, call, ticking, panicked>>
  <2>1. \A g \in Tick : InPlace(g)'
    BY <1>4, <1>5 DEF CareInv, InPlace, Stopping, Stopped
  <2>2. \A t \in Registered : Held(t)'
    BY <1>4, <1>5 DEF CareInv, Held, Holding
  <2>3. \A c \in Callers : Answered(c)'
    BY <1>4, <1>5 DEF CareInv, Answered, Ticking
  <2>4. Registered' = Registered /\ ~panicked'
    BY <1>4, <1>5 DEF CareInv, Registered
  <2>5. QED
    BY <2>1, <2>2, <2>3, <2>4 DEF CareInv
<1>6. \/ \E g \in Tick : Fire(g)
      \/ \E t \in Tasks : RunEnds(t)
      \/ UNCHANGED vars
      => UNCHANGED <<registrations, array, cells, running, mutex, call, ticking, panicked>>
  BY DEF Fire, RunEnds, vars, sliceVars, userVars
<1>7. QED
  BY NextCases, <1>2, <1>4, <1>5, <1>6, CareRegister, CareLock, CareStart, CareStop, CareUnlock,
     CareReceiveStop, CareForget, CareMoves

-----------------------------------------------------------------------------
(* The theorems.                                                           *)

LEMMA SchedulerInit == Init => SchedulerInv
<1> SUFFICES ASSUME Init PROVE SchedulerInv
  OBVIOUS
<1>0. /\ Cardinality(Tasks) \in Nat /\ MaxCalls \in Nat /\ MaxBusy \in Nat \ {0}
      /\ NoCaller \notin Callers
  BY Sizes, SchedulerAssumption
<1>1. Registered = {} /\ Len(registrations) = 0
  BY DEF Init, Registered
<1>2. Idle \in Uses /\ 0 \in 0 .. MaxBusy /\ 0 \in 0 .. MaxCalls /\ 0 \in 0 .. Cardinality(Tasks)
  BY <1>0 DEF Idle, Uses
<1>3. TypeOK
  <2>1. /\ [control |-> Nil, ticker |-> Nil] \in Places
        /\ [pc |-> "none", cell |-> Nil, tick |-> Nil, ctl |-> Nil] \in Routines
    BY DEF Places, Routines, PCs
  <2>2. /\ cells \in [Cell -> Places]
        /\ ticking \in [Tick -> Routines]
        /\ busy \in [Tasks -> 0 .. MaxBusy]
        /\ call \in [Callers -> Uses]
    BY <1>2, <2>1 DEF Init
  <2>3. registrations \in Seq(Tasks) /\ Len(registrations) <= Cardinality(Tasks)
    BY <1>0 DEF Init
  <2>4. QED
    BY <1>2, <2>2, <2>3, TypeParts DEF Init
<1>4. SliceInv
  <2>1. Cardinality(Registered) = 0
    BY <1>1, FS_EmptySet
  <2>2. QED
    BY <1>1, <2>1 DEF SliceInv, Init
<1>5. \A c \in Callers : call[c] = Idle /\ call[c].op = "idle"
  BY DEF Init, Idle
<1>6. CallInv
  BY <1>0, <1>5 DEF CallInv, Calling, StopOps, Init
<1>7. \A g \in Tick : ticking[g].pc = "none"
  BY DEF Init
<1>8. NamesInv
  <2> SUFFICES ASSUME NEW t \in Tasks PROVE Used(t, 0)
    BY DEF NamesInv, Init
  <2>1. ~Awaits(t)
    BY <1>5 DEF Awaits
  <2>2. \A n \in 1 .. MaxCalls + 1 : ticking[<<t, n>>].pc # "none" <=> n <= 0
    BY <1>7, TickIs
  <2>3. QED
    BY <2>1, <2>2 DEF Used
<1>9. CellsInv
  BY CellIs DEF CellsInv, Init, Bare
<1>10. TickInv
  BY <1>7 DEF TickInv, Pointing, Holding, Ticking, Init
<1>11. StopInv
  BY <1>5, <1>7 DEF StopInv, StopIsEffective, Passed, Ticking, StopOps
<1>12. CarefulInv
  BY <1>1, <1>5, <1>7 DEF CarefulInv, CareInv, InPlace, Answered, Stopping, Init
<1>13. QED
  BY <1>3, <1>4, <1>6, <1>8, <1>9, <1>10, <1>11, <1>12 DEF SchedulerInv

LEMMA SchedulerStep == SchedulerInv /\ [Next]_vars => SchedulerInv'
BY TypeStep, SliceStep, CallStep, NamesStep, CellsStep, TickStep, StopStep, CareStep DEF SchedulerInv

\* What the scheduler keeps at every step of any use: a registration and its
\* goroutine know each other, and Stop goes through all of them (periodic/tasks.go).
THEOREM SchedulerInvHolds == Spec => []SchedulerInv
BY SchedulerInit, SchedulerStep, PTL DEF Spec

\* However the scheduler is used, its variables have their types, a Stop that has
\* returned leaves nothing that ticks, and no task has two goroutines (Start, Stop, start).
THEOREM TickingSound == Spec => []TickingIsSound
<1>1. SchedulerInv => TickingIsSound
  BY OneTicks DEF SchedulerInv, StopInv, TickingIsSound, NoDoubleTicking
<1>2. QED
  BY <1>1, SchedulerInvHolds, PTL

\* A program that registers its tasks while the scheduler is stopped, and lets the
\* goroutines of a Stop return before the next Register or Start, never panics.
THEOREM CarefulIsSafe == Spec => []CarefulNeverPanics
<1>1. SchedulerInv => CarefulNeverPanics
  BY DEF SchedulerInv, CarefulInv, CareInv, CarefulNeverPanics
<1>2. QED
  BY <1>1, SchedulerInvHolds, PTL
=============================================================================
