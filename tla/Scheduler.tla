----------------------------- MODULE Scheduler -----------------------------
(***************************************************************************)
(* The scheduler of periodic tasks, periodic/tasks.go: a slice of task     *)
(* registrations guarded by a mutex, and one ticking goroutine for each    *)
(* started registration, told to stop through an unbuffered channel.       *)
(*                                                                         *)
(* The goroutines hold a pointer to their registration and use it without  *)
(* the mutex, so the model keeps the memory: a cell for the local variable *)
(* of Register, and a cell for each array the slice has had, since append  *)
(* copies the registrations to a larger array when the old one is full.    *)
(*                                                                         *)
(* One call of taskRegistration.start makes one time.Ticker, one channel   *)
(* and one goroutine: the three have the same name, a "tick" <<task, n>>.  *)
(***************************************************************************)
EXTENDS Integers, Sequences, FiniteSets

CONSTANTS
    Tasks,     \* the tasks that may be registered, once each
    Callers,   \* the goroutines that use the scheduler
    MaxCalls,  \* bound on the number of calls of Start and Stop
    MaxBusy,   \* bound on the executions of one task at a time
    Nil, NoCaller

ASSUME SchedulerAssumption ==
    /\ MaxCalls \in Nat
    /\ MaxBusy \in Nat \ {0}
    /\ NoCaller \notin Callers
    /\ IsFiniteSet(Tasks)

VARIABLES
    running,        \* Scheduler.running
    registrations,  \* Scheduler.registrations, the tasks in their order
    array,          \* which array the slice points to, 0 before the first
    mutex,          \* the caller that holds Scheduler.mutex
    cells,          \* the memory: control and ticker of each registration
    alive,          \* the tickers that have not been stopped
    fired,          \* the tickers with an unread tick in their channel
    closed,         \* the channels that are closed
    ticking,        \* the ticking goroutines
    busy,           \* the executions of each task, in goroutines of their own
    call,           \* what each caller is doing
    panicked,       \* the program has panicked
    calls,          \* history: number of calls of Start and Stop
    careful         \* history: no Register while ticking, and no Register or
                    \* Start before the goroutines of the last Stop returned

sliceVars == <<running, registrations, array>>
userVars  == <<mutex, call, calls, careful>>
runVars   == <<alive, fired, closed, busy>>
vars      == <<sliceVars, cells, ticking, panicked, userVars, runVars>>

Tick == Tasks \X (1 .. MaxCalls + 1)
Cell == Tasks \X (0 .. Cardinality(Tasks))
Idle == [op |-> "idle", i |-> 0, ch |-> Nil]

\* A nil pointer and a nil channel are no ticker and no channel.
ASSUME NilAssumption == Nil \notin Tick

\* The local variable r of Register, and the elements of the slice.
Local(t) == <<t, 0>>
Element(i) == <<registrations[i], array>>

Capacity == IF array = 0 THEN 0 ELSE 2 ^ (array - 1)

Registered == {registrations[i] : i \in 1 .. Len(registrations)}

\* The name of the next tick of a task.
NextTick(t) == <<t, Cardinality({g \in Tick : g[1] = t /\ ticking[g].pc # "none"}) + 1>>

Ticking(g) == ticking[g].pc \in {"loop", "select"}
AllReturned == \A g \in Tick : ticking[g].pc \in {"none", "done"}

-----------------------------------------------------------------------------
(* Register, Start and Stop.  A caller that panics stops the program.      *)

\* taskRegistration.start on a cell whose control is nil.
Started(mem, t, cell) ==
    [mem EXCEPT ![cell] = [control |-> NextTick(t), ticker |-> NextTick(t)]]

Go(t, cell) ==
    /\ ticking' = [ticking EXCEPT ![NextTick(t)] =
                       [pc |-> "loop", cell |-> cell, tick |-> Nil, ctl |-> Nil]]
    /\ alive' = alive \cup {NextTick(t)}

\* append(s.registrations, r): the elements are copied when the array is full.
Appended(mem, t) ==
    LET full == Len(registrations) = Capacity
        a    == IF full THEN array + 1 ELSE array
        moved == IF full THEN Registered ELSE {}
    IN [c \in Cell |-> IF c = <<t, a>> THEN mem[Local(t)]
                       ELSE IF c[1] \in moved /\ c[2] = a THEN mem[<<c[1], array>>]
                       ELSE mem[c]]

\* A bug: the task is appended before it is started.
AppendedEarly(t) == Started(Appended(cells, t), t, Local(t))

\* What Register leaves in memory when the scheduler is ticking.
RegisteredTicking(t) == Appended(Started(cells, t, Local(t)), t)

\* Nothing in Register is visible to the other goroutines until it unlocks.
Register(c, t) ==
    /\ call[c] = Idle /\ mutex = NoCaller
    /\ t \notin Registered
    /\ registrations' = Append(registrations, t)
    /\ array' = IF Len(registrations) = Capacity THEN array + 1 ELSE array
    /\ IF running
       THEN Go(t, Local(t)) /\ cells' = RegisteredTicking(t)
       ELSE cells' = Appended(cells, t) /\ UNCHANGED <<ticking, alive>>
    /\ careful' = (careful /\ ~running /\ AllReturned)
    /\ UNCHANGED <<running, mutex, call, calls, fired, closed, busy, panicked>>

\* Start and Stop of a scheduler that is already in that state only log.
Lock(c, op) ==
    /\ call[c] = Idle /\ mutex = NoCaller /\ calls < MaxCalls
    /\ calls' = calls + 1
    /\ IF running = (op = "start")
       THEN UNCHANGED <<mutex, call, careful>>
       ELSE /\ mutex' = c
            /\ call' = [call EXCEPT ![c] = [op |-> op, i |-> 1, ch |-> Nil]]
            /\ careful' = (careful /\ (op = "start" => AllReturned))
    /\ UNCHANGED <<sliceVars, cells, ticking, panicked, runVars>>

Advance(c) == call' = [call EXCEPT ![c].i = @ + 1, ![c].ch = Nil]

StartOne(c) ==
    LET i == call[c].i IN
    /\ call[c].op = "start" /\ i <= Len(registrations)
    /\ IF cells[Element(i)].control = Nil
       THEN /\ cells' = Started(cells, registrations[i], Element(i))
            /\ Go(registrations[i], Element(i))
       ELSE UNCHANGED <<cells, ticking, alive>>
    /\ Advance(c)
    /\ UNCHANGED <<sliceVars, mutex, calls, careful, panicked, fired, closed, busy>>

\* taskRegistration.stop reads control, and reads it again to send on it.
StopCheck(c) ==
    LET i == call[c].i IN
    /\ call[c].op = "stop" /\ i <= Len(registrations)
    /\ IF cells[Element(i)].control = Nil
       THEN Advance(c)
       ELSE call' = [call EXCEPT ![c].op = "send", ![c].ch = cells[Element(i)].control]
    /\ UNCHANGED <<sliceVars, cells, ticking, panicked, mutex, calls, careful, runVars>>

\* The compiler may keep the first value of control or load it again; a send
\* on a nil channel blocks for ever, a send on a closed channel panics.
StopSend(c) ==
    /\ call[c].op = "send"
    /\ \E ch \in {call[c].ch, cells[Element(call[c].i)].control} :
           /\ call' = [call EXCEPT ![c].op = "sending", ![c].ch = ch]
           /\ panicked' = (ch \in closed)
    /\ UNCHANGED <<sliceVars, cells, ticking, mutex, calls, careful, runVars>>

\* running is set when every registration has been gone through.
Unlock(c) ==
    /\ call[c].op \in {"start", "stop"} /\ call[c].i > Len(registrations)
    /\ running' = (call[c].op = "start")
    /\ mutex' = NoCaller
    /\ call' = [call EXCEPT ![c] = Idle]
    /\ UNCHANGED <<registrations, array, cells, ticking, panicked, calls, careful, runVars>>

-----------------------------------------------------------------------------
(* taskRegistration.tick                                                   *)

\* A bug: the tick is run and the loop is left.
Leaves == "done"

\* The loop goes on after a tick.
Loops == "loop"

\* select evaluates its two channels once.
Select(g) ==
    LET r == cells[ticking[g].cell] IN
    /\ ticking[g].pc = "loop"
    /\ ticking' = [ticking EXCEPT ![g] = [@ EXCEPT !.pc = "select", !.tick = r.ticker, !.ctl = r.control]]
    /\ UNCHANGED <<sliceVars, cells, panicked, userVars, runVars>>

\* A tick starts the task, whether its last execution has ended or not.
ReceiveTick(g) ==
    /\ ticking[g].pc = "select" /\ ticking[g].tick \in fired
    /\ busy[g[1]] < MaxBusy
    /\ fired' = fired \ {ticking[g].tick}
    /\ busy' = [busy EXCEPT ![g[1]] = @ + 1]
    /\ ticking' = [ticking EXCEPT ![g].pc = Loops]
    /\ UNCHANGED <<sliceVars, cells, panicked, userVars, alive, closed>>

ReceiveStop(g, c) ==
    /\ ticking[g].pc = "select"
    /\ call[c].op = "sending" /\ call[c].ch = ticking[g].ctl /\ call[c].ch # Nil
    /\ ticking' = [ticking EXCEPT ![g].pc = "close"]
    /\ call' = [call EXCEPT ![c] = [op |-> "stop", i |-> @.i + 1, ch |-> Nil]]
    /\ UNCHANGED <<sliceVars, cells, panicked, mutex, calls, careful, runVars>>

\* close(t.control) panics when control is nil or closed, and makes the senders panic.
Close(g) ==
    LET ch == cells[ticking[g].cell].control IN
    /\ ticking[g].pc = "close"
    /\ closed' = closed \cup ({ch} \ {Nil})
    /\ panicked' = (ch \in closed \cup {Nil} \/ \E c \in Callers : call[c].op = "sending" /\ call[c].ch = ch)
    /\ ticking' = [ticking EXCEPT ![g].pc = "nilControl"]
    /\ UNCHANGED <<sliceVars, cells, userVars, alive, fired, busy>>

\* A bug: the channel is closed and not forgotten.
ForgetNothing(cell) == cells

ForgetControl(cell) == [cells EXCEPT ![cell].control = Nil]

NilControl(g) ==
    /\ ticking[g].pc = "nilControl"
    /\ cells' = ForgetControl(ticking[g].cell)
    /\ ticking' = [ticking EXCEPT ![g].pc = "stopTicker"]
    /\ UNCHANGED <<sliceVars, panicked, userVars, runVars>>

\* t.ticker.Stop() panics when t.ticker is nil.
StopTicker(g) ==
    LET k == cells[ticking[g].cell].ticker IN
    /\ ticking[g].pc = "stopTicker"
    /\ alive' = alive \ {k}
    /\ panicked' = (k = Nil)
    /\ ticking' = [ticking EXCEPT ![g].pc = "nilTicker"]
    /\ UNCHANGED <<sliceVars, cells, userVars, fired, closed, busy>>

NilTicker(g) ==
    /\ ticking[g].pc = "nilTicker"
    /\ cells' = [cells EXCEPT ![ticking[g].cell].ticker = Nil]
    /\ ticking' = [ticking EXCEPT ![g].pc = "done"]
    /\ UNCHANGED <<sliceVars, panicked, userVars, runVars>>

\* time.Ticker keeps one tick and drops the others.
Fire(k) ==
    /\ k \in alive /\ k \notin fired
    /\ fired' = fired \cup {k}
    /\ UNCHANGED <<sliceVars, cells, ticking, panicked, userVars, alive, closed, busy>>

RunEnds(t) ==
    /\ busy[t] > 0
    /\ busy' = [busy EXCEPT ![t] = @ - 1]
    /\ UNCHANGED <<sliceVars, cells, ticking, panicked, userVars, alive, fired, closed>>

-----------------------------------------------------------------------------
Init ==
    /\ running = FALSE
    /\ registrations = <<>>
    /\ array = 0
    /\ mutex = NoCaller
    /\ cells = [c \in Cell |-> [control |-> Nil, ticker |-> Nil]]
    /\ alive = {} /\ fired = {} /\ closed = {}
    /\ ticking = [g \in Tick |-> [pc |-> "none", cell |-> Nil, tick |-> Nil, ctl |-> Nil]]
    /\ busy = [t \in Tasks |-> 0]
    /\ call = [c \in Callers |-> Idle]
    /\ panicked = FALSE
    /\ calls = 0
    /\ careful = TRUE

\* The steps of a call that has the mutex.
Proceed(c) == StartOne(c) \/ StopCheck(c) \/ StopSend(c) \/ Unlock(c)

Tickings(g) ==
    \/ Select(g) \/ ReceiveTick(g) \/ \E c \in Callers : ReceiveStop(g, c)
    \/ Close(g) \/ NilControl(g) \/ StopTicker(g) \/ NilTicker(g)

Next ==
    /\ ~panicked
    /\ \/ \E c \in Callers : \/ \E t \in Tasks : Register(c, t)
                             \/ Lock(c, "start") \/ Lock(c, "stop")
                             \/ Proceed(c)
       \/ \E g \in Tick : Tickings(g) \/ Fire(g)
       \/ \E t \in Tasks : RunEnds(t)

\* The Go runtime runs every goroutine that can run, a ticker that was not
\* stopped ticks again, and a task ends.  select chooses among its ready
\* channels at random, so a goroutine that is told to stop in vain for ever
\* would need endless bad luck: strong fairness of ReceiveStop.
Fairness ==
    /\ \A c \in Callers : WF_vars(~panicked /\ Proceed(c))
    /\ \A g \in Tick :
           /\ WF_vars(~panicked /\ Tickings(g))
           /\ SF_vars(~panicked /\ \E c \in Callers : ReceiveStop(g, c))
           /\ WF_vars(~panicked /\ Fire(g))
    /\ \A t \in Tasks : WF_vars(~panicked /\ RunEnds(t))

Spec == Init /\ [][Next]_vars /\ Fairness

-----------------------------------------------------------------------------
\* The type invariant of all the variables above.
TypeOK ==
    /\ running \in BOOLEAN
    /\ registrations \in Seq(Tasks)
    /\ Len(registrations) <= Cardinality(Tasks)
    /\ array \in 0 .. Cardinality(Tasks)
    /\ mutex \in Callers \cup {NoCaller}
    /\ cells \in [Cell -> [control : Tick \cup {Nil}, ticker : Tick \cup {Nil}]]
    /\ alive \in SUBSET Tick
    /\ fired \in SUBSET Tick
    /\ closed \in SUBSET Tick
    /\ ticking \in [Tick -> [pc : {"none", "loop", "select", "close", "nilControl",
                                   "stopTicker", "nilTicker", "done"},
                             cell : Cell \cup {Nil},
                             tick : Tick \cup {Nil}, ctl : Tick \cup {Nil}]]
    /\ busy \in [Tasks -> 0 .. MaxBusy]
    /\ call \in [Callers -> [op : {"idle", "start", "stop", "send", "sending"},
                             i : 0 .. Cardinality(Tasks) + 1, ch : Tick \cup {Nil}]]
    /\ panicked \in BOOLEAN
    /\ calls \in 0 .. MaxCalls
    /\ careful \in BOOLEAN

\* Once Stop has returned no goroutine is left that could start a task again,
\* however the scheduler is used.
StopIsEffective ==
    ~running /\ mutex = NoCaller => \A g \in Tick : ~Ticking(g)

\* However the scheduler is used, no two goroutines tick for the same task.
NoDoubleTicking ==
    \A g, h \in Tick : g[1] = h[1] /\ Ticking(g) /\ Ticking(h) => g = h

\* A program that registers its tasks while the scheduler is stopped, and lets
\* the goroutines of a Stop return before the next Register or Start, never panics.
CarefulNeverPanics == careful => ~panicked

\* In such a program every call returns.
CarefulCallsReturn ==
    \A c \in Callers : careful /\ call[c] # Idle ~> call[c] = Idle \/ ~careful

\* In such a program a scheduler that is ticking starts each of its tasks again and again.
CarefulTicks ==
    \A t \in Tasks :
        careful /\ running /\ t \in Registered
            ~> busy[t] > 0 \/ ~running \/ ~careful

\* Whoever uses the scheduler with care waits for no call for ever, and may rely on each task
\* until the scheduler is stopped (Start, Stop, start).
CarefulIsLive == CarefulCallsReturn /\ CarefulTicks

\* However the scheduler is used, its variables have their types, a Stop that has
\* returned leaves nothing that ticks, and no task has two goroutines (Start, Stop, start).
TickingIsSound == TypeOK /\ StopIsEffective /\ NoDoubleTicking

\* "It may be used in parallel": no use of the scheduler makes it panic.
NeverPanics == ~panicked
=============================================================================
