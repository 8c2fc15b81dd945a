--------------------------- MODULE RunLoopProofs ---------------------------
(***************************************************************************)
(* What holds of the run loop for any handles, deadlines, ids, nesting     *)
(* depth and sizes of the result buffer.                                   *)
(***************************************************************************)
EXTENDS RunLoop, FiniteSetTheorems, SequenceTheorems,
        WellFoundedInduction, TLAPS

USE RunLoopAssumption

-----------------------------------------------------------------------------
(* Facts about the operators.                                              *)

\* Earliest() of a non-empty set of times, used for both queues by
\* CalculateAbsoluteDeadline(), is its least element.
LEMMA EarliestIsLeast ==
  ASSUME NEW S \in SUBSET Nat, S # {}
  PROVE  Earliest(S) \in S /\ \A u \in S : Earliest(S) <= u
<1>1. IsWellFoundedOn(OpToRel(<, Nat), Nat)
  BY NatLessThanWellFounded
<1>2. PICK x \in S : \A y \in S : ~ (<<y, x>> \in OpToRel(<, Nat))
  BY <1>1, WFMin
<1>3. \A y \in S : ~(y < x)
  BY <1>2 DEF OpToRel
<1>4. \A y \in S : x <= y
  BY <1>3
<1> QED
  BY <1>4 DEF Earliest

\* A RunState without local variables is a RunState.
LEMMA FreshRunStateType ==
  ASSUME NEW p \in PCs, NEW q \in BOOLEAN, NEW s \in BOOLEAN,
         NEW n \in Nat \ {0}
  PROVE  FreshRunState(p, q, s, n) \in RunState
<1>1. 1 \in 1 .. MaxId + 1 /\ 0 \in Ticks
  BY DEF Ticks
<1>2. <<>> \in Seq([id: Ids, ok: BOOLEAN])
  OBVIOUS
<1> QED
  BY <1>1, <1>2 DEF FreshRunState, RunState

\* The innermost run has a RunState.
LEMMA TopType ==
  ASSUME TypeOK, depth > 0
  PROVE  depth \in 1 .. MaxDepth /\ Top \in RunState
  BY DEF TypeOK, Top

\* Assigning a RunState to the innermost run keeps the stack of runs typed.
LEMMA SetTopType ==
  ASSUME TypeOK, depth > 0, NEW rs \in RunState, SetTop(rs)
  PROVE  run_states' \in [1 .. MaxDepth -> RunState]
  BY DEF TypeOK, SetTop

\* So does ending an iteration, whether the run goes on or returns.
LEMMA EndIterationType ==
  ASSUME TypeOK, depth > 0, NEW c \in BOOLEAN, EndIteration(c)
  PROVE  /\ depth' \in 0 .. MaxDepth
         /\ run_states' \in [1 .. MaxDepth -> RunState]
<1>1. Top \in RunState /\ depth \in 1 .. MaxDepth
  BY TopType
<1>2. /\ Top.quit_when_idle \in BOOLEAN /\ Top.should_quit \in BOOLEAN
      /\ Top.results_size \in Nat \ {0}
  BY <1>1 DEF RunState
<1>5. /\ FreshRunState("iterate", Top.quit_when_idle, Top.should_quit,
                       Top.results_size) \in RunState
      /\ NoRunState \in RunState
  BY <1>2, FreshRunStateType DEF NoRunState, PCs
<1>3. CASE c
  BY <1>1, <1>5, <1>3, SetTopType DEF EndIteration, TypeOK
<1>4. CASE ~c
  BY <1>1, <1>5, <1>4, SetTopType DEF EndIteration, TypeOK
<1> QED
  BY <1>3, <1>4

\* Whether to go on is a truth value.
LEMMA AfterNotifyType ==
  ASSUME NEW rs \in RunState
  PROVE  AfterNotify(rs) \in BOOLEAN
  BY DEF AfterNotify, RunState

\* The wait of an iteration has a deadline the loop can represent, and
\* CalculateAbsoluteDeadline() bounds it by every live deadline and task.
LEMMA CalculateAbsoluteDeadlineType ==
  ASSUME TypeOK
  PROVE  /\ CalculateAbsoluteDeadline.for_task \in BOOLEAN
         /\ CalculateAbsoluteDeadline.deadline \in Ticks
<1> DEFINE live == {info[id].time : id \in handler_deadlines \cap handlers}
           tasks == {info[id].time : id \in delayed_tasks}
<1>1. live \in SUBSET Ticks /\ tasks \in SUBSET Ticks
  BY DEF TypeOK
<1>2. Ticks \subseteq Nat /\ 0 \in Ticks
  BY DEF Ticks
<1>3. /\ live # {} => Earliest(live) \in Ticks
      /\ tasks # {} => Earliest(tasks) \in Ticks
  BY <1>1, <1>2, EarliestIsLeast
<1>4. TaskFirst(tasks, live) \in BOOLEAN /\ (TaskFirst(tasks, live) => tasks # {})
  BY DEF TaskFirst
<1>5. CalculateAbsoluteDeadline =
        [for_task |-> TaskFirst(tasks, live),
         deadline |-> IF TaskFirst(tasks, live) THEN Earliest(tasks)
                      ELSE IF live # {} THEN Earliest(live)
                      ELSE kInvalidTimeTicks]
  BY DEF CalculateAbsoluteDeadline
<1> HIDE DEF live, tasks
<1> QED
  BY <1>2, <1>3, <1>4, <1>5 DEF kInvalidTimeTicks

\* A wait ends at a tick, or never.
LEMMA WaitUntilType ==
  ASSUME TypeOK, NEW now \in Ticks, NEW deadline \in Ticks
  PROVE  WaitUntil(now, deadline) \in Ticks \cup {MaxTicks + 1}
  BY DEF TypeOK, WaitUntil, Ticks, kInvalidTimeTicks

\* A function on an initial segment of the naturals is a sequence.
LEMMA FunctionIsSeq ==
  ASSUME NEW S, NEW n \in Nat, NEW f \in [1 .. n -> S]
  PROVE  f \in Seq(S)
<1>1. f \in UNION {[1 .. m -> S] : m \in Nat}
  OBVIOUS
<1> QED
  BY <1>1, SeqDef, Zenon

\* What the wait set can report is a finite set of ids.
LEMMA ReportableFinite ==
  ASSUME TypeOK
  PROVE  Reportable \subseteq Ids /\ Cardinality(Reportable) \in Nat
<1>1. Reportable \subseteq Ids
  BY DEF Reportable, TypeOK
<1>2. IsFiniteSet(Ids)
  BY FS_Interval DEF Ids
<1> QED
  BY <1>1, <1>2, FS_Subset, FS_CardinalityType

-----------------------------------------------------------------------------
(* The type invariant.                                                     *)

\* Every step of the loop, its callers and its environment keeps every
\* variable in its type.
LEMMA TypeStep ==
  TypeOK /\ [Next]_vars => TypeOK'
<1> SUFFICES ASSUME TypeOK, [Next]_vars PROVE TypeOK'
  OBVIOUS
<1>1. ASSUME NEW h \in Handles, NEW d \in Deadlines, AddHandler(h, d)
      PROVE  TypeOK'
  <2>1. d \in Nat /\ next_id \in Ids /\ next_id + 1 \in 1 .. MaxId + 1
    BY <1>1 DEF AddHandler, TypeOK, Ids
  <2>2. (IF Expires(d) THEN clock + d ELSE kInvalidTimeTicks) \in Ticks
    BY <2>1 DEF Expires, TypeOK, Ticks, kInvalidTimeTicks
  <2>3. info' \in [Ids -> [handle: Handles \cup {NoHandle}, time: Ticks]]
    BY <1>1, <2>1, <2>2 DEF AddHandler, TypeOK
  <2>4. fate' \in [Ids -> Fates]
    BY <1>1, <2>1 DEF AddHandler, TypeOK, Fates
  <2> QED
    BY <1>1, <2>1, <2>3, <2>4 DEF AddHandler, TypeOK
<1>2. ASSUME NEW id \in Ids, RemoveHandler(id)
      PROVE  TypeOK'
  BY <1>2 DEF RemoveHandler, TypeOK, Fates
<1>3. ASSUME NEW d \in Deadlines, PostDelayedTask(d)
      PROVE  TypeOK'
  <2>1. d \in Nat /\ next_id \in Ids /\ next_id + 1 \in 1 .. MaxId + 1
    BY <1>3 DEF PostDelayedTask, TypeOK, Ids
  <2>2. clock + d \in Ticks
    BY <1>3, <2>1 DEF PostDelayedTask, TypeOK, Ticks
  <2>3. info' \in [Ids -> [handle: Handles \cup {NoHandle}, time: Ticks]]
    BY <1>3, <2>1, <2>2 DEF PostDelayedTask, TypeOK
  <2>4. fate' \in [Ids -> Fates]
    BY <1>3, <2>1 DEF PostDelayedTask, TypeOK, Fates
  <2> QED
    BY <1>3, <2>1, <2>3, <2>4 DEF PostDelayedTask, TypeOK
<1>4. CASE Quit
  <2>1. Top \in RunState /\ depth > 0
    BY <1>4, TopType DEF Quit
  <2>2. [Top EXCEPT !.should_quit = TRUE] \in RunState
    BY <2>1, Zenon DEF RunState
  <2>3. run_states' \in [1 .. MaxDepth -> RunState]
    BY <1>4, <2>1, <2>2, SetTopType DEF Quit
  <2> QED
    BY <1>4, <2>3 DEF Quit, TypeOK
<1>5. ASSUME NEW q \in BOOLEAN, RunInternal(q)
      PROVE  TypeOK'
  <2>1. NewRunState(q) \in RunState
    BY FreshRunStateType DEF NewRunState, PCs
  <2>2. depth' \in 0 .. MaxDepth /\ run_states' \in [1 .. MaxDepth -> RunState]
    BY <1>5, <2>1 DEF RunInternal, TypeOK
  <2> QED
    BY <1>5, <2>2 DEF RunInternal, TypeOK
<1>6. ASSUME NEW h \in Handles, Consume(h)
      PROVE  TypeOK'
  BY <1>6 DEF Consume, TypeOK, Signals, loopVars
<1>7. CASE BeginDestroy
  BY <1>7 DEF BeginDestroy, TypeOK, Lifecycles
<1>8. CASE BeginIteration
  <2>1. Top \in RunState /\ depth > 0
    BY <1>8, TopType DEF BeginIteration
  <2>2. clock \in Ticks /\ next_id \in 1 .. MaxId + 1 /\ "tasks" \in PCs
    BY DEF TypeOK, PCs
  <2>3. [Top EXCEPT !.pc = "tasks", !.should_continue = FALSE,
                    !.now = clock, !.now_id = next_id] \in RunState
    BY <2>1, <2>2, Zenon DEF RunState
  <2>4. run_states' \in [1 .. MaxDepth -> RunState]
    BY <1>8, <2>1, <2>3, SetTopType DEF BeginIteration
  <2> QED
    BY <1>8, <2>4 DEF BeginIteration, TypeOK
<1>9. ASSUME NEW id \in Ids, RunTask(id)
      PROVE  TypeOK'
  <2>1. Top \in RunState /\ depth > 0
    BY <1>9, TopType DEF RunTask
  <2>2. "task" \in PCs /\ id \in Ids \cup {0}
    BY DEF PCs, InCallback
  <2>3. [Top EXCEPT !.pc = "task", !.called = id] \in RunState
    BY <2>1, <2>2, Zenon DEF RunState
  <2>4. run_states' \in [1 .. MaxDepth -> RunState]
    BY <1>9, <2>1, <2>3, SetTopType DEF RunTask
  <2> QED
    BY <1>9, <2>4 DEF RunTask, TypeOK, Fates
<1>10. CASE TasksDone
  <2>1. Top \in RunState /\ depth > 0
    BY <1>10, TopType DEF TasksDone
  <2>2. /\ depth' \in 0 .. MaxDepth
        /\ run_states' \in [1 .. MaxDepth -> RunState]
    <3>1. CASE handlers = {}
      <4>1. Top.should_continue \in BOOLEAN
        BY <2>1 DEF RunState
      <4> QED
        BY <1>10, <2>1, <3>1, <4>1, EndIterationType DEF TasksDone
    <3>2. CASE handlers # {}
      <4> DEFINE calc == IF Top.quit_when_idle
                         THEN [for_task |-> FALSE, deadline |-> Top.now]
                         ELSE CalculateAbsoluteDeadline
                 rs == [Top EXCEPT !.pc = "wait", !.deadline = calc.deadline,
                          !.for_task = calc.for_task,
                          !.wait_until = WaitUntil(Top.now, calc.deadline)]
      <4>1. SetTop(rs) /\ depth' = depth
        BY <1>10, <3>2 DEF TasksDone
      <4>2. Top.now \in Ticks
        BY <2>1 DEF RunState
      <4>3. calc.for_task \in BOOLEAN /\ calc.deadline \in Ticks
        BY <4>2, CalculateAbsoluteDeadlineType
      <4>4. WaitUntil(Top.now, calc.deadline) \in Ticks \cup {MaxTicks + 1}
        BY <4>2, <4>3, WaitUntilType
      <4>5. "wait" \in PCs
        BY DEF PCs
      <4> HIDE DEF calc
      <4>6. rs \in RunState
        BY <2>1, <4>3, <4>4, <4>5, Zenon DEF RunState
      <4> HIDE DEF rs
      <4> QED
        BY <2>1, <4>1, <4>6, SetTopType DEF TypeOK
    <3> QED
      BY <3>1, <3>2
  <2>3. handler_deadlines' \in SUBSET Ids
    BY <1>10 DEF TasksDone, TypeOK
  <2> QED
    BY <1>10, <2>2, <2>3 DEF TasksDone, TypeOK
<1>11. CASE WaitReady
  <2>1. Top \in RunState /\ depth > 0
    BY <1>11, TopType DEF WaitReady
  <2>2. Top.results_size \in Nat \ {0}
    BY <2>1 DEF RunState
  <2> DEFINE n == IF Cardinality(Reportable) <= Top.results_size
                  THEN Cardinality(Reportable) ELSE Top.results_size
             doubled == IF 2 * Top.results_size <= MaximumResults
                        THEN 2 * Top.results_size ELSE MaximumResults
             size == IF Cardinality(Reportable) > Top.results_size
                     THEN doubled ELSE Top.results_size
  <2>3. PICK order \in [1 .. n -> Reportable] :
          SetTop([Top EXCEPT
            !.pc = "results", !.wait_until = 0, !.deadline = 0,
            !.for_task = FALSE, !.results_size = size,
            !.results = [i \in 1 .. n |->
              [id |-> order[i],
               ok |-> signal[info[order[i]].handle] = "ready"]]])
    BY <1>11 DEF WaitReady
  <2> DEFINE res == [i \in 1 .. n |->
                      [id |-> order[i],
                       ok |-> signal[info[order[i]].handle] = "ready"]]
             rs == [Top EXCEPT
                      !.pc = "results", !.wait_until = 0, !.deadline = 0,
                      !.for_task = FALSE, !.results_size = size,
                      !.results = res]
  <2>4. n \in Nat /\ size \in Nat \ {0} /\ Reportable \subseteq Ids
    BY <2>2, ReportableFinite
  <2>5. \A i \in 1 .. n :
          [id |-> order[i], ok |-> signal[info[order[i]].handle] = "ready"]
            \in [id: Ids, ok: BOOLEAN]
    BY <2>4
  <2>6. res \in [1 .. n -> [id: Ids, ok: BOOLEAN]]
    BY <2>5
  <2> HIDE DEF res, n, size
  <2>7. res \in Seq([id: Ids, ok: BOOLEAN])
    BY <2>4, <2>6, FunctionIsSeq
  <2>8. "results" \in PCs /\ 0 \in Ticks
    BY DEF PCs, Ticks
  <2>9. rs \in RunState
    BY <2>1, <2>4, <2>7, <2>8, Zenon DEF RunState
  <2>10. SetTop(rs)
    BY <2>3 DEF res
  <2> HIDE DEF rs
  <2>11. run_states' \in [1 .. MaxDepth -> RunState]
    BY <2>1, <2>9, <2>10, SetTopType
  <2> QED
    BY <1>11, <2>11 DEF WaitReady, TypeOK
<1>12. CASE WaitTimeout
  <2>1. Top \in RunState /\ depth > 0
    BY <1>12, TopType DEF WaitTimeout
  <2>2. "expired" \in PCs /\ 0 \in Ticks
    BY DEF PCs, Ticks
  <2>3. (Top.should_continue \/ Top.for_task) \in BOOLEAN
    OBVIOUS
  <2>4. [Top EXCEPT !.pc = "expired", !.wait_until = 0,
                    !.should_continue = @ \/ Top.for_task] \in RunState
    BY <2>1, <2>2, <2>3, Zenon DEF RunState
  <2>5. run_states' \in [1 .. MaxDepth -> RunState]
    BY <1>12, <2>1, <2>4, SetTopType DEF WaitTimeout
  <2> QED
    BY <1>12, <2>5 DEF WaitTimeout, TypeOK
<1>13. CASE NotifyResult
  <2>1. Top \in RunState /\ depth > 0
    BY <1>13, TopType DEF NotifyResult
  <2>2. Top.results \in Seq([id: Ids, ok: BOOLEAN]) /\ Top.results # <<>>
    BY <1>13, <2>1 DEF NotifyResult, NextResult, RunState
  <2>3. /\ Head(Top.results).id \in Ids
        /\ Tail(Top.results) \in Seq([id: Ids, ok: BOOLEAN])
    <3>1. Head(Top.results) \in [id: Ids, ok: BOOLEAN]
      BY <2>2, HeadTailProperties
    <3>2. Tail(Top.results) \in Seq([id: Ids, ok: BOOLEAN])
      BY <2>2, HeadTailProperties
    <3> QED
      BY <3>1, <3>2
  <2>4. "result" \in PCs /\ Head(Top.results).id \in Ids \cup {0}
    BY <2>3 DEF PCs, InCallback
  <2>5. /\ [Top EXCEPT !.results = Tail(@)] \in RunState
        /\ [Top EXCEPT !.pc = "result", !.results = Tail(@),
                       !.called = Head(Top.results).id] \in RunState
    BY <2>1, <2>3, <2>4, Zenon DEF RunState
  <2>6. run_states' \in [1 .. MaxDepth -> RunState]
    BY <1>13, <2>1, <2>5, SetTopType DEF NotifyResult
  <2>7. /\ handlers' \in SUBSET Ids /\ wait_set' \in SUBSET Ids
        /\ fate' \in [Ids -> Fates]
    BY <1>13, <2>3 DEF NotifyResult, TypeOK, Fates
  <2> QED
    BY <1>13, <2>6, <2>7 DEF NotifyResult, TypeOK
<1>14. CASE ResultsDone
  <2>1. Top \in RunState /\ depth > 0
    BY <1>14, TopType DEF ResultsDone
  <2>2. [Top EXCEPT !.results = <<>>] \in RunState
    <3>1. <<>> \in Seq([id: Ids, ok: BOOLEAN])
      OBVIOUS
    <3> QED
      BY <2>1, <3>1, Zenon DEF RunState
  <2>3. AfterNotify([Top EXCEPT !.results = <<>>]) \in BOOLEAN
    BY <2>2, AfterNotifyType
  <2>4. /\ depth' \in 0 .. MaxDepth
        /\ run_states' \in [1 .. MaxDepth -> RunState]
    BY <1>14, <2>1, <2>3, EndIterationType DEF ResultsDone
  <2> QED
    BY <1>14, <2>4 DEF ResultsDone, TypeOK
<1>15. ASSUME NEW id \in Ids, NotifyDeadlineExceeded(id)
       PROVE  TypeOK'
  <2>1. Top \in RunState /\ depth > 0
    BY <1>15, TopType DEF NotifyDeadlineExceeded
  <2>2. "deadline" \in PCs /\ id \in Ids \cup {0}
    BY DEF PCs, InCallback
  <2>3. [Top EXCEPT !.pc = "deadline", !.called = id] \in RunState
    BY <2>1, <2>2, Zenon DEF RunState
  <2>4. run_states' \in [1 .. MaxDepth -> RunState]
    BY <1>15, <2>1, <2>3, SetTopType DEF NotifyDeadlineExceeded, TypeOK
  <2>5. /\ handlers' \in SUBSET Ids /\ handler_deadlines' \in SUBSET Ids
        /\ fate' \in [Ids -> Fates]
    BY <1>15 DEF NotifyDeadlineExceeded, TypeOK, Fates
  <2> QED
    BY <1>15, <2>4, <2>5 DEF NotifyDeadlineExceeded, TypeOK
<1>16. CASE ExpiredDone
  <2>1. Top \in RunState /\ depth > 0
    BY <1>16, TopType DEF ExpiredDone
  <2>2. AfterNotify(Top) \in BOOLEAN
    BY <2>1, AfterNotifyType
  <2>3. /\ depth' \in 0 .. MaxDepth
        /\ run_states' \in [1 .. MaxDepth -> RunState]
    BY <1>16, <2>1, <2>2, EndIterationType DEF ExpiredDone
  <2> QED
    BY <1>16, <2>3 DEF ExpiredDone, TypeOK
<1>17. CASE CallbackReturns
  <2>1. Top \in RunState /\ depth > 0
    BY <1>17, TopType DEF CallbackReturns
  <2>2. Resume(Top) \in RunState
    <3> DEFINE p == CASE Top.pc = "task" -> "tasks"
                      [] Top.pc = "result" -> "results"
                      [] OTHER -> "expired"
    <3>1. p \in PCs /\ 0 \in Ids \cup {0}
      BY DEF PCs
    <3>2. Resume(Top) =
            [Top EXCEPT !.pc = p, !.should_continue = TRUE, !.called = 0]
      BY Zenon DEF Resume
    <3> HIDE DEF p
    <3> QED
      BY <2>1, <3>1, <3>2, Zenon DEF RunState
  <2>3. /\ depth' \in 0 .. MaxDepth
        /\ run_states' \in [1 .. MaxDepth -> RunState]
    <3>1. CASE EndIteration(FALSE)
      BY <2>1, <3>1, EndIterationType
    <3>2. CASE SetTop(Resume(Top)) /\ UNCHANGED depth
      BY <2>1, <2>2, <3>2, SetTopType DEF TypeOK
    <3> QED
      BY <1>17, <3>1, <3>2 DEF CallbackReturns
  <2> QED
    BY <1>17, <2>3 DEF CallbackReturns, TypeOK
<1>18. ASSUME NEW id \in Ids, AbortHandler(id)
       PROVE  TypeOK'
  BY <1>18 DEF AbortHandler, TypeOK, Fates, Lifecycles
<1>19. CASE EndDestroy
  BY <1>19 DEF EndDestroy, TypeOK, Lifecycles
<1>20. CASE AbortReturns
  BY <1>20 DEF AbortReturns, TypeOK, Lifecycles
<1>21. CASE Tick
  BY <1>21 DEF Tick, TypeOK, loopVars, Ticks, kInvalidTimeTicks
<1>22. ASSUME NEW h \in Handles, Signal(h) \/ Break(h)
       PROVE  TypeOK'
  BY <1>22 DEF Signal, Break, TypeOK, loopVars, Signals
<1>23. CASE UNCHANGED vars
  BY <1>23 DEF vars, loopVars, TypeOK
<1> QED
  BY <1>1, <1>2, <1>3, <1>4, <1>5, <1>6, <1>7, <1>8, <1>9, <1>10, <1>11,
     <1>12, <1>13, <1>14, <1>15, <1>16, <1>17, <1>18, <1>19, <1>20, <1>21,
     <1>22, <1>23
  DEF Next, Application, LoopStep, DestructorStep, CallbackStep, Environment,
      Terminated

\* The variables of the loop stay in their types: no id, time or buffer size
\* ever leaves its range, in particular where now + deadline would overflow.
THEOREM TypeCorrect == Spec => []TypeOK
<1>1. Init => TypeOK
  <2> SUFFICES ASSUME Init PROVE TypeOK
    OBVIOUS
  <2>1. NoRunState \in RunState
    BY FreshRunStateType DEF NoRunState, PCs
  <2>2. run_states \in [1 .. MaxDepth -> RunState]
    BY <2>1 DEF Init
  <2> QED
    BY <2>2 DEF Init, TypeOK, Ids, Ticks, Lifecycles, Fates, Signals,
                kInvalidTimeTicks
<1> QED
  BY <1>1, TypeStep, PTL DEF Spec

-----------------------------------------------------------------------------
(* The containers: every handler is reachable, nothing is forgotten.       *)

Books == Bookkeeping /\ HandlersReachable /\ NothingForgotten

\* Ending an iteration never adds a run to the stack.
LEMMA EndIterationDepth ==
  ASSUME TypeOK, depth > 0, NEW c, EndIteration(c)
  PROVE  depth' = depth \/ depth' = depth - 1
  BY DEF EndIteration, TypeOK

\* A step that leaves the containers and the lifecycle alone and does not
\* start a run keeps the books.
LEMMA BooksUnchanged ==
  ASSUME TypeOK, Books, depth' = depth \/ (depth > 0 /\ depth' = depth - 1),
         UNCHANGED <<next_id, info, handlers, wait_set, handler_deadlines,
                     delayed_tasks, lifecycle, fate>>
  PROVE  Books'
  BY DEF Books, Bookkeeping, HandlersReachable, NothingForgotten, TypeOK, Ids

\* Stale deadlines that CalculateAbsoluteDeadline() pops belong to no handler.
LEMMA StaleNotRegistered ==
  ASSUME TypeOK
  PROVE  StaleTopDeadlines \cap handlers = {}
<1> SUFFICES ASSUME NEW id \in StaleTopDeadlines, id \in handlers PROVE FALSE
  OBVIOUS
<1>1. HandlerDeadlineLess(id, id)
  BY DEF StaleTopDeadlines
<1>2. id \in Ids /\ Ids \subseteq Nat
  BY DEF TypeOK, Ids
<1> QED
  BY <1>1, <1>2 DEF HandlerDeadlineLess

\* The application is in control only while the loop exists.
LEMMA ApplicationAlive ==
  ASSUME TypeOK, Books, InApplication
  PROVE  lifecycle # "destroyed"
  BY DEF Books, Bookkeeping, InApplication, TypeOK

\* Every step keeps the books: what a callback, a nested run or the destructor
\* does to one container it does to the others.
LEMMA BooksStep ==
  TypeOK /\ Books /\ [Next]_vars => Books'
<1> SUFFICES ASSUME TypeOK, Books, [Next]_vars PROVE Books'
  OBVIOUS
<1>0. Ids \subseteq Nat /\ next_id \in Nat
  BY DEF Ids, TypeOK
<1>1. ASSUME NEW h \in Handles, NEW d \in Deadlines, AddHandler(h, d)
      PROVE  Books'
  <2>1. /\ next_id \in Ids /\ lifecycle # "destroyed" /\ d \in Nat
        /\ next_id' = next_id + 1 /\ lifecycle' = lifecycle
        /\ depth' = depth /\ delayed_tasks' = delayed_tasks
    BY <1>1, ApplicationAlive DEF AddHandler, TypeOK, Ids
  <2>2. /\ \A id \in Ids \ {next_id} : info'[id] = info[id] /\ fate'[id] = fate[id]
        /\ fate'[next_id] = "pending"
    BY <1>1, <2>1 DEF AddHandler, TypeOK
  <2>3. info'[next_id].time # kInvalidTimeTicks <=> Expires(d)
    BY <1>1, <2>1 DEF AddHandler, TypeOK, Ticks, kInvalidTimeTicks
  <2>4. /\ handlers' = handlers \cup {next_id}
        /\ wait_set' = wait_set \cup {next_id}
        /\ handler_deadlines' = handler_deadlines \cup
                                  (IF Expires(d) THEN {next_id} ELSE {})
    BY <1>1 DEF AddHandler
  <2>5. Bookkeeping'
    BY <1>0, <2>1, <2>2, <2>3, <2>4 DEF Books, Bookkeeping, TypeOK
  <2>6. HandlersReachable'
    BY <1>0, <2>1, <2>2, <2>3, <2>4 DEF Books, Bookkeeping, HandlersReachable, TypeOK
  <2>7. NothingForgotten'
    BY <1>0, <2>1, <2>2, <2>4 DEF Books, NothingForgotten
  <2> QED
    BY <2>5, <2>6, <2>7 DEF Books
<1>2. ASSUME NEW id \in Ids, RemoveHandler(id)
      PROVE  Books'
  BY <1>0, <1>2 DEF RemoveHandler, ErasedBy, Books, Bookkeeping,
                    HandlersReachable, NothingForgotten, TypeOK
<1>3. ASSUME NEW d \in Deadlines, PostDelayedTask(d)
      PROVE  Books'
  <2>1. /\ next_id \in Ids /\ lifecycle # "destroyed"
        /\ next_id' = next_id + 1 /\ lifecycle' = lifecycle
        /\ depth' = depth /\ delayed_tasks' = delayed_tasks \cup {next_id}
        /\ UNCHANGED <<handlers, wait_set, handler_deadlines>>
    BY <1>3, ApplicationAlive DEF PostDelayedTask, TypeOK, Ids
  <2>2. /\ \A id \in Ids \ {next_id} : info'[id] = info[id] /\ fate'[id] = fate[id]
        /\ fate'[next_id] = "pending"
    BY <1>3, <2>1 DEF PostDelayedTask, TypeOK
  <2>3. Bookkeeping'
    BY <1>0, <2>1, <2>2 DEF Books, Bookkeeping, TypeOK
  <2>4. HandlersReachable'
    BY <1>0, <2>1, <2>2 DEF Books, Bookkeeping, HandlersReachable, TypeOK
  <2>5. NothingForgotten'
    BY <1>0, <2>1, <2>2 DEF Books, NothingForgotten
  <2> QED
    BY <2>3, <2>4, <2>5 DEF Books
<1>4. CASE Quit
  BY <1>4, BooksUnchanged DEF Quit
<1>5. ASSUME NEW q \in BOOLEAN, RunInternal(q)
      PROVE  Books'
  BY <1>5 DEF RunInternal, Books, Bookkeeping, HandlersReachable,
              NothingForgotten
<1>6. ASSUME NEW h \in Handles, Consume(h)
      PROVE  Books'
  BY <1>6, BooksUnchanged DEF Consume, loopVars
<1>7. CASE BeginDestroy
  BY <1>7 DEF BeginDestroy, Books, Bookkeeping, HandlersReachable,
              NothingForgotten
<1>8. CASE BeginIteration
  BY <1>8, BooksUnchanged DEF BeginIteration
<1>9. ASSUME NEW id \in Ids, RunTask(id)
      PROVE  Books'
  BY <1>0, <1>9 DEF RunTask, TopTask, Books, Bookkeeping, HandlersReachable,
                    NothingForgotten, TypeOK
<1>10. CASE TasksDone
  <2>1. /\ UNCHANGED <<next_id, info, handlers, wait_set, delayed_tasks,
                       lifecycle, fate>>
        /\ handler_deadlines' \subseteq handler_deadlines
        /\ handlers \cap handler_deadlines \subseteq handler_deadlines'
    BY <1>10, StaleNotRegistered DEF TasksDone
  <2>2. depth' = depth \/ (depth > 0 /\ depth' = depth - 1)
    BY <1>10, EndIterationDepth DEF TasksDone
  <2> QED
    BY <2>1, <2>2 DEF Books, Bookkeeping, HandlersReachable, NothingForgotten,
                      TypeOK
<1>11. CASE WaitReady
  BY <1>11, BooksUnchanged DEF WaitReady
<1>12. CASE WaitTimeout
  BY <1>12, BooksUnchanged DEF WaitTimeout
<1>13. CASE NotifyResult
  <2> DEFINE r == Head(Top.results)
  <2>1. CASE ~StillRegistered(r.id)
    BY <1>13, <2>1, BooksUnchanged DEF NotifyResult, StillRegistered
  <2>2. CASE StillRegistered(r.id)
    <3>1. /\ r.id \in handlers
          /\ handlers' = handlers \ {r.id} /\ wait_set' = wait_set \ {r.id}
          /\ fate' = [fate EXCEPT ![r.id] = IF r.ok THEN "ready" ELSE "error"]
          /\ UNCHANGED <<next_id, info, handler_deadlines, delayed_tasks,
                         depth, lifecycle>>
      BY <1>13, <2>2 DEF NotifyResult, StillRegistered
    <3> HIDE DEF r
    <3> QED
      BY <1>0, <3>1 DEF Books, Bookkeeping, HandlersReachable,
                        NothingForgotten, TypeOK
  <2> QED
    BY <2>1, <2>2
<1>14. CASE ResultsDone
  BY <1>14, BooksUnchanged, EndIterationDepth DEF ResultsDone
<1>15. ASSUME NEW id \in Ids, NotifyDeadlineExceeded(id)
       PROVE  Books'
  BY <1>0, <1>15 DEF NotifyDeadlineExceeded, Books, Bookkeeping,
                     HandlersReachable, NothingForgotten, TypeOK
<1>16. CASE ExpiredDone
  BY <1>16, BooksUnchanged, EndIterationDepth DEF ExpiredDone
<1>17. CASE CallbackReturns
  BY <1>17, BooksUnchanged, EndIterationDepth DEF CallbackReturns
<1>18. ASSUME NEW id \in Ids, AbortHandler(id)
       PROVE  Books'
  BY <1>0, <1>18 DEF AbortHandler, Books, Bookkeeping, HandlersReachable,
                     NothingForgotten, TypeOK
<1>19. CASE EndDestroy
  BY <1>19 DEF EndDestroy, DestructorDone, Books, Bookkeeping,
               HandlersReachable, NothingForgotten, TypeOK
<1>20. CASE AbortReturns
  BY <1>20 DEF AbortReturns, Books, Bookkeeping, HandlersReachable,
               NothingForgotten
<1>21. CASE Tick
  BY <1>21, BooksUnchanged DEF Tick, loopVars
<1>22. ASSUME NEW h \in Handles, Signal(h) \/ Break(h)
       PROVE  Books'
  BY <1>22, BooksUnchanged DEF Signal, Break, loopVars
<1>23. CASE UNCHANGED vars
  BY <1>23, BooksUnchanged DEF vars, loopVars
<1> QED
  BY <1>1, <1>2, <1>3, <1>4, <1>5, <1>6, <1>7, <1>8, <1>9, <1>10, <1>11,
     <1>12, <1>13, <1>14, <1>15, <1>16, <1>17, <1>18, <1>19, <1>20, <1>21,
     <1>22, <1>23
  DEF Next, Application, LoopStep, DestructorStep, CallbackStep, Environment,
      Terminated

-----------------------------------------------------------------------------
(* The runs' notion of time.                                               *)

\* Replacing the innermost run's state by one that is in time, or leaving the
\* stack alone, keeps all of them in time.
LEMMA RunsInTimeTop ==
  ASSUME TypeOK, RunsInTime, clock' = clock, depth > 0,
         NEW rs, RunInTime(rs), SetTop(rs)
  PROVE  RunsInTime'
  BY DEF TypeOK, RunsInTime, RunInTime, SetTop

LEMMA RunsInTimeUnchanged ==
  ASSUME TypeOK, RunsInTime, clock' = clock, run_states' = run_states
  PROVE  RunsInTime'
  BY DEF RunsInTime, RunInTime

\* A RunState without local variables is in time.
LEMMA FreshInTime ==
  ASSUME NEW q, NEW s, NEW n
  PROVE  /\ RunInTime(FreshRunState("iterate", q, s, n))
         /\ RunInTime(FreshRunState("none", q, s, n))
  BY DEF FreshRunState, RunInTime

\* So a run may end its iteration at any time.
LEMMA EndIterationInTime ==
  ASSUME TypeOK, RunsInTime, clock' = clock, depth > 0, NEW c, EndIteration(c)
  PROVE  RunsInTime'
  BY RunsInTimeTop, FreshInTime DEF EndIteration, NoRunState

\* A wait started at `now' or later does not end before the deadline.
LEMMA WaitUntilNotEarly ==
  ASSUME TypeOK, NEW now \in Ticks, now <= clock, NEW deadline \in Ticks
  PROVE  IF deadline = kInvalidTimeTicks
         THEN WaitUntil(now, deadline) = MaxTicks + 1
         ELSE deadline <= WaitUntil(now, deadline)
  BY DEF TypeOK, WaitUntil, Ticks, kInvalidTimeTicks

\* Every step keeps the runs in time, callbacks and nested runs included.
LEMMA RunsInTimeStep ==
  TypeOK /\ RunsInTime /\ [Next]_vars => RunsInTime'
<1> SUFFICES ASSUME TypeOK, RunsInTime, [Next]_vars PROVE RunsInTime'
  OBVIOUS
<1>0. ASSUME depth > 0 PROVE Top \in RunState /\ RunInTime(Top)
  BY <1>0, TopType DEF RunsInTime, Top
<1>1. ASSUME NEW h \in Handles, NEW d \in Deadlines, AddHandler(h, d)
      PROVE  RunsInTime'
  BY <1>1, RunsInTimeUnchanged DEF AddHandler
<1>2. ASSUME NEW id \in Ids, RemoveHandler(id)
      PROVE  RunsInTime'
  BY <1>2, RunsInTimeUnchanged DEF RemoveHandler
<1>3. ASSUME NEW d \in Deadlines, PostDelayedTask(d)
      PROVE  RunsInTime'
  BY <1>3, RunsInTimeUnchanged DEF PostDelayedTask
<1>4. CASE Quit
  <2> DEFINE rs == [Top EXCEPT !.should_quit = TRUE]
  <2>1. depth > 0 /\ SetTop(rs) /\ clock' = clock
    BY <1>4 DEF Quit
  <2>2. /\ rs.pc = Top.pc /\ rs.now = Top.now /\ rs.deadline = Top.deadline
        /\ rs.wait_until = Top.wait_until
    BY <1>0, <2>1, Zenon DEF RunState
  <2> HIDE DEF rs
  <2>3. RunInTime(rs)
    BY <1>0, <2>1, <2>2 DEF RunInTime
  <2> QED
    BY <2>1, <2>3, RunsInTimeTop
<1>5. ASSUME NEW q \in BOOLEAN, RunInternal(q)
      PROVE  RunsInTime'
  <2>1. /\ run_states' = [run_states EXCEPT ![depth + 1] = NewRunState(q)]
        /\ clock' = clock
    BY <1>5 DEF RunInternal
  <2>2. RunInTime(NewRunState(q))
    BY FreshInTime DEF NewRunState
  <2> HIDE DEF NewRunState
  <2> QED
    BY <2>1, <2>2 DEF RunsInTime, RunInTime, TypeOK
<1>6. ASSUME NEW h \in Handles, Consume(h)
      PROVE  RunsInTime'
  BY <1>6, RunsInTimeUnchanged DEF Consume, loopVars
<1>7. CASE BeginDestroy
  BY <1>7, RunsInTimeUnchanged DEF BeginDestroy
<1>8. CASE BeginIteration
  <2> DEFINE rs == [Top EXCEPT !.pc = "tasks", !.should_continue = FALSE,
                               !.now = clock, !.now_id = next_id]
  <2>1. depth > 0 /\ SetTop(rs) /\ clock' = clock
    BY <1>8 DEF BeginIteration
  <2>2. rs.pc = "tasks" /\ rs.now = clock
    BY <1>0, <2>1, Zenon DEF RunState
  <2> HIDE DEF rs
  <2>3. RunInTime(rs)
    BY <2>2 DEF RunInTime, TypeOK, Ticks
  <2> QED
    BY <2>1, <2>3, RunsInTimeTop
<1>9. ASSUME NEW id \in Ids, RunTask(id)
      PROVE  RunsInTime'
  <2> DEFINE rs == [Top EXCEPT !.pc = "task", !.called = id]
  <2>1. depth > 0 /\ SetTop(rs) /\ clock' = clock /\ Top.pc = "tasks"
    BY <1>9 DEF RunTask
  <2>2. rs.pc = "task" /\ rs.now = Top.now
    BY <1>0, <2>1, Zenon DEF RunState
  <2> HIDE DEF rs
  <2>3. RunInTime(rs)
    BY <1>0, <2>1, <2>2 DEF RunInTime
  <2> QED
    BY <2>1, <2>3, RunsInTimeTop
<1>10. CASE TasksDone
  <2>1. depth > 0 /\ Top.pc = "tasks" /\ clock' = clock
    BY <1>10 DEF TasksDone
  <2>2. Top.now \in Ticks /\ Top.now <= clock
    BY <1>0, <2>1 DEF RunState, RunInTime
  <2>3. CASE handlers = {}
    BY <1>10, <2>1, <2>3, EndIterationInTime DEF TasksDone
  <2>4. CASE handlers # {}
    <3> DEFINE calc == IF Top.quit_when_idle
                       THEN [for_task |-> FALSE, deadline |-> Top.now]
                       ELSE CalculateAbsoluteDeadline
               rs == [Top EXCEPT !.pc = "wait", !.deadline = calc.deadline,
                        !.for_task = calc.for_task,
                        !.wait_until = WaitUntil(Top.now, calc.deadline)]
    <3>1. SetTop(rs)
      BY <1>10, <2>4 DEF TasksDone
    <3>2. calc.deadline \in Ticks
      BY <2>2, CalculateAbsoluteDeadlineType
    <3> HIDE DEF calc
    <3>3. /\ rs.pc = "wait" /\ rs.deadline = calc.deadline
          /\ rs.wait_until = WaitUntil(Top.now, calc.deadline)
      BY <1>0, <2>1, Zenon DEF RunState
    <3> HIDE DEF rs
    <3>4. RunInTime(rs)
      BY <2>2, <3>2, <3>3, WaitUntilNotEarly DEF RunInTime
    <3> QED
      BY <2>1, <3>1, <3>4, RunsInTimeTop
  <2> QED
    BY <2>3, <2>4
<1>11. CASE WaitReady
  <2>1. depth > 0 /\ clock' = clock
    BY <1>11 DEF WaitReady
  <2>2. PICK size, res :
          SetTop([Top EXCEPT
            !.pc = "results", !.wait_until = 0, !.deadline = 0,
            !.for_task = FALSE, !.results_size = size, !.results = res])
    BY <1>11 DEF WaitReady
  <2> DEFINE rs == [Top EXCEPT
                      !.pc = "results", !.wait_until = 0, !.deadline = 0,
                      !.for_task = FALSE, !.results_size = size,
                      !.results = res]
  <2>3. rs.pc = "results" /\ SetTop(rs)
    BY <1>0, <2>1, <2>2, Zenon DEF RunState
  <2> HIDE DEF rs
  <2>4. RunInTime(rs)
    BY <2>3 DEF RunInTime
  <2> QED
    BY <2>1, <2>3, <2>4, RunsInTimeTop
<1>12. CASE WaitTimeout
  <2> DEFINE rs == [Top EXCEPT !.pc = "expired", !.wait_until = 0,
                               !.should_continue = @ \/ Top.for_task]
  <2>1. /\ depth > 0 /\ SetTop(rs) /\ clock' = clock /\ Top.pc = "wait"
        /\ clock >= Top.wait_until
    BY <1>12 DEF WaitTimeout
  <2>2. rs.pc = "expired" /\ rs.deadline = Top.deadline
    BY <1>0, <2>1, Zenon DEF RunState
  <2>3. /\ Top.deadline \in Ticks /\ Top.wait_until \in Ticks \cup {MaxTicks + 1}
    BY <1>0, <2>1 DEF RunState
  <2> HIDE DEF rs
  <2>4. RunInTime(rs)
    BY <1>0, <2>1, <2>2, <2>3 DEF RunInTime, TypeOK, Ticks, kInvalidTimeTicks
  <2> QED
    BY <2>1, <2>4, RunsInTimeTop
<1>13. CASE NotifyResult
  <2>1. depth > 0 /\ clock' = clock /\ Top.pc = "results"
    BY <1>13 DEF NotifyResult
  <2> DEFINE skip == [Top EXCEPT !.results = Tail(@)]
             call == [Top EXCEPT !.pc = "result", !.results = Tail(@),
                                 !.called = Head(Top.results).id]
  <2>2. SetTop(skip) \/ SetTop(call)
    BY <1>13 DEF NotifyResult
  <2>3. skip.pc = "results" /\ call.pc = "result"
    BY <1>0, <2>1, Zenon DEF RunState
  <2> HIDE DEF skip, call
  <2>4. RunInTime(skip) /\ RunInTime(call)
    BY <2>3 DEF RunInTime
  <2> QED
    BY <2>1, <2>2, <2>4, RunsInTimeTop
<1>14. CASE ResultsDone
  BY <1>14, EndIterationInTime DEF ResultsDone
<1>15. ASSUME NEW id \in Ids, NotifyDeadlineExceeded(id)
       PROVE  RunsInTime'
  <2> DEFINE rs == [Top EXCEPT !.pc = "deadline", !.called = id]
  <2>1. depth > 0 /\ clock' = clock /\ Top.pc = "expired"
    BY <1>15 DEF NotifyDeadlineExceeded
  <2>2. run_states' = run_states \/ SetTop(rs)
    BY <1>15 DEF NotifyDeadlineExceeded
  <2>3. rs.pc = "deadline" /\ rs.deadline = Top.deadline
    BY <1>0, <2>1, Zenon DEF RunState
  <2> HIDE DEF rs
  <2>4. RunInTime(rs)
    BY <1>0, <2>1, <2>3 DEF RunInTime
  <2> QED
    BY <2>1, <2>2, <2>4, RunsInTimeTop, RunsInTimeUnchanged
<1>16. CASE ExpiredDone
  BY <1>16, EndIterationInTime DEF ExpiredDone
<1>17. CASE CallbackReturns
  <2>1. depth > 0 /\ clock' = clock /\ Top.pc \in InCallback
    BY <1>17 DEF CallbackReturns
  <2>2. CASE EndIteration(FALSE)
    BY <2>1, <2>2, EndIterationInTime
  <2>3. CASE SetTop(Resume(Top))
    <3> DEFINE p == CASE Top.pc = "task" -> "tasks"
                      [] Top.pc = "result" -> "results"
                      [] OTHER -> "expired"
               rs == [Top EXCEPT !.pc = p, !.should_continue = TRUE,
                                 !.called = 0]
    <3>1. SetTop(rs)
      BY <2>3, Zenon DEF Resume
    <3>2. /\ Top.pc = "task" => p = "tasks"
          /\ Top.pc = "result" => p = "results"
          /\ Top.pc = "deadline" => p = "expired"
      OBVIOUS
    <3> HIDE DEF p
    <3>3. rs.pc = p /\ rs.now = Top.now /\ rs.deadline = Top.deadline
      BY <1>0, <2>1, Zenon DEF RunState
    <3> HIDE DEF rs
    <3>4. RunInTime(rs)
      BY <1>0, <2>1, <3>2, <3>3 DEF RunInTime, InCallback
    <3> QED
      BY <2>1, <3>1, <3>4, RunsInTimeTop
  <2> QED
    BY <1>17, <2>2, <2>3 DEF CallbackReturns
<1>18. ASSUME NEW id \in Ids, AbortHandler(id)
       PROVE  RunsInTime'
  BY <1>18, RunsInTimeUnchanged DEF AbortHandler
<1>19. CASE EndDestroy
  BY <1>19, RunsInTimeUnchanged DEF EndDestroy
<1>20. CASE AbortReturns
  BY <1>20, RunsInTimeUnchanged DEF AbortReturns
<1>21. CASE Tick
  <2>1. clock' = clock + 1 /\ run_states' = run_states
    BY <1>21 DEF Tick, loopVars
  <2>2. \A d \in 1 .. MaxDepth :
          run_states[d].now \in Nat /\ run_states[d].deadline \in Nat
    BY DEF TypeOK, RunState, Ticks
  <2> QED
    BY <2>1, <2>2 DEF RunsInTime, RunInTime, TypeOK, Ticks
<1>22. ASSUME NEW h \in Handles, Signal(h) \/ Break(h)
       PROVE  RunsInTime'
  BY <1>22, RunsInTimeUnchanged DEF Signal, Break, loopVars
<1>23. CASE UNCHANGED vars
  BY <1>23, RunsInTimeUnchanged DEF vars, loopVars
<1> QED
  BY <1>1, <1>2, <1>3, <1>4, <1>5, <1>6, <1>7, <1>8, <1>9, <1>10, <1>11,
     <1>12, <1>13, <1>14, <1>15, <1>16, <1>17, <1>18, <1>19, <1>20, <1>21,
     <1>22, <1>23
  DEF Next, Application, LoopStep, DestructorStep, CallbackStep, Environment,
      Terminated

-----------------------------------------------------------------------------
(* The theorems.                                                           *)

\* The parts are inductive together.
THEOREM Invariant == Spec => []Inv
<1>1. Init => Books /\ RunsInTime
  <2> SUFFICES ASSUME Init PROVE Books /\ RunsInTime
    OBVIOUS
  <2>1. Books
    BY DEF Init, Books, Bookkeeping, HandlersReachable, NothingForgotten, Ids
  <2>2. RunInTime(NoRunState)
    BY FreshInTime DEF NoRunState
  <2>3. RunsInTime
    BY <2>2 DEF Init, RunsInTime
  <2> QED
    BY <2>1, <2>3
<1>2. TypeOK /\ Books /\ RunsInTime => Inv
  BY DEF Inv, Books
<1> QED
  BY <1>1, <1>2, TypeCorrect, BooksStep, RunsInTimeStep, PTL DEF Spec

\* Each registered handler has its wait set entry and its deadline.
THEOREM HandlersStayReachable == Spec => []HandlersReachable
<1>1. Inv => HandlersReachable
  BY DEF Inv
<1> QED
  BY <1>1, Invariant, PTL

\* What is still owed a call is exactly what the containers hold.
THEOREM NothingIsForgotten == Spec => []NothingForgotten
<1>1. Inv => NothingForgotten
  BY DEF Inv
<1> QED
  BY <1>1, Invariant, PTL

\* How a step can change what became of an id: ids are handed out, calls are
\* made to what is pending, and a timeout is reported at its time.
LEMMA FateStep ==
  ASSUME Inv, [Next]_vars, NEW id \in Ids, fate'[id] # fate[id]
  PROVE  /\ fate[id] \in {"none", "pending"}
         /\ fate'[id] = "timeout" =>
              info[id].time # kInvalidTimeTicks /\ info[id].time <= clock
<1> USE DEF Inv
<1>0. /\ Ids \subseteq Nat /\ next_id \in Nat
      /\ lifecycle # "destroyed" =>
           \A i \in handlers \cup delayed_tasks : fate[i] = "pending"
  BY DEF Ids, TypeOK, NothingForgotten
<1>1. ASSUME NEW h \in Handles, NEW d \in Deadlines, AddHandler(h, d)
      PROVE  id = next_id /\ fate'[id] = "pending"
  BY <1>1 DEF AddHandler, TypeOK
<1>2. ASSUME NEW d \in Deadlines, PostDelayedTask(d)
      PROVE  id = next_id /\ fate'[id] = "pending"
  BY <1>2 DEF PostDelayedTask, TypeOK
<1>3. id = next_id => fate[id] = "none"
  BY <1>0 DEF Bookkeeping
<1>4. ASSUME NEW i \in Ids, RemoveHandler(i)
      PROVE  fate[id] = "pending" /\ fate'[id] = "removed"
  <2>1. lifecycle # "destroyed"
    BY <1>4 DEF RemoveHandler, InApplication, Bookkeeping, TypeOK
  <2> QED
    BY <1>0, <1>4, <2>1 DEF RemoveHandler, TypeOK
<1>5. ASSUME NEW i \in Ids, RunTask(i)
      PROVE  fate[id] = "pending" /\ fate'[id] = "ran"
  BY <1>0, <1>5 DEF RunTask, TopTask, Bookkeeping, TypeOK
<1>6. ASSUME NotifyResult
      PROVE  fate[id] = "pending" /\ fate'[id] \in {"ready", "error"}
  BY <1>0, <1>6 DEF NotifyResult, StillRegistered, Bookkeeping, TypeOK
<1>7. ASSUME NEW i \in Ids, NotifyDeadlineExceeded(i)
      PROVE  /\ fate[id] = "pending"
             /\ info[id].time # kInvalidTimeTicks /\ info[id].time <= clock
  <2>1. /\ depth > 0 /\ Top.pc = "expired" /\ id = i /\ i \in handlers
        /\ i \in handler_deadlines /\ info[i].time <= Top.deadline
    BY <1>7 DEF NotifyDeadlineExceeded, TopDeadline, DeadlineReached, TypeOK
  <2>2. Top \in RunState /\ RunInTime(Top)
    BY <2>1, TopType DEF RunsInTime, Top
  <2>3. Top.deadline <= clock /\ Top.deadline \in Ticks
    BY <2>1, <2>2 DEF RunInTime, RunState
  <2>4. info[id].time \in Ticks
    BY DEF TypeOK
  <2> QED
    BY <1>0, <2>1, <2>3, <2>4 DEF Bookkeeping, TypeOK, Ticks
<1>8. ASSUME NEW i \in Ids, AbortHandler(i)
      PROVE  fate[id] = "pending" /\ fate'[id] = "aborted"
  BY <1>0, <1>8 DEF AbortHandler, TypeOK
<1>9. \/ \E h \in Handles, d \in Deadlines : AddHandler(h, d)
      \/ \E d \in Deadlines : PostDelayedTask(d)
      \/ \E i \in Ids : RemoveHandler(i)
      \/ \E i \in Ids : RunTask(i)
      \/ NotifyResult
      \/ \E i \in Ids : NotifyDeadlineExceeded(i)
      \/ \E i \in Ids : AbortHandler(i)
  <2>1. ASSUME UNCHANGED fate PROVE FALSE
    BY <2>1
  <2> QED
    BY <2>1 DEF Next, Application, LoopStep, DestructorStep, CallbackStep,
         Environment, Terminated, vars, loopVars, Quit, RunInternal, Consume,
         BeginDestroy, BeginIteration, TasksDone, WaitReady, WaitTimeout,
         ResultsDone, ExpiredDone, CallbackReturns, AbortReturns, EndDestroy,
         Tick, Signal, Break
<1> QED
  BY <1>1, <1>2, <1>3, <1>4, <1>5, <1>6, <1>7, <1>8, <1>9

\* No handler or task is called after it was called or removed, whatever
\* batches of results outer runs still hold.
THEOREM NeverCalledTwice == Spec => CalledAtMostOnce
<1>1. Inv /\ [Next]_vars =>
        [\A id \in Ids :
           fate[id] \notin {"none", "pending"} => fate'[id] = fate[id]]_vars
  BY FateStep
<1> QED
  BY <1>1, Invariant, PTL DEF Spec, CalledAtMostOnce

\* OnHandleError(DEADLINE_EXCEEDED) is never called before the deadline.
THEOREM NeverTimesOutEarly == Spec => NoEarlyTimeout
<1>1. Inv /\ [Next]_vars =>
        [\A id \in Ids :
           fate[id] = "pending" /\ fate'[id] = "timeout" =>
             info[id].time # kInvalidTimeTicks /\ info[id].time <= clock]_vars
  BY FateStep
<1> QED
  BY <1>1, Invariant, PTL DEF Spec, NoEarlyTimeout

-----------------------------------------------------------------------------
(* The destructor.                                                         *)

Destruction == TasksHaveNoHandle /\ DestroyedNotifiesAll

\* What is pending when the destructor is done is a task.
LEMMA DestructionStep ==
  ASSUME Inv, Destruction, [Next]_vars
  PROVE  Destruction'
<1>0. /\ Ids \subseteq Nat /\ next_id \in Nat
      /\ \A id \in delayed_tasks : id \in Ids /\ id # next_id
      /\ info \in [Ids -> [handle: Handles \cup {NoHandle}, time: Ticks]]
      /\ fate \in [Ids -> Fates]
  BY DEF Inv, Bookkeeping, TypeOK, Ids
<1>1. ASSUME NEW h \in Handles, NEW d \in Deadlines, AddHandler(h, d)
      PROVE  Destruction'
  <2>1. lifecycle' # "destroyed" /\ delayed_tasks' = delayed_tasks
    BY <1>1, ApplicationAlive DEF AddHandler, Inv, Books
  <2>2. \A id \in delayed_tasks : info'[id] = info[id]
    BY <1>0, <1>1 DEF AddHandler
  <2> QED
    BY <2>1, <2>2 DEF Destruction, TasksHaveNoHandle, DestroyedNotifiesAll
<1>2. ASSUME NEW d \in Deadlines, PostDelayedTask(d)
      PROVE  Destruction'
  <2>1. /\ lifecycle' # "destroyed" /\ delayed_tasks' = delayed_tasks \cup {next_id}
        /\ next_id \in Ids
    BY <1>0, <1>2, ApplicationAlive DEF PostDelayedTask, Inv, Books, TypeOK, Ids
  <2>2. info' = [info EXCEPT ![next_id] = [handle |-> NoHandle, time |-> clock + d]]
    BY <1>2 DEF PostDelayedTask
  <2>3. /\ \A id \in delayed_tasks : info'[id] = info[id]
        /\ info'[next_id].handle = NoHandle
    BY <1>0, <2>1, <2>2
  <2> QED
    BY <2>1, <2>3 DEF Destruction, TasksHaveNoHandle, DestroyedNotifiesAll
<1>3. CASE EndDestroy
  <2>1. /\ handlers = {} /\ lifecycle # "destroyed" /\ delayed_tasks' = {}
        /\ UNCHANGED <<info, fate>>
    BY <1>3 DEF EndDestroy, DestructorDone
  <2>2. \A id \in Ids : fate[id] = "pending" => info[id].handle = NoHandle
    BY <2>1 DEF Inv, NothingForgotten, Destruction, TasksHaveNoHandle
  <2> QED
    BY <2>1, <2>2 DEF Destruction, TasksHaveNoHandle, DestroyedNotifiesAll, Registered
<1>4. CASE /\ UNCHANGED info /\ delayed_tasks' \subseteq delayed_tasks
           /\ lifecycle' = "destroyed" => lifecycle = "destroyed"
           /\ \A id \in Ids : fate'[id] = fate[id] \/ (fate[id] # "none" /\ fate'[id] # "pending")
  BY <1>4 DEF Destruction, TasksHaveNoHandle, DestroyedNotifiesAll, Registered
<1>5. ASSUME NEW i \in Ids, RemoveHandler(i) \/ RunTask(i) \/ NotifyDeadlineExceeded(i)
                            \/ AbortHandler(i)
      PROVE  Destruction'
  <2>1. /\ UNCHANGED info /\ delayed_tasks' \subseteq delayed_tasks
        /\ lifecycle' = "destroyed" => lifecycle = "destroyed"
        /\ \/ UNCHANGED fate
           \/ \E f \in {"removed", "ran", "timeout", "aborted"} : fate' = [fate EXCEPT ![i] = f]
    BY <1>5 DEF RemoveHandler, RunTask, NotifyDeadlineExceeded, AbortHandler
  <2>2. \A id \in Ids : fate'[id] # fate[id] => fate[id] \in {"none", "pending"}
    BY FateStep
  <2>3. fate'[i] # fate[i] => fate[i] # "none"
    <3>1. i \in handlers \cup delayed_tasks => i < next_id
      BY DEF Inv, Bookkeeping
    <3>2. i < next_id => fate[i] # "none"
      BY <1>0 DEF Inv, Bookkeeping
    <3> QED
      BY <1>5, <3>1, <3>2 DEF RemoveHandler, RunTask, TopTask, NotifyDeadlineExceeded, AbortHandler
  <2>4. \A id \in Ids : fate'[id] = fate[id] \/ (fate[id] # "none" /\ fate'[id] # "pending")
    BY <1>0, <2>1, <2>3
  <2> QED
    BY <1>4, <2>1, <2>4
<1>6. CASE NotifyResult
  <2>1. UNCHANGED <<info, delayed_tasks, lifecycle>>
    BY <1>6 DEF NotifyResult
  <2>2. \/ UNCHANGED fate
        \/ \E i \in handlers, f \in {"ready", "error"} : fate' = [fate EXCEPT ![i] = f]
    BY <1>6 DEF NotifyResult, StillRegistered
  <2>3. \A i \in handlers : i \in Ids /\ fate[i] # "none"
    BY <1>0 DEF Inv, Bookkeeping, TypeOK
  <2>4. \A id \in Ids : fate'[id] = fate[id] \/ (fate[id] # "none" /\ fate'[id] # "pending")
    BY <1>0, <2>2, <2>3
  <2> QED
    BY <1>4, <2>1, <2>4
<1>7. CASE UNCHANGED <<info, delayed_tasks, fate>>
           /\ (lifecycle' = "destroyed" => lifecycle = "destroyed")
  BY <1>4, <1>7
<1> QED
  BY <1>1, <1>2, <1>3, <1>5, <1>6, <1>7 DEF Next, Application, LoopStep, DestructorStep,
       CallbackStep, Environment, Terminated, vars, loopVars, Quit, RunInternal, Consume,
       BeginDestroy, BeginIteration, TasksDone, WaitReady, WaitTimeout, ResultsDone,
       ExpiredDone, CallbackReturns, AbortReturns, Tick, Signal, Break

\* ~RunLoop() leaves no handler without a call, those registered by the
\* handlers it aborts included.
THEOREM DestructorNotifiesAll == Spec => []DestroyedNotifiesAll
<1>1. Init => Destruction
  BY DEF Init, Destruction, TasksHaveNoHandle, DestroyedNotifiesAll
<1>2. Inv /\ Destruction /\ [Next]_vars => Destruction'
  BY DestructionStep
<1>3. Destruction => DestroyedNotifiesAll
  BY DEF Destruction
<1> QED
  BY <1>1, <1>2, <1>3, Invariant, PTL DEF Spec
=============================================================================
