------------------------------- MODULE Sched --------------------------------
(***************************************************************************)
(* Tasks and preemption: kern/proc/sched.c, task.c, misc/timer.c, the      *)
(* interrupt path of x86/int.c and asm/int.S, and asm/switch.S.            *)
(*                                                                         *)
(* There is one processor.  kmain sets up tasking and forks; the timer     *)
(* interrupts it between any two steps while interrupts are on.  Handlers  *)
(* run with interrupts off, so each of them is one step.                   *)
(*                                                                         *)
(* Tasks are their tids.  A task's page directory is named by the task.    *)
(***************************************************************************)
EXTENDS Integers, FiniteSets

CONSTANTS
    MaxTasks,   \* bound on the number of tasks
    Freq,       \* FREQ: timer interrupts between two calls of schedule
    Fills       \* what the memory of a new task may hold in its next field

Tasks == 0 .. MaxTasks - 1
NULL == -1
Wild == -4      \* a pointer that is neither NULL nor a task
Kernel == -2    \* names kern_dir
Fresh == -3     \* context of a task that fork made and that never ran
Init0 == 0      \* tid of the first task

ASSUME SchedAssumption ==
    /\ MaxTasks \in Nat \ {0}
    /\ Freq \in Nat \ {0}
    /\ Fills \subseteq {NULL, Wild}

VARIABLES
    head,       \* ready->head
    nxt,        \* the next field of every task
    current,    \* the global current
    dir,        \* the task whose page directory is loaded
    ctx,        \* ctx[t]: Fresh, or the local variable new of the call of
                \* schedule in which t was switched out
    next_tid,   \* the global next_tid
    ticks,      \* the global ticks
    pc, tmp,    \* where kmain's flow of control is, and add_task's tmp
    irqOff,     \* the timer interrupt is neither acknowledged nor returned from
    stopped     \* the machine ran into a fault: page_fault executed hlt with
                \* interrupts off, or memory outside of the tasks was changed

list == <<head, nxt>>
vars == <<head, nxt, current, dir, ctx, next_tid, ticks, pc, tmp, irqOff, stopped>>

-----------------------------------------------------------------------------
(* The ready list.                                                         *)

\* What is met when following next from h: tasks, and perhaps Wild.  It is in
\* every set that has h in it and is closed under next.
Met == Tasks \cup {Wild}

Closed(S, h, n) == h \in S \cup {NULL} /\ \A t \in S \ {Wild} : n[t] \in S \cup {NULL}

Reach(h, n) == {x \in Met : \A S \in SUBSET Met : Closed(S, h, n) => x \in S}

\* The last task of the list, if it has one: none when next leads in a circle.
Ends(h, n) == {t \in Reach(h, n) \ {Wild} : n[t] = NULL}

\* Mutant of add_task: the task is put in front.
add_task_Front(h, n, t) == [head |-> t, nxt |-> [n EXCEPT ![t] = h]]

\* Mutant of add_task: the list that is there is forgotten.
add_task_Replace(h, n, t) == [head |-> t, nxt |-> n]

\* The ready list with t behind its last task.
add_task(h, n, t) ==
    IF h = NULL THEN [head |-> t, nxt |-> n]
    ELSE [head |-> h, nxt |-> [n EXCEPT ![CHOOSE e \in Ends(h, n) : TRUE] = t]]

\* Mutant of pop_task: the task keeps its next pointer.
pop_task_KeepNext(h, n) ==
    IF h = NULL THEN [head |-> NULL, nxt |-> n] ELSE [head |-> n[h], nxt |-> n]

\* The ready list without its first task.
pop_task(h, n) ==
    IF h = NULL THEN [head |-> NULL, nxt |-> n]
    ELSE [head |-> n[h], nxt |-> [n EXCEPT ![h] = NULL]]

\* What schedule does to the list: the head leaves, the old task is added.
Rotated ==
    LET p == pop_task(head, nxt) IN add_task(p.head, p.nxt, current)

\* That call of add_task follows a pointer that create_task did not set.
RotateWild ==
    LET p == pop_task(head, nxt) IN Wild \in Reach(p.head, p.nxt)

-----------------------------------------------------------------------------
Init ==
    /\ head = NULL
    /\ nxt = [t \in Tasks |-> NULL]
    /\ current = NULL
    /\ dir = Kernel
    /\ ctx = [t \in Tasks |-> Fresh]
    /\ next_tid = 0
    /\ ticks = 0
    /\ pc = "boot" /\ tmp = NULL
    /\ irqOff = FALSE
    /\ stopped = FALSE

\* kmain's own flow of control has the processor.  A task that fork made
\* never comes back to it, see ScheduleFresh.
InKmain == ~ stopped /\ ~ irqOff /\ current \in {NULL, Init0}

\* create_task leaves the next field as it found it.
create_task ==
    /\ next_tid' = next_tid + 1
    /\ \E f \in Fills : nxt' = [nxt EXCEPT ![next_tid] = f]

\* tasking_init up to current = init: stack, task, directory.
TaskingInit ==
    /\ InKmain /\ pc = "boot"
    /\ create_task
    /\ dir' = next_tid
    /\ current' = next_tid
    /\ pc' = "starting"
    /\ UNCHANGED <<head, ctx, ticks, tmp, irqOff, stopped>>

\* The last statement of tasking_init, add_task(init).
TaskingInitAdd ==
    /\ InKmain /\ pc = "starting"
    /\ LET r == add_task(head, nxt, Init0) IN head' = r.head /\ nxt' = r.nxt
    /\ pc' = "run"
    /\ UNCHANGED <<current, dir, ctx, next_tid, ticks, tmp, irqOff, stopped>>

\* fork up to its call of add_task.  copy_pg_dir leaves the directory loaded.
Fork ==
    /\ InKmain /\ pc = "run"
    /\ next_tid < MaxTasks
    /\ create_task
    /\ ctx' = [ctx EXCEPT ![next_tid] = Fresh]
    /\ pc' = "add"
    /\ UNCHANGED <<head, current, dir, ticks, tmp, irqOff, stopped>>

\* add_task(child), one step for every access to the list: the timer may come
\* in between.  The list is not empty, because init is in it from tasking_init
\* on, so the head that line 21 tests and the head that line 26 reads are tasks,
\* if not the same.
ForkAddStart ==
    /\ InKmain /\ pc = "add"
    /\ tmp' = head
    /\ pc' = "test"
    /\ UNCHANGED <<list, current, dir, ctx, next_tid, ticks, irqOff, stopped>>

\* The condition of the loop reads tmp->next.
ForkAddTest ==
    /\ InKmain /\ pc = "test"
    /\ tmp \in Tasks
    /\ pc' = IF nxt[tmp] = NULL THEN "link" ELSE "step"
    /\ UNCHANGED <<list, current, dir, ctx, next_tid, ticks, tmp, irqOff, stopped>>

\* Its body reads tmp->next again, which pop_task may have cleared meanwhile.
ForkAddStep ==
    /\ InKmain /\ pc = "step"
    /\ tmp' = nxt[tmp]
    /\ pc' = "test"
    /\ UNCHANGED <<list, current, dir, ctx, next_tid, ticks, irqOff, stopped>>

\* tmp is NULL or a pointer nobody set, and the condition follows it.
ForkAddFaults ==
    /\ InKmain /\ pc = "test"
    /\ tmp \notin Tasks
    /\ stopped' = TRUE
    /\ UNCHANGED <<list, current, dir, ctx, next_tid, ticks, pc, tmp, irqOff>>

\* Mutant of ForkAddLink: the new task is put in front of the list.
ForkAddLink_Front ==
    /\ InKmain /\ pc = "link"
    /\ head' = next_tid - 1
    /\ nxt' = [nxt EXCEPT ![next_tid - 1] = head]
    /\ pc' = "run"
    /\ UNCHANGED <<current, dir, ctx, next_tid, ticks, tmp, irqOff, stopped>>

\* The statement behind the loop.
ForkAddLink ==
    /\ InKmain /\ pc = "link"
    /\ nxt' = [nxt EXCEPT ![tmp] = next_tid - 1]
    /\ pc' = "run"
    /\ UNCHANGED <<head, current, dir, ctx, next_tid, ticks, tmp, irqOff, stopped>>

-----------------------------------------------------------------------------
(* Timer interrupts.                                                       *)

Interruptible == ~ stopped /\ ~ irqOff

\* Mutant of Counted: the counter is not reset.
Counted_NoReset(n) == n + 1

\* ticks after an interrupt.
Counted(n) == IF (n + 1) % Freq = 0 THEN 0 ELSE n + 1

CallsSchedule == (ticks + 1) % Freq = 0

\* timer_handler when no switch is due or tasking is not set up yet.
\* irq_handler acknowledges the interrupt and the stub returns.
Tick ==
    /\ Interruptible
    /\ ~ CallsSchedule \/ current = NULL
    /\ ticks' = Counted(ticks)
    /\ UNCHANGED <<list, current, dir, ctx, next_tid, pc, tmp, irqOff, stopped>>

\* schedule switches to a context that was saved in an earlier call, or just
\* now.  It goes on behind the ctx_swtch of that call, with its local new.
ScheduleSaved ==
    LET saved == [ctx EXCEPT ![current] = head]
    IN  /\ Interruptible /\ CallsSchedule /\ current # NULL
        /\ head # NULL /\ ~ RotateWild
        /\ saved[head] # Fresh
        /\ ticks' = Counted(ticks)
        /\ head' = Rotated.head /\ nxt' = Rotated.nxt
        /\ current' = head
        /\ ctx' = saved
        /\ dir' = saved[head]
        /\ UNCHANGED <<next_tid, pc, tmp, irqOff, stopped>>

\* schedule switches to a task that fork made.  ctx_swtch pops registers and a
\* return address that nobody put on that stack, so what follows depends on
\* the build: the processor faults and stops or executes some code.  In either
\* case interrupts are off and the interrupt is not acknowledged, and the
\* call of switch_page_directory is not reached.
ScheduleFresh ==
    /\ Interruptible /\ CallsSchedule /\ current # NULL
    /\ head # NULL /\ ~ RotateWild
    /\ [ctx EXCEPT ![current] = head][head] = Fresh
    /\ ticks' = Counted(ticks)
    /\ head' = Rotated.head /\ nxt' = Rotated.nxt
    /\ current' = head
    /\ ctx' = [ctx EXCEPT ![current] = head]
    /\ irqOff' = TRUE
    /\ stopped' \in BOOLEAN
    /\ UNCHANGED <<dir, next_tid, pc, tmp>>

\* The list is empty: new is NULL and new->ctx faults.
ScheduleNull ==
    /\ Interruptible /\ CallsSchedule /\ current # NULL
    /\ head = NULL
    /\ ticks' = Counted(ticks)
    /\ head' = Rotated.head /\ nxt' = Rotated.nxt
    /\ current' = NULL
    /\ irqOff' = TRUE /\ stopped' = TRUE
    /\ UNCHANGED <<dir, ctx, next_tid, pc, tmp>>

\* add_task(old) leaves the list through a pointer nobody set.
ScheduleWild ==
    /\ Interruptible /\ CallsSchedule /\ current # NULL
    /\ RotateWild
    /\ ticks' = Counted(ticks)
    /\ LET p == pop_task(head, nxt) IN head' = p.head /\ nxt' = p.nxt
    /\ irqOff' = TRUE /\ stopped' = TRUE
    /\ UNCHANGED <<current, dir, ctx, next_tid, pc, tmp>>

ForkAdd == ForkAddStart \/ ForkAddTest \/ ForkAddStep \/ ForkAddFaults \/ ForkAddLink

Timer == Tick \/ ScheduleSaved \/ ScheduleFresh \/ ScheduleNull \/ ScheduleWild

Next ==
    \/ TaskingInit \/ TaskingInitAdd
    \/ Fork \/ ForkAdd
    \/ Timer

\* The timer keeps interrupting while it can, and kmain gets on with add_task.
Fairness ==
    /\ WF_vars(Timer)
    /\ WF_vars(TaskingInit \/ TaskingInitAdd)
    /\ WF_vars(ForkAdd)

Spec == Init /\ [][Next]_vars /\ Fairness

-----------------------------------------------------------------------------
(* Properties.                                                             *)

\* The children whose call of add_task is over.
Added == {t \in 1 .. next_tid - 1 : t < next_tid - 1 \/ pc = "run"}

TypeOK ==
    /\ head \in Tasks \cup {NULL, Wild}
    /\ nxt \in [Tasks -> Tasks \cup {NULL, Wild}]
    /\ current \in Tasks \cup {NULL}
    /\ dir \in Tasks \cup {Kernel}
    /\ ctx \in [Tasks -> Tasks \cup {Fresh}]
    /\ next_tid \in 0 .. MaxTasks
    /\ ticks \in 0 .. Freq - 1
    /\ pc \in {"boot", "starting", "run", "add", "test", "step", "link"}
    /\ tmp \in Tasks \cup {NULL, Wild}
    /\ irqOff \in BOOLEAN /\ stopped \in BOOLEAN

\* Although the timer rotates the list while fork walks along it, no task is
\* dropped: each task whose call of add_task came to its end is in the list or
\* is running.  (A walk that was led off the list ends in a fault instead.)
NoTaskLost == ~ stopped => Added \subseteq Reach(head, nxt) \cup {current}

\* The children wait for their turns in the order in which they were forked,
\* wherever the rotations of the timer put the first task.
ForkOrder ==
    ~ stopped =>
        \A t, u \in Added \ {current} : t < u => u \in Reach(nxt[t], nxt)

\* No call of add_task that is made runs in a circle, by fork or by the timer:
\* the list it finds has a last task although the running task is in it a
\* second time.  Calls are made while interrupts are on.  The switch to a forked
\* task does leave a circle, as schedule appends the first task to a list that
\* still has it, but interrupts stay off from then on and nobody walks again.
WalkEnds ==
    Interruptible =>
        \A l \in {[head |-> head, nxt |-> nxt], pop_task(head, nxt)} :
            l.head # NULL =>
                Ends(l.head, l.nxt) # {} \/ Wild \in Reach(l.head, l.nxt)

\* The rotation reaches a task that fork made, unless the machine stopped
\* before: schedule takes it from the list and makes it current.  This says
\* that it is chosen and not that it executes: there is no context on its stack
\* to switch to, and interrupts are off for good.
ForkedTaskChosen ==
    (Added # {}) ~> ((current \in 1 .. MaxTasks - 1 /\ irqOff) \/ stopped)

\* schedule's comment "don't do anything if we havent initialized tasking":
\* it never runs into an empty list.
ScheduleHasTask == pc # "boot" => current # NULL
=============================================================================
