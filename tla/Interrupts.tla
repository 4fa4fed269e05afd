----------------------------- MODULE Interrupts -----------------------------
(***************************************************************************)
(* Interrupts and exceptions from the device to the handler and back:      *)
(* kern/x86/gdt.c, idt.c, int.c and kern/asm/gdt.S, int.S, with the two    *)
(* controllers of module PIC.  The first version of the system does the    *)
(* same in v1/os/gdt.c, idt.c and isr.c, with the acknowledgements in      *)
(* another order and other exception stubs; Version says which is modelled.*)
(*                                                                         *)
(* A frame is one interrupt or exception that has not returned: the stub   *)
(* and the C function keep their variables in it.  What handlers print is  *)
(* the subject of Console, what the timer's handler does that of Sched.    *)
(***************************************************************************)
EXTENDS Sequences, PIC

CONSTANTS
    Versions,   \* which of the two kernels may be running
    Devices,    \* lines with a device; line 2 has the slave
    Exceptions, \* exceptions the code may run into and return from
    MaxRaise,   \* bound on the requests of one device
    MaxTraps    \* bound on the exceptions

ASSUME InterruptsAssumption ==
    /\ Versions \subseteq {"kern", "v1"}
    /\ Devices \subseteq (0 .. 15) \ {2}
    /\ Exceptions \subseteq 0 .. 31
    /\ MaxRaise \in Nat /\ MaxTraps \in Nat

VARIABLES
    version,    \* the kernel that is running; it never changes
    pic,        \* the controllers
    handlers,   \* the vectors that have an entry in handlers
    done,       \* steps that kmain has done
    IF_flag,    \* the processor's interrupt flag
    stack,      \* frames, the innermost last
    segs,       \* the data segment registers
    raised,     \* how often each device has made a request
    traps,      \* how many exceptions there were
    stop        \* why kmain goes no further: "no", "wild", "halt" or "fresh"

vars == <<version, pic, handlers, done, IF_flag, stack, segs, raised, traps, stop>>

V1 == version = "v1"

-----------------------------------------------------------------------------
(* Descriptor tables.  Words of 32 bits are pairs of halves, high half     *)
(* first.                                                                  *)

gdt_set_entry(base, lim, acc, gran) ==
    [base_low |-> base[2], base_mid |-> base[1] % 256, base_high |-> base[1] \div 256,
     lim_low |-> lim[2], gran |-> (lim[1] % 16) + 16 * (gran \div 16), access |-> acc]

\* The null entry, then code and data of the kernel, then those of users:
\* 0x9A, 0x92, 0xFA, 0xF2.
gdt_init ==
    LET acc_bytes == <<154, 146, 250, 242>>
    IN  [i \in 0 .. 4 |->
            IF i = 0 THEN gdt_set_entry(<<0, 0>>, <<0, 0>>, 0, 0)
            ELSE gdt_set_entry(<<0, 0>>, <<65535, 65535>>, acc_bytes[i], 207)]

\* v1 fills the same five entries with the same arithmetic.
create_segment(base, lim, acc, gran) == gdt_set_entry(base, lim, acc, gran)

init_gdt ==
    [i \in 0 .. 4 |->
        IF i = 0 THEN create_segment(<<0, 0>>, <<0, 0>>, 0, 0)
        ELSE create_segment(<<0, 0>>, <<65535, 65535>>, <<154, 146, 250, 242>>[i], 207)]

\* The table that is loaded once kmain has come so far.
GDT == IF V1 THEN init_gdt ELSE gdt_init

\* What the processor makes of an entry: from 0, 2^20 pages, in use, ring 0.
FlatKernel(d) ==
    /\ d.base_low = 0 /\ d.base_mid = 0 /\ d.base_high = 0
    /\ d.lim_low = 65535 /\ d.gran % 16 = 15 /\ d.gran >= 128
    /\ d.access \div 32 = 4

KernelCode(sel) == FlatKernel(GDT[sel \div 8]) /\ 3 \in Bits(GDT[sel \div 8].access)
KernelData(sel) == FlatKernel(GDT[sel \div 8]) /\ 3 \notin Bits(GDT[sel \div 8].access)

\* Addresses of the stubs isr0 to isr31 and irq0 to irq15, as halves: what
\* matters is that they differ and need more than 16 bits.
StubAddress(v) == <<16 + (v \div 8), 16 * (v % 8)>>

idt_add_entry(addr, sel, flags) ==
    [low |-> addr[2], high |-> addr[1], sel |-> sel, flags |-> flags]

\* v1's add_entry does the same.
add_entry(addr, sel, flags) == idt_add_entry(addr, sel, flags)

\* idt_init: vectors 0 to 47, in the kernel's code segment and as gates that
\* turn interrupts off (0x8E).
idt_init == [v \in 0 .. 47 |-> idt_add_entry(StubAddress(v), 8, 142)]

\* Exceptions for which the processor pushes an error code.
PushesError == {8} \cup (10 .. 14) \cup {17}

\* Mutant of isr_err: the page fault's stub pushes a second error code.
isr_err_No14 == {8} \cup (10 .. 13)

\* Stubs that do not push one in its place.
isr_err == {8} \cup (10 .. 14)

ISR_ERR == (10 .. 14) \cup {17, 30}

-----------------------------------------------------------------------------
(* Controllers.                                                            *)

\* Mutant of pic_remap: the offset of the slave is that of the master.
pic_remap_SameOffset ==
    << <<32, 17>>, <<160, 17>>, <<33, 32>>, <<161, 32>>, <<33, 4>>, <<161, 2>>,
       <<33, 1>>, <<161, 1>>, <<33, 0>>, <<161, 0>> >>

\* The bytes written, each with its port.
pic_remap ==
    << <<32, 17>>, <<160, 17>>, <<33, 32>>, <<161, 40>>, <<33, 4>>, <<161, 2>>,
       <<33, 1>>, <<161, 1>>, <<33, 0>>, <<161, 0>> >>

\* v1's init_idt writes the same bytes and then adds the same entries.
init_idt ==
    [ports |-> pic_remap,
     gates |-> [v \in 0 .. 47 |-> add_entry(StubAddress(v), 8, 142)]]

IDT == IF V1 THEN init_idt.gates ELSE idt_init

\* The stub that the processor enters, -1 for none.
Entered(v) ==
    IF v \notin DOMAIN IDT THEN -1
    ELSE LET s == {u \in 0 .. 47 : StubAddress(u) = <<IDT[v].high, IDT[v].low>>}
         IN  IF s = {} \/ ~ KernelCode(IDT[v].sel) THEN -1 ELSE Min(s)

Written(p, ports) ==
    LET w[k \in 0 .. Len(ports)] ==
            IF k = 0 THEN p ELSE outport(w[k - 1], ports[k][1], ports[k][2])
    IN  w[Len(ports)]

-----------------------------------------------------------------------------
Kern == 16      \* 0x10, the selector of the kernel's data
Loader == 24    \* a selector the boot loader left behind

Segs(ds, es, fs, gs) == [ds |-> ds, es |-> es, fs |-> fs, gs |-> gs]

\* boot.S has turned interrupts off.
Init ==
    /\ version \in Versions
    /\ pic = BiosPair
    /\ handlers = {}
    /\ done = 0
    /\ IF_flag = FALSE
    /\ stack = <<>>
    /\ segs = Segs(Loader, Loader, Loader, Loader)
    /\ raised = [d \in Devices |-> 0]
    /\ traps = 0
    /\ stop = "no"

InKmain == stop = "no" /\ stack = <<>>

\* Mutant of gdt_install: fs is left alone too.
gdt_install_NoFs(s) == IF V1 THEN Segs(Kern, Kern, Kern, Kern) ELSE Segs(Kern, Kern, s.fs, s.gs)

\* kern's loads ds, es, fs and ss, v1's also gs.
gdt_install(s) == IF V1 THEN Segs(Kern, Kern, Kern, Kern) ELSE Segs(Kern, Kern, Kern, s.gs)

GdtInit ==
    /\ InKmain /\ done = 0
    /\ segs' = gdt_install(segs)
    /\ done' = 1
    /\ UNCHANGED <<version, pic, handlers, IF_flag, stack, raised, traps, stop>>

\* idt_init, and idt_install which turns interrupts on.
IdtInit ==
    /\ InKmain /\ done = 1
    /\ pic' = Written(pic, IF V1 THEN init_idt.ports ELSE pic_remap)
    /\ IF_flag' = TRUE
    /\ done' = 2
    /\ UNCHANGED <<version, handlers, stack, segs, raised, traps, stop>>

\* add_int_handler(n, ...), called with interrupts on.
AddHandler(n) ==
    /\ handlers' = handlers \cup {n}
    /\ UNCHANGED <<version, pic, IF_flag, stack, segs, raised, traps, stop>>

\* vmm_init registers page_fault and timer_init timer_handler.  How fast the
\* timer is set to run does not matter here: it ran before, too.
KernHandlers ==
    /\ InKmain /\ ~ V1 /\ done \in {2, 3}
    /\ AddHandler(<<14, 32>>[done - 1])
    /\ done' = done + 1

\* v1: init_keyboard, then init_paging.
V1Handlers ==
    /\ InKmain /\ V1 /\ done \in {2, 3}
    /\ AddHandler(<<33, 14>>[done - 1])
    /\ done' = done + 1

Setup == GdtInit \/ IdtInit \/ KernHandlers \/ V1Handlers

-----------------------------------------------------------------------------
(* Interrupts and exceptions.                                              *)

\* A device makes a request.  What the controllers hold when they are set up
\* is dropped, see Command.
Raise(d) ==
    /\ stop = "no" /\ raised[d] < MaxRaise
    /\ pic' = Raised(pic, d)
    /\ raised' = [raised EXCEPT ![d] = @ + 1]
    /\ UNCHANGED <<version, handlers, done, IF_flag, stack, segs, traps, stop>>

\* Mutant of irq_handler: only the slave gets an acknowledgement.
irq_handler_NoMaster == <<"handler", "slave">>

\* The statements of irq_handler: the call of the handler or the message, the
\* acknowledgement for the slave and the one for the master.
irq_handler == <<"handler", "slave", "master">>

\* v1 acknowledges to the slave first.
v1_irq_handler == <<"slave", "handler", "master">>

isr_handler == <<"handler">>

v1_isr_handler == <<"handler">>

\* The processor goes through gate vec.  words counts what is on the stack
\* between what the processor always pushes and the number n.  An interrupt
\* gate (bit 0 clear) turns interrupts off, and so does kern's stub.
Enter(vec, error, line) ==
    LET n == Entered(vec)
        noerr == n >= 32 \/ n \notin (IF V1 THEN ISR_ERR ELSE isr_err)
        frame == [n     |-> n,
                  todo  |-> IF n >= 32 THEN (IF V1 THEN v1_irq_handler ELSE irq_handler)
                            ELSE IF V1 THEN v1_isr_handler ELSE isr_handler,
                  words |-> (IF error THEN 1 ELSE 0) + (IF noerr THEN 1 ELSE 0),
                  IF_flag |-> IF_flag,
                  segs  |-> segs,
                  line  |-> line]
    IN  IF n = -1 \/ ~ KernelData(Kern)
        THEN stop' = "wild" /\ UNCHANGED <<IF_flag, stack, segs>>
        ELSE /\ stack' = Append(stack, frame)
             /\ IF_flag' = (IF_flag /\ V1 /\ 0 \in Bits(IDT[vec].flags))
             /\ segs' = Segs(Kern, Kern, Kern, Kern)
             /\ UNCHANGED stop

Take ==
    /\ stop = "no" /\ IF_flag /\ Intr(pic)
    /\ \E a \in {Acknowledge(pic), AcknowledgeSpurious(pic)} :
          /\ pic' = a.pic
          /\ Enter(a.vec, FALSE, a.line)
    /\ UNCHANGED <<version, handlers, done, raised, traps>>

NoLine == -1

\* The code runs into an exception, in a handler perhaps.
Trap(v) ==
    /\ stop = "no" /\ done >= 2 /\ traps < MaxTraps
    /\ traps' = traps + 1
    /\ Enter(v, v \in PushesError, NoLine)
    /\ UNCHANGED <<version, pic, handlers, done, raised>>

Top == stack[Len(stack)]
At(s) == stop = "no" /\ stack # <<>> /\ Top.todo # <<>> /\ Head(Top.todo) = s
StepTop == [stack EXCEPT ![Len(stack)].todo = Tail(@)]

\* There is no handler and a message is printed, or the handler returns.  The
\* timer's may get here through schedule.
Handle ==
    /\ At("handler")
    /\ Top.n \in handlers => Top.n # 14
    /\ stack' = StepTop
    /\ UNCHANGED <<version, pic, handlers, done, IF_flag, segs, raised, traps, stop>>

\* page_fault halts with interrupts off.
Halt ==
    /\ At("handler") /\ Top.n = 14 /\ 14 \in handlers
    /\ stop' = "halt"
    /\ UNCHANGED <<version, pic, handlers, done, IF_flag, stack, segs, raised, traps>>

\* schedule switches to a task that fork has made, which has no frame to
\* return through: see ScheduleFresh in Sched.
SwitchFresh ==
    /\ At("handler") /\ Top.n = 32 /\ 32 \in handlers
    /\ stop' = "fresh"
    /\ UNCHANGED <<version, pic, handlers, done, IF_flag, stack, segs, raised, traps>>

\* Mutant of AckSlave: off by one.
AckSlave_Above40 ==
    /\ At("slave")
    /\ pic' = IF Top.n > 40 THEN outport(pic, 160, 32) ELSE pic
    /\ stack' = StepTop
    /\ UNCHANGED <<version, handlers, done, IF_flag, segs, raised, traps, stop>>

AckSlave ==
    /\ At("slave")
    /\ pic' = IF Top.n >= 40 THEN outport(pic, 160, 32) ELSE pic
    /\ stack' = StepTop
    /\ UNCHANGED <<version, handlers, done, IF_flag, segs, raised, traps, stop>>

AckMaster ==
    /\ At("master")
    /\ pic' = outport(pic, 32, 32)
    /\ stack' = StepTop
    /\ UNCHANGED <<version, handlers, done, IF_flag, segs, raised, traps, stop>>

\* The end of irq_common or isr_common.  kern's irq_common pushes es twice and
\* pops the second one into fs.  "add $8" takes two words off the stack: the
\* number and the one word that must be above it.
Return ==
    LET f == Top
        s == f.segs
    IN  /\ stop = "no" /\ stack # <<>> /\ Top.todo = <<>>
        /\ IF f.words = 1
           THEN /\ stack' = SubSeq(stack, 1, Len(stack) - 1)
                /\ IF_flag' = f.IF_flag
                /\ segs' = IF f.n >= 32 /\ ~ V1 THEN Segs(s.ds, s.es, s.es, s.gs) ELSE s
                /\ UNCHANGED stop
           ELSE stop' = "wild" /\ UNCHANGED <<stack, IF_flag, segs>>
        /\ UNCHANGED <<version, pic, handlers, done, raised, traps>>

Next ==
    \/ Setup
    \/ \E d \in Devices : Raise(d)
    \/ Take
    \/ \E v \in Exceptions : Trap(v)
    \/ Handle \/ Halt \/ SwitchFresh \/ AckSlave \/ AckMaster \/ Return

\* Code goes on, and the processor looks for requests before every
\* instruction it executes with interrupts on.
Fairness ==
    /\ WF_vars(Setup)
    /\ WF_vars(Handle \/ Halt \/ SwitchFresh \/ AckSlave \/ AckMaster \/ Return)
    /\ WF_vars(Take)

Spec == Init /\ [][Next]_vars /\ Fairness

-----------------------------------------------------------------------------
(* Properties.                                                             *)

\* Of each version the exceptions whose stubs are right.  The stub of 17 in kern
\* and those of 8 and 30 in v1 are not.
StubsFit ==
    \A v \in Exceptions : /\ "kern" \in Versions => v # 17
                          /\ "v1" \in Versions => v \notin {8, 30}

\* Every interrupt and exception is entered through a usable gate and comes
\* back to where it left, with the stack as it was: the stubs push one word
\* exactly where the processor pushes none (int.S, "isr_noerr", "isr_err"),
\* and no device is taken for an exception (the comment in pic_remap).
ComesBack == stop # "wild"

\* irq_handler sees 32 plus the number of the line that asked, through either
\* controller, and line 7 or 15 for a request that was withdrawn.
OwnNumber ==
    \A i \in DOMAIN stack : stack[i].line # NoLine => stack[i].n = 32 + stack[i].line

\* Interrupts are on only when every earlier one has been acknowledged to
\* each controller it came through, and a withdrawn request or an exception
\* on the way has not taken away another one's acknowledgement: no line is
\* held back by one that is over.
NothingInService == done >= 2 /\ IF_flag => pic.m.isr = {} /\ pic.s.isr = {}

\* An interrupt leaves the segment registers of kmain as they were, although
\* kern's irq_common restores fs from es and gdt_install does not load gs.
SegmentsKept == [][Len(stack') < Len(stack) => segs' = Top.segs]_vars

\* A request is taken in the end, whatever else is in service, printed or
\* trapped, unless the kernel halted or went to a task that cannot return.
RequestTaken ==
    \A d \in Devices : Waiting(pic, d) ~> (~ Waiting(pic, d) \/ stop # "no")
=============================================================================
