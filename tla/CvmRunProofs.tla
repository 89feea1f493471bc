---------------------------- MODULE CvmRunProofs ----------------------------
(***************************************************************************)
(* CvmRun, for any set of events: its type invariant, that rescissions are *)
(* reported only if one was accepted, and that interrupts and exceptions   *)
(* set between runs are neither lost nor taken twice.                      *)
(***************************************************************************)
EXTENDS CvmRun, TLAPS

\* EVENTINJ is used up before the guest can be left, a virtual interrupt is
\* intercepted only with V_IRQ set, and read-modify-write cycles are finished.
Placed ==
  /\ eventinj.valid => pc = "guest"
  /\ pc = "virtint" => virq.on
  /\ fetched # "none" => WritesSpecial

\* The handlers that leave the guest differ in the intercept they report, and
\* those that do not, raise an exception.
Raised ==
  /\ pc = "guest" /\ ~eventinj.valid
  /\ eventinj' = Injection("exc", None)
  /\ UNCHANGED <<pc, special, fetched, injected, virq, iret_on, guest_if, code, owed, history>>

LEMMA ExitKinds ==
  Exits => \/ LeaveGuest("scheduler") \/ LeaveGuest("other") \/ Raised
           \/ VirtIntExit \/ IretExit
  BY DEF Exits, GuestExit, SchedulerExit, AccessExit, CpuidExit, HltOrIoExit, MsrExit,
         ShutdownOrHypercall, SvmInstruction, InjectException, Raised

LEMMA ControlStep == ControlOK /\ [Next]_vars => ControlOK'
<1> SUFFICES ASSUME ControlOK, [Next]_vars PROVE ControlOK'
    OBVIOUS
<1> USE DEF ControlOK, HostPcs, GuestPcs, special, vmcb, history
<1>1. CASE Rescind  BY <1>1 DEF Rescind
<1>2. CASE SetEventInjection
      BY <1>2 DEF SetEventInjection, Injection, Replaced, InHeader, Waiting
<1>3. CASE CancelEventInjection
      BY <1>3 DEF CancelEventInjection, NoEvent, InHeader, Waiting
<1>4. CASE Deliver  BY <1>4 DEF Deliver, Consume, NoEvent, Invalidated
<1>5. CASE InterceptDelivery  BY <1>5 DEF InterceptDelivery, Consume, NoEvent, Invalidated
<1>6. CASE AcceptInterrupts \/ BlockInterrupts
      BY <1>6 DEF AcceptInterrupts, BlockInterrupts
<1>7. CASE Exits  BY <1>7, ExitKinds DEF LeaveGuest, Raised, Injection, VirtIntExit, IretExit
<1>8. CASE Fetch  BY <1>8 DEF Fetch
<1>9. CASE StartRun \/ AbortRun \/ ContinueRun
      BY <1>9 DEF StartRun, AbortRun, ContinueRun
<1>10. CASE Prepare  BY <1>10 DEF Prepare, WriteBack
<1>11. CASE SwitchToGuest  BY <1>11 DEF SwitchToGuest, WriteBack
<1>12. CASE VirtIntInject  BY <1>12 DEF VirtIntInject, WriteBack, Injection, Invalidated
<1>13. CASE VirtIntWindow  BY <1>13 DEF VirtIntWindow
<1>14. CASE IretInject  BY <1>14 DEF IretInject, WriteBack
<1>15. CASE IretWindow  BY <1>15 DEF IretWindow
<1>16. CASE SwitchToHost  BY <1>16 DEF SwitchToHost, WriteBack, LeftInVmcb
<1>17. CASE ExitTail \/ EndRun  BY <1>17 DEF ExitTail, EndRun
<1>18. CASE UNCHANGED vars  BY <1>18 DEF vars
<1> QED
    BY <1>1, <1>2, <1>3, <1>4, <1>5, <1>6, <1>7, <1>8, <1>9, <1>10, <1>11, <1>12, <1>13,
       <1>14, <1>15, <1>16, <1>17, <1>18 DEF Next, Host, Guest, Run

LEMMA PlacedStep == ControlOK /\ Placed /\ [Next]_vars => Placed'
<1> SUFFICES ASSUME ControlOK, Placed, [Next]_vars PROVE Placed'
    OBVIOUS
<1> USE DEF Placed, WritesSpecial, special, vmcb, history
<1>1. CASE Rescind  BY <1>1 DEF Rescind
<1>2. CASE SetEventInjection
      BY <1>2 DEF SetEventInjection, Injection, Replaced, InHeader, Waiting
<1>3. CASE CancelEventInjection
      BY <1>3 DEF CancelEventInjection, NoEvent, InHeader, Waiting
<1>4. CASE Deliver  BY <1>4 DEF Deliver, Consume, NoEvent, Invalidated
<1>5. CASE InterceptDelivery  BY <1>5 DEF InterceptDelivery, Consume, NoEvent, Invalidated
<1>6. CASE AcceptInterrupts \/ BlockInterrupts
      BY <1>6 DEF AcceptInterrupts, BlockInterrupts
<1>7. CASE Exits  BY <1>7, ExitKinds DEF LeaveGuest, Raised, Injection, VirtIntExit, IretExit
<1>8. CASE Fetch  BY <1>8 DEF Fetch
<1>9. CASE StartRun \/ AbortRun \/ ContinueRun
      BY <1>9 DEF StartRun, AbortRun, ContinueRun
<1>10. CASE Prepare  BY <1>10 DEF Prepare, WriteBack
<1>11. CASE SwitchToGuest  BY <1>11 DEF SwitchToGuest, WriteBack
<1>12. CASE VirtIntInject  BY <1>12 DEF VirtIntInject, WriteBack, Injection, Invalidated
<1>13. CASE VirtIntWindow  BY <1>13 DEF VirtIntWindow
<1>14. CASE IretInject  BY <1>14 DEF IretInject, WriteBack
<1>15. CASE IretWindow  BY <1>15 DEF IretWindow
<1>16. CASE SwitchToHost  BY <1>16 DEF SwitchToHost, WriteBack, LeftInVmcb
<1>17. CASE ExitTail \/ EndRun  BY <1>17 DEF ExitTail, EndRun
<1>18. CASE UNCHANGED vars  BY <1>18 DEF vars
<1> QED
    BY <1>1, <1>2, <1>3, <1>4, <1>5, <1>6, <1>7, <1>8, <1>9, <1>10, <1>11, <1>12, <1>13,
       <1>14, <1>15, <1>16, <1>17, <1>18 DEF Next, Host, Guest, Run

LEMMA Consumed ==
  ASSUME EventsOK, Consume
  PROVE  /\ eventinj' \in EventRecords
         /\ ~eventinj'.valid
         /\ eventinj'.kind \in {"irq", eventinj.kind}
<1>1. CASE eventinj' = NoEvent  BY <1>1 DEF NoEvent, EventRecords, Kinds
<1>2. CASE eventinj' = Invalidated(eventinj)
      BY <1>2 DEF Invalidated, EventsOK, EventRecords, Kinds
<1> QED  BY <1>1, <1>2 DEF Consume

LEMMA RaisedIsException ==
  Raised => eventinj' \in EventRecords /\ eventinj'.valid /\ eventinj'.kind = "exc"
            /\ eventinj'.id = None
  BY DEF Raised, Injection, EventRecords, Kinds

LEMMA EventsStep == Placed /\ EventsOK /\ [Next]_vars => EventsOK'
<1> SUFFICES ASSUME Placed, EventsOK, [Next]_vars PROVE EventsOK'
    OBVIOUS
<1> USE DEF Placed, EventsOK, EventRecords, Kinds, special, vmcb, history
<1>1. CASE Rescind  BY <1>1 DEF Rescind
<1>2. CASE SetEventInjection
      BY <1>2 DEF SetEventInjection, Injection, Replaced, InHeader, Waiting
<1>3. CASE CancelEventInjection
      BY <1>3 DEF CancelEventInjection, NoEvent, InHeader, Waiting
<1>4. CASE Deliver  BY <1>4, Consumed DEF Deliver
<1>5. CASE InterceptDelivery  BY <1>5, Consumed DEF InterceptDelivery
<1>6. CASE AcceptInterrupts \/ BlockInterrupts
      BY <1>6 DEF AcceptInterrupts, BlockInterrupts
<1>7. CASE Exits
  <2>1. CASE Raised  BY <2>1, RaisedIsException DEF Raised
  <2>2. CASE LeaveGuest("scheduler") \/ LeaveGuest("other") \/ VirtIntExit \/ IretExit
        BY <2>2 DEF LeaveGuest, VirtIntExit, IretExit
  <2> QED  BY <1>7, <2>1, <2>2, ExitKinds
<1>8. CASE Fetch  BY <1>8 DEF Fetch
<1>9. CASE StartRun \/ AbortRun \/ ContinueRun
      BY <1>9 DEF StartRun, AbortRun, ContinueRun
<1>10. CASE Prepare  BY <1>10 DEF Prepare, WriteBack
<1>11. CASE SwitchToGuest  BY <1>11 DEF SwitchToGuest, WriteBack
<1>12. CASE VirtIntInject  BY <1>12 DEF VirtIntInject, WriteBack, Injection, Invalidated
<1>13. CASE VirtIntWindow  BY <1>13 DEF VirtIntWindow
<1>14. CASE IretInject  BY <1>14 DEF IretInject, WriteBack
<1>15. CASE IretWindow  BY <1>15 DEF IretWindow
<1>16. CASE SwitchToHost  BY <1>16 DEF SwitchToHost, WriteBack, LeftInVmcb
<1>17. CASE ExitTail \/ EndRun  BY <1>17 DEF ExitTail, EndRun
<1>18. CASE UNCHANGED vars  BY <1>18 DEF vars
<1> QED
    BY <1>1, <1>2, <1>3, <1>4, <1>5, <1>6, <1>7, <1>8, <1>9, <1>10, <1>11, <1>12, <1>13,
       <1>14, <1>15, <1>16, <1>17, <1>18 DEF Next, Host, Guest, Run

LEMMA HistoryStep == EventsOK /\ HistoryOK /\ [Next]_vars => HistoryOK'
<1> SUFFICES ASSUME EventsOK, HistoryOK, [Next]_vars PROVE HistoryOK'
    OBVIOUS
<1> USE DEF EventsOK, HistoryOK, EventRecords, Kinds, special, vmcb, history
<1>1. CASE Rescind  BY <1>1 DEF Rescind
<1>2. CASE SetEventInjection
      BY <1>2 DEF SetEventInjection, Injection, Replaced, InHeader, Waiting
<1>3. CASE CancelEventInjection
      BY <1>3 DEF CancelEventInjection, NoEvent, InHeader, Waiting
<1>4. CASE Deliver  BY <1>4 DEF Deliver, Consume, NoEvent, Invalidated
<1>5. CASE InterceptDelivery  BY <1>5 DEF InterceptDelivery, Consume, NoEvent, Invalidated
<1>6. CASE AcceptInterrupts \/ BlockInterrupts
      BY <1>6 DEF AcceptInterrupts, BlockInterrupts
<1>7. CASE Exits  BY <1>7, ExitKinds DEF LeaveGuest, Raised, Injection, VirtIntExit, IretExit
<1>8. CASE Fetch  BY <1>8 DEF Fetch
<1>9. CASE StartRun \/ AbortRun \/ ContinueRun
      BY <1>9 DEF StartRun, AbortRun, ContinueRun
<1>10. CASE Prepare  BY <1>10 DEF Prepare, WriteBack
<1>11. CASE SwitchToGuest  BY <1>11 DEF SwitchToGuest, WriteBack
<1>12. CASE VirtIntInject  BY <1>12 DEF VirtIntInject, WriteBack, Injection, Invalidated
<1>13. CASE VirtIntWindow  BY <1>13 DEF VirtIntWindow
<1>14. CASE IretInject  BY <1>14 DEF IretInject, WriteBack
<1>15. CASE IretWindow  BY <1>15 DEF IretWindow
<1>16. CASE SwitchToHost  BY <1>16 DEF SwitchToHost, WriteBack, LeftInVmcb
<1>17. CASE ExitTail \/ EndRun  BY <1>17 DEF ExitTail, EndRun
<1>18. CASE UNCHANGED vars  BY <1>18 DEF vars
<1> QED
    BY <1>1, <1>2, <1>3, <1>4, <1>5, <1>6, <1>7, <1>8, <1>9, <1>10, <1>11, <1>12, <1>13,
       <1>14, <1>15, <1>16, <1>17, <1>18 DEF Next, Host, Guest, Run

TInv == ControlOK /\ Placed /\ EventsOK /\ HistoryOK

LEMMA TypeInit == Init => TInv
<1>1. Init => ControlOK  BY DEF Init, ControlOK, HostPcs
<1>4. Init => Placed  BY DEF Init, Placed, NoEvent
<1>2. Init => EventsOK  BY DEF Init, EventsOK, EventRecords, NoEvent, Kinds
<1>3. Init => HistoryOK  BY DEF Init, HistoryOK
<1> QED  BY <1>1, <1>2, <1>3, <1>4 DEF TInv

LEMMA TypeStep == TInv /\ [Next]_vars => TInv'
  BY ControlStep, PlacedStep, EventsStep, HistoryStep DEF TInv

\* Every variable keeps its type, and read-modify-write cycles of
\* special_state are under way only in the steps that write a bit-field.
THEOREM TypeCorrect == Spec => []TypeOK
<1>1. TInv => TypeOK  BY DEF TInv, TypeOK, Placed
<1> QED  BY <1>1, TypeInit, TypeStep, PTL DEF Spec

LEMMA RescissionStep == TInv /\ RescissionOwed /\ [Next]_vars => RescissionOwed'
<1> SUFFICES ASSUME TInv, RescissionOwed, [Next]_vars PROVE RescissionOwed'
    OBVIOUS
<1> USE DEF TInv, ControlOK, Placed, RescissionOwed, WritesSpecial, special, vmcb, history
<1>1. CASE Host
      BY <1>1 DEF Host, Rescind, SetEventInjection, CancelEventInjection
<1>2. CASE Guest \/ Exits
      BY <1>2 DEF Guest, Exits, Deliver, InterceptDelivery, AcceptInterrupts, BlockInterrupts,
                  GuestExit, SchedulerExit, AccessExit, CpuidExit, HltOrIoExit, MsrExit,
                  ShutdownOrHypercall, SvmInstruction, InjectException, LeaveGuest,
                  VirtIntExit, IretExit
<1>3. CASE Fetch  BY <1>3 DEF Fetch
<1>4. CASE StartRun \/ AbortRun \/ ContinueRun \/ ExitTail \/ EndRun
      BY <1>4 DEF StartRun, AbortRun, ContinueRun, ExitTail, EndRun
<1>5. ASSUME WriteBack, owed' = owed PROVE RescissionOwed'
      BY <1>5 DEF WriteBack
<1>6. CASE Prepare \/ SwitchToGuest \/ VirtIntInject \/ IretInject \/ SwitchToHost
      BY <1>5, <1>6 DEF Prepare, SwitchToGuest, VirtIntInject, IretInject, SwitchToHost
<1>7. CASE VirtIntWindow \/ IretWindow  BY <1>7 DEF VirtIntWindow, IretWindow
<1>8. CASE UNCHANGED vars  BY <1>8 DEF vars
<1> QED
    BY <1>1, <1>2, <1>3, <1>4, <1>6, <1>7, <1>8 DEF Next, Run

\* "Already rescinded", and the report of a rescission, go back to one that
\* was accepted and not reported, although the bits beside it are written
\* without a lock.
THEOREM RescissionCorrect == Spec => []RescissionOwed
<1>1. Init => RescissionOwed  BY DEF Init, RescissionOwed
<1> QED  BY <1>1, TypeInit, TypeStep, RescissionStep, PTL DEF Spec
-----------------------------------------------------------------------------
(* What is true of the events while none is an NMI and all are set between *)
(* runs.                                                                   *)

NoNmi == injected.kind # "nmi" /\ eventinj.kind # "nmi" /\ ~prev_nmi

\* An event not yet injected is nowhere.
Fresh ==
  \A e \in Events :
    sort[e] = "unused" =>
      /\ deliveries[e] = 0
      /\ injected.valid => injected.id # e
      /\ eventinj.valid => eventinj.id # e
      /\ virq.on => virq.id # e

\* An interrupt in the header reaches V_IRQ.
Flow ==
  /\ pc = "prepare" => injected.valid /\ injected.kind = "irq"
  /\ pc = "enter" /\ injected.valid /\ injected.kind = "irq" => prev_virq

Done(e) == e \in exempt \/ deliveries[e] = 1

\* V_IRQ set without prev_virq only awaits the interrupt window.
Window ==
  virq.on /\ ~prev_virq => \/ Done(virq.id)
                           \/ eventinj.valid /\ eventinj.id = virq.id

\* V_IRQ that the header's interrupt is about to replace is not needed.
Superseded ==
  /\ pc \in HostPcs /\ prev_virq /\ virq.on
  /\ injected.kind = "irq" /\ ~(injected.valid /\ injected.id = virq.id)
  => Done(virq.id)

\* An exception and the interrupt that waits in V_IRQ are different events.
Apart ==
  prev_virq /\ virq.on =>
    /\ eventinj.valid => eventinj.id # virq.id
    /\ pc \in HostPcs /\ injected.valid /\ injected.kind = "exc" => injected.id # virq.id

AllKept == \A e \in Events : Kept(e)
AllOnce == \A e \in Events : deliveries[e] <= 1 /\ (deliveries[e] = 1 => ~Held(e))

Facts == /\ NoNmi /\ Fresh /\ Flow /\ Window /\ Superseded /\ Apart
         /\ AllKept /\ AllOnce
EInv == Regular => Facts

LEMMA EventsUndisturbed ==
  ASSUME Facts, UNCHANGED <<pc, prev_virq, prev_nmi, injected, eventinj, virq, sort, deliveries, exempt>>
  PROVE  Facts'
  BY DEF Facts, NoNmi, Fresh, Flow, Window, Superseded, Apart, AllKept, AllOnce, Kept, Held,
         InVirq, Waiting, Done, HostPcs

LEMMA RegularBefore == TInv /\ [Next]_vars /\ Regular' => Regular
<1> SUFFICES ASSUME TInv, [Next]_vars, Regular' PROVE Regular
    OBVIOUS
<1>1. UNCHANGED <<sort, sound>> \/ SetEventInjection \/ CancelEventInjection
      BY DEF Next, Host, Guest, Exits, Run, vars, history, Rescind, Deliver, InterceptDelivery,
         AcceptInterrupts, BlockInterrupts, GuestExit, SchedulerExit, AccessExit, CpuidExit,
         HltOrIoExit, MsrExit, ShutdownOrHypercall, SvmInstruction, InjectException,
         LeaveGuest, VirtIntExit, IretExit, Fetch, StartRun,
         AbortRun, ContinueRun, Prepare, SwitchToGuest, VirtIntInject, VirtIntWindow,
         IretInject, IretWindow, SwitchToHost, ExitTail, EndRun
<1>2. CASE UNCHANGED <<sort, sound>>  BY <1>2 DEF Regular
<1>3. CASE SetEventInjection  BY <1>3 DEF SetEventInjection, Regular, TInv, HistoryOK
<1>4. CASE CancelEventInjection  BY <1>4 DEF CancelEventInjection, Regular
<1> QED  BY <1>1, <1>2, <1>3, <1>4

LEMMA EventStep == TInv /\ EInv /\ [Next]_vars => EInv'
<1> SUFFICES ASSUME TInv, Facts, TInv', [Next]_vars, Regular, Regular' PROVE Facts'
    BY TypeStep, RegularBefore DEF EInv
<1> USE DEF TInv, ControlOK, Placed, EventsOK, HistoryOK, EventRecords, HostPcs, Kinds,
        Facts, NoNmi, Fresh, Flow, Window, Superseded, Apart, AllKept, AllOnce,
        Kept, Held, InVirq, Waiting, Done, special, vmcb, history
<1>1. CASE Rescind \/ AcceptInterrupts \/ BlockInterrupts \/ Fetch \/ UNCHANGED vars
      BY <1>1, EventsUndisturbed DEF Rescind, AcceptInterrupts, BlockInterrupts, Fetch, vars
<1>2. CASE SetEventInjection
      BY <1>2 DEF SetEventInjection, Injection, Replaced, InHeader, Regular
<1>3. CASE CancelEventInjection
      BY <1>3 DEF CancelEventInjection, NoEvent, InHeader, Regular
<1>4. CASE Deliver
      BY <1>4, Consumed DEF Deliver
<1>5. CASE InterceptDelivery
      BY <1>5, Consumed DEF InterceptDelivery
<1>6. CASE Exits
      BY <1>6, ExitKinds, NoneAssumption DEF LeaveGuest, Raised, Injection, VirtIntExit, IretExit
<1>7. CASE StartRun
      BY <1>7 DEF StartRun
<1>8. CASE AbortRun
      BY <1>8 DEF AbortRun
<1>9. CASE ContinueRun
      BY <1>9 DEF ContinueRun
<1>10. CASE Prepare
      BY <1>10 DEF Prepare, WriteBack
<1>11. CASE SwitchToGuest
      BY <1>11 DEF SwitchToGuest, WriteBack
<1>12. CASE VirtIntInject
      BY <1>12 DEF VirtIntInject, WriteBack, Injection, Invalidated
<1>13. CASE VirtIntWindow
      BY <1>13 DEF VirtIntWindow
<1>14. CASE IretInject
      BY <1>14 DEF IretInject
<1>15. CASE IretWindow
      BY <1>15 DEF IretWindow
<1>16. CASE SwitchToHost
      BY <1>16 DEF SwitchToHost, WriteBack, LeftInVmcb
<1>17. CASE ExitTail
      BY <1>17 DEF ExitTail
<1>18. CASE EndRun
      BY <1>18 DEF EndRun
<1> QED
    BY <1>1, <1>2, <1>3, <1>4, <1>5, <1>6, <1>7, <1>8, <1>9, <1>10, <1>11, <1>12, <1>13, <1>14, <1>15, <1>16, <1>17, <1>18
       DEF Next, Host, Guest, Run

LEMMA EventInit == Init => EInv
  BY DEF Init, EInv, Facts, NoNmi, Fresh, Flow, Window, Superseded, Apart, AllKept, AllOnce,
         Kept, Held, InVirq, Waiting, Done, HostPcs, NoEvent

LEMMA Invariant == Spec => [](TInv /\ EInv)
<1>1. Init => TInv /\ EInv  BY TypeInit, EventInit
<1>2. TInv /\ EInv /\ [Next]_vars => (TInv /\ EInv)'  BY TypeStep, EventStep
<1> QED  BY <1>1, <1>2, PTL DEF Spec

\* Whatever the order of runs, rescissions, exits and injections, no
\* interrupt or exception is lost between header, V_IRQ and EVENTINJ.
THEOREM EventsCorrect == Spec => []EventsKept
<1>1. EInv => EventsKept  BY DEF EInv, Facts, AllKept, EventsKept
<1> QED  BY <1>1, Invariant, PTL

\* And none is taken twice.
THEOREM DeliveryCorrect == Spec => []DeliveredOnce
<1>1. EInv => DeliveredOnce  BY DEF EInv, Facts, AllOnce, DeliveredOnce
<1> QED  BY <1>1, Invariant, PTL
=============================================================================
