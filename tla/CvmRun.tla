------------------------------- MODULE CvmRun -------------------------------
(***************************************************************************)
(* One vCPU of a CVM in the SVM core: running it, rescinding its           *)
(* execution, and injecting events into its guest.                         *)
(*                                                                         *)
(* One thread of the user hypervisor runs the vCPU, and the vCPU lock      *)
(* keeps a second one out.  Other threads rescind the vCPU or set the      *)
(* event to inject, without that lock.  An event to be injected passes     *)
(* from the vCPU header (injected_event) to the VMCB: exceptions to        *)
(* EVENTINJ, which the processor delivers when it enters the guest;        *)
(* interrupts to V_IRQ, which causes an intercept once the guest accepts   *)
(* interrupts, and then to EVENTINJ; NMIs wait in the header for the guest *)
(* to execute iret.  Leaving the guest puts what is left back.             *)
(*                                                                         *)
(* special_state is one 64-bit word.  Its bit rescission is set and reset  *)
(* by locked instructions; the other bits are bit-fields, written by plain *)
(* read-modify-write cycles of the word, or of the byte, they are in.      *)
(***************************************************************************)
EXTENDS Naturals

CONSTANTS
  Events,   \* events the user hypervisor injects, each of them once
  None      \* no event of the host: empty, or an exception a handler raised

ASSUME NoneAssumption == None \notin Events

VARIABLES
  pc,          \* where the running thread, or the guest, is
  rescission,  \* special_state.rescission
  prev_virq,   \* special_state.prev_virq: V_IRQ stands for an interrupt
  prev_nmi,    \* special_state.prev_nmi: an NMI waits for iret
  fetched,     \* rescission as read by a read-modify-write cycle under way
  injected,    \* header.injected_event
  eventinj,    \* EVENTINJ of the VMCB
  virq,        \* V_IRQ and the vector of the VMCB
  iret_on,     \* the VMCB intercepts iret
  guest_if,    \* the guest accepts interrupts
  code,        \* exit_context.intercept_code of the run under way
  owed,        \* history: a rescission was accepted and is not yet reported
  sort,        \* history: what kind of event each one was injected as
  deliveries,  \* history: how often the guest took each event (at most 2)
  exempt,      \* history: events replaced by the host or intercepted in delivery
  sound        \* history: no event was set during a run

special == <<rescission, prev_virq, prev_nmi>>
vmcb == <<eventinj, virq, iret_on>>
history == <<sort, deliveries, exempt, sound>>
vars == <<pc, special, fetched, injected, vmcb, guest_if, code, owed, history>>

Kinds == {"irq", "exc", "nmi"}      \* types 0, 3 and 2
NoEvent == [valid |-> FALSE, kind |-> "irq", id |-> None]
Invalidated(event) == [valid |-> FALSE, kind |-> event.kind, id |-> event.id]
Injection(k, e) == [valid |-> TRUE, kind |-> k, id |-> e]

\* Where the header holds the event to inject, and where the VMCB does.
HostPcs == {"idle", "entry", "prepare", "enter", "tail", "unlock"}
GuestPcs == {"guest", "virtint", "iret", "leave"}

Init ==
  /\ pc = "idle"
  /\ rescission = FALSE /\ prev_virq = FALSE /\ prev_nmi = FALSE
  /\ fetched = "none"
  /\ injected = NoEvent
  /\ eventinj = NoEvent
  /\ virq = [on |-> FALSE, id |-> None]
  /\ iret_on = FALSE
  /\ guest_if = FALSE
  /\ code = "none"
  /\ owed = FALSE
  /\ sort = [e \in Events |-> "unused"]
  /\ deliveries = [e \in Events |-> 0]
  /\ exempt = {}
  /\ sound = TRUE

-----------------------------------------------------------------------------
(* Other threads of the user hypervisor.                                   *)

\* nvc_svmc_rescind_vcpu succeeds; it answers noir_already_rescinded, and
\* changes nothing, while the bit is set.
Rescind ==
  /\ ~rescission
  /\ rescission' = TRUE
  /\ owed' = TRUE
  /\ UNCHANGED <<pc, prev_virq, prev_nmi, fetched, injected, vmcb, guest_if, code, history>>

\* The interrupt that waits in V_IRQ, if any.
Waiting == {e \in Events : prev_virq /\ virq.on /\ virq.id = e}

\* The events given up when the host sets another one: an interrupt takes
\* the place of the event in the header and of the one in V_IRQ, an
\* exception or NMI that of the event in the header unless V_IRQ has it.
InHeader == {e \in Events : injected.valid /\ injected.id = e}
Replaced(k) == IF k = "irq" THEN InHeader \cup Waiting ELSE InHeader \ Waiting

\* nvc_set_event_injection overwrites the event and locks nothing.
SetEventInjection ==
  \E e \in Events, k \in Kinds :
    /\ sort[e] = "unused"
    /\ sort' = [sort EXCEPT ![e] = k]
    /\ injected' = Injection(k, e)
    /\ exempt' = exempt \cup Replaced(k)
    /\ sound' = (sound /\ pc = "idle")
    /\ UNCHANGED <<pc, special, fetched, vmcb, guest_if, code, owed, deliveries>>

\* The user hypervisor sets no event: it takes back what it has set, which
\* resets V_IRQ in the next run as well.
CancelEventInjection ==
  /\ injected.valid
  /\ injected' = NoEvent
  /\ exempt' = exempt \cup InHeader \cup Waiting
  /\ sound' = (sound /\ pc = "idle")
  /\ UNCHANGED <<pc, special, fetched, vmcb, guest_if, code, owed, sort, deliveries>>

-----------------------------------------------------------------------------
(* Plain writes to special_state.                                          *)

\* Steps that write a bit-field of special_state.
WritesSpecial ==
  \/ pc \in {"prepare", "enter", "leave"}
  \/ pc = "virtint" /\ prev_virq
  \/ pc = "iret" /\ prev_nmi

Fetch ==
  /\ WritesSpecial /\ fetched = "none"
  /\ fetched' = IF rescission THEN "set" ELSE "reset"
  /\ UNCHANGED <<pc, special, injected, vmcb, guest_if, code, owed, history>>

\* The write-back carries the rescission bit that was read, unless the
\* compiler chose an access that does not cover it.
WriteBack ==
  /\ fetched # "none"
  /\ rescission' = rescission \/ rescission' = (fetched = "set")
  /\ fetched' = "none"

-----------------------------------------------------------------------------
(* nvc_svmc_run_vcpu and the world switch to the guest.                    *)

StartRun ==
  /\ pc = "idle"
  /\ pc' = "entry"
  /\ UNCHANGED <<special, fetched, injected, vmcb, guest_if, code, owed, history>>

AbortRunTested == \* mutant: the bit is tested and not reset
  /\ pc = "entry" /\ rescission
  /\ code' = "rescission"
  /\ owed' = FALSE
  /\ pc' = "unlock"
  /\ UNCHANGED <<special, fetched, injected, vmcb, guest_if, history>>

AbortRun ==
  /\ pc = "entry" /\ rescission
  /\ rescission' = FALSE
  /\ code' = "rescission"
  /\ owed' = FALSE
  /\ pc' = "unlock"
  /\ UNCHANGED <<prev_virq, prev_nmi, fetched, injected, vmcb, guest_if, history>>

ContinueRun ==
  /\ pc = "entry" /\ ~rescission
  /\ pc' = IF injected.valid /\ injected.kind = "irq" THEN "prepare" ELSE "enter"
  /\ UNCHANGED <<special, fetched, injected, vmcb, guest_if, code, owed, history>>

PrepareNothing == \* mutant: prev_virq is not set
  /\ pc = "prepare" /\ WriteBack
  /\ pc' = "enter"
  /\ UNCHANGED <<prev_virq, prev_nmi, injected, vmcb, guest_if, code, owed, history>>

Prepare ==
  /\ pc = "prepare" /\ WriteBack
  /\ prev_virq' = TRUE
  /\ pc' = "enter"
  /\ UNCHANGED <<prev_nmi, injected, vmcb, guest_if, code, owed, history>>

\* nvc_svm_switch_to_guest_vcpu looks at the type of the event, and leaves
\* its validity to the VMCB.
SwitchToGuest ==
  /\ pc = "enter" /\ WriteBack
  /\ \/ /\ injected.kind = "nmi"
        /\ prev_nmi' = TRUE
        /\ iret_on' = TRUE
        /\ UNCHANGED <<eventinj, virq>>
     \/ /\ injected.kind = "exc"
        /\ eventinj' = injected
        /\ UNCHANGED <<prev_nmi, virq, iret_on>>
     \/ /\ injected.kind = "irq"
        /\ virq' = IF prev_virq THEN [on |-> injected.valid, id |-> injected.id] ELSE virq
        /\ UNCHANGED <<prev_nmi, eventinj, iret_on>>
  /\ pc' = "guest"
  /\ UNCHANGED <<prev_virq, injected, guest_if, code, owed, history>>

-----------------------------------------------------------------------------
(* The processor in guest mode.                                            *)

\* A delivered or intercepted event leaves EVENTINJ invalid; the processor
\* clears the valid bit or the whole field.
Consume == eventinj' \in {NoEvent, Invalidated(eventinj)}

Deliver ==
  /\ pc = "guest" /\ eventinj.valid
  /\ deliveries' = [e \in Events |-> IF e # eventinj.id THEN deliveries[e]
                                     ELSE IF deliveries[e] = 0 THEN 1 ELSE 2]
  /\ Consume
  /\ guest_if' = FALSE
  /\ UNCHANGED <<pc, special, fetched, injected, virq, iret_on, code, owed, sort, exempt, sound>>

\* The guest's handler or stack is not mapped: the delivery is intercepted.
\* The event is in EXITINTINFO now, which NoirVisor does not read.
InterceptDelivery ==
  /\ pc = "guest" /\ eventinj.valid
  /\ exempt' = exempt \cup ({eventinj.id} \cap Events)
  /\ Consume
  /\ code' = "other"
  /\ pc' = "leave"
  /\ UNCHANGED <<special, fetched, injected, virq, iret_on, guest_if, owed, sort, deliveries, sound>>

AcceptInterrupts ==
  /\ pc = "guest" /\ ~eventinj.valid
  /\ ~guest_if
  /\ guest_if' = TRUE
  /\ UNCHANGED <<pc, special, fetched, injected, vmcb, code, owed, history>>

BlockInterrupts ==
  /\ pc = "guest" /\ ~eventinj.valid
  /\ guest_if
  /\ guest_if' = FALSE
  /\ UNCHANGED <<pc, special, fetched, injected, vmcb, code, owed, history>>

\* The intercept of an exit that goes to the host is written after the
\* world switch; nothing looks at it in between.
LeaveGuest(c) ==
  /\ pc = "guest" /\ ~eventinj.valid
  /\ code' = c
  /\ pc' = "leave"
  /\ UNCHANGED <<special, fetched, injected, vmcb, guest_if, owed, history>>

\* Machine checks, physical interrupts, NMIs, SMIs and INIT belong to the
\* host.  Accesses to control and debug registers and exceptions are
\* intercepted when the user hypervisor wants them, hlt and I/O always.
\* cpuid is else emulated, which changes nothing here.
SchedulerExit == LeaveGuest("scheduler")
AccessExit == LeaveGuest("other")
CpuidExit == LeaveGuest("other")
HltOrIoExit == LeaveGuest("other")
ShutdownOrHypercall == LeaveGuest("other")

\* nvc_svm_inject_cvm_exception: an exception that a handler raises is the
\* guest's, unless the user hypervisor intercepts its vector.
InjectException ==
  \/ /\ pc = "guest" /\ ~eventinj.valid
     /\ eventinj' = Injection("exc", None)
     /\ UNCHANGED <<pc, special, fetched, injected, virq, iret_on, guest_if, code, owed, history>>
  \/ LeaveGuest("other")

\* CVMs have no SVM.  An MSR that is neither intercepted by the user
\* hypervisor nor known to NoirVisor raises #UD as well.
SvmInstruction == InjectException
MsrExit == LeaveGuest("other") \/ InjectException

GuestExit == \/ SchedulerExit \/ AccessExit \/ CpuidExit \/ HltOrIoExit \/ MsrExit
             \/ ShutdownOrHypercall \/ SvmInstruction

VirtIntExit ==
  /\ pc = "guest" /\ ~eventinj.valid
  /\ virq.on /\ guest_if
  /\ pc' = "virtint"
  /\ UNCHANGED <<special, fetched, injected, vmcb, guest_if, code, owed, history>>

IretExit ==
  /\ pc = "guest" /\ ~eventinj.valid
  /\ iret_on
  /\ pc' = "iret"
  /\ UNCHANGED <<special, fetched, injected, vmcb, guest_if, code, owed, history>>

-----------------------------------------------------------------------------
(* Handlers of virtual interrupts and of iret.                             *)

VirtIntInjectAgain == \* mutant: prev_virq stays set
  /\ pc = "virtint" /\ prev_virq /\ WriteBack
  /\ eventinj' = Injection("irq", virq.id)
  /\ injected' = Invalidated(injected)
  /\ pc' = "guest"
  /\ UNCHANGED <<prev_virq, prev_nmi, virq, iret_on, guest_if, code, owed, history>>

VirtIntInject ==
  /\ pc = "virtint" /\ prev_virq /\ WriteBack
  /\ eventinj' = Injection("irq", virq.id)
  /\ prev_virq' = FALSE
  /\ injected' = Invalidated(injected)
  /\ pc' = "guest"
  /\ UNCHANGED <<prev_nmi, virq, iret_on, guest_if, code, owed, history>>

\* No interrupt is pending: this is the interrupt window.  V_IRQ is reset,
\* but the handler invalidates the AVIC pointers, not the group V_IRQ is in,
\* so that the processor may use the cached bit and write it back.
VirtIntWindow ==
  /\ pc = "virtint" /\ ~prev_virq
  /\ \E on \in BOOLEAN : virq' = [on |-> on, id |-> virq.id]
  /\ \/ pc' = "guest" /\ UNCHANGED code
     \/ pc' = "leave" /\ code' = "window" \* intercept_interrupt_window
  /\ UNCHANGED <<special, fetched, injected, eventinj, iret_on, guest_if, owed, history>>

IretInject ==
  /\ pc = "iret" /\ prev_nmi /\ WriteBack
  /\ prev_nmi' = FALSE
  /\ eventinj' = injected
  /\ pc' = "guest"
  /\ UNCHANGED <<prev_virq, injected, virq, iret_on, guest_if, code, owed, history>>

\* Without intercept_nmi_window nothing changes, and iret is tried again.
IretWindow ==
  /\ pc = "iret" /\ ~prev_nmi
  /\ \/ pc' = "guest" /\ UNCHANGED <<code, iret_on>>
     \/ pc' = "leave" /\ code' = "window" /\ iret_on' = FALSE
  /\ UNCHANGED <<special, fetched, injected, eventinj, virq, guest_if, owed, history>>

-----------------------------------------------------------------------------
(* The world switch to the host.                                           *)

LeftInEventInj == eventinj \* mutant: V_IRQ is not looked at
LeftInVmcb == IF ~eventinj.valid /\ prev_virq
                THEN [valid |-> virq.on, kind |-> "irq", id |-> virq.id] ELSE eventinj

SwitchToHost ==
  /\ pc = "leave" /\ WriteBack
  /\ injected' = LeftInVmcb
  /\ pc' = "tail"
  /\ UNCHANGED <<prev_virq, prev_nmi, vmcb, guest_if, code, owed, history>>

ExitTailTested == \* mutant: the bit is tested and not reset
  /\ pc = "tail"
  /\ IF code = "scheduler" /\ rescission
       THEN code' = "rescission" /\ owed' = FALSE
       ELSE UNCHANGED <<code, owed>>
  /\ pc' = "unlock"
  /\ UNCHANGED <<special, fetched, injected, vmcb, guest_if, history>>

\* The end of nvc_svm_exit_handler: rescission is looked at for exits of the
\* scheduler only.
ExitTail ==
  /\ pc = "tail"
  /\ IF code = "scheduler" /\ rescission
       THEN rescission' = FALSE /\ code' = "rescission" /\ owed' = FALSE
       ELSE UNCHANGED <<rescission, code, owed>>
  /\ pc' = "unlock"
  /\ UNCHANGED <<prev_virq, prev_nmi, fetched, injected, vmcb, guest_if, history>>

\* The intercept goes to the caller.  The copy that stays behind is not read
\* again: every run writes it first.
EndRun ==
  /\ pc = "unlock"
  /\ code' = "none"
  /\ pc' = "idle"
  /\ UNCHANGED <<special, fetched, injected, vmcb, guest_if, owed, history>>

-----------------------------------------------------------------------------
Host == Rescind \/ SetEventInjection \/ CancelEventInjection
Guest == Deliver \/ InterceptDelivery \/ AcceptInterrupts \/ BlockInterrupts
Exits == GuestExit \/ VirtIntExit \/ IretExit
Run == \/ StartRun \/ AbortRun \/ ContinueRun \/ Prepare \/ SwitchToGuest
       \/ VirtIntInject \/ VirtIntWindow \/ IretInject \/ IretWindow
       \/ SwitchToHost \/ ExitTail \/ EndRun

Next == Host \/ Guest \/ Exits \/ Fetch \/ Run

Spec == Init /\ [][Next]_vars

\* The thread runs the vCPU again and again; a physical interrupt leaves the
\* guest sooner or later; the guest accepts interrupts again and again, and
\* is not each time interrupted before it takes one.
Fairness ==
  /\ WF_vars(Run \/ Fetch \/ Deliver)
  /\ SF_vars(SchedulerExit) /\ SF_vars(AcceptInterrupts)
  /\ SF_vars(VirtIntExit)

FairSpec == Spec /\ Fairness

-----------------------------------------------------------------------------
(* Properties.                                                             *)

EventRecords == [valid : BOOLEAN, kind : Kinds, id : Events \cup {None}]

ControlOK ==
  /\ pc \in HostPcs \cup GuestPcs
  /\ rescission \in BOOLEAN /\ prev_virq \in BOOLEAN /\ prev_nmi \in BOOLEAN
  /\ fetched \in {"none", "set", "reset"}
  /\ iret_on \in BOOLEAN /\ guest_if \in BOOLEAN
  /\ code \in {"none", "scheduler", "other", "window", "rescission"}
  /\ owed \in BOOLEAN

EventsOK ==
  /\ injected \in EventRecords /\ (injected.valid => injected.id \in Events)
  /\ eventinj \in EventRecords
  /\ eventinj.valid => eventinj.id \in Events \/ eventinj.kind = "exc"
  /\ virq \in [on : BOOLEAN, id : Events \cup {None}] /\ (virq.on => virq.id \in Events)

HistoryOK ==
  /\ sort \in [Events -> Kinds \cup {"unused"}]
  /\ deliveries \in [Events -> 0 .. 2]
  /\ exempt \subseteq Events
  /\ sound \in BOOLEAN

\* Every variable has its type, a valid event is one of Events, and a
\* read-modify-write cycle is under way only where one is made.
TypeOK ==
  /\ ControlOK /\ EventsOK /\ HistoryOK
  /\ fetched # "none" => WritesSpecial

\* nvc_svmc_rescind_vcpu answers "already rescinded", and a run is aborted,
\* only because of a rescission that was accepted and not yet reported: the
\* plain writes to special_state never bring a reported one back.
RescissionOwed == rescission \/ fetched = "set" => owed

\* Where an event waits to be taken by the guest.  V_IRQ that is about to be
\* overwritten by an interrupt in the header holds none.
InVirq(e) == /\ e \in Waiting
             /\ ~(pc = "enter" /\ injected.kind = "irq")
Held(e) ==
  \/ pc \in HostPcs /\ injected.valid /\ injected.id = e
  \/ eventinj.valid /\ eventinj.id = e
  \/ InVirq(e)
  \/ prev_nmi /\ injected.valid /\ injected.kind = "nmi" /\ injected.id = e

Kept(e) == sort[e] = "unused" \/ e \in exempt \/ deliveries[e] = 1 \/ Held(e)

\* Events are set between runs, and no NMI is among them.
Regular == sound /\ \A e \in Events : sort[e] # "nmi"

\* Interrupts and exceptions set between runs are not lost on their way
\* through header, V_IRQ, EVENTINJ and back, over any number of runs and
\* rescissions, as long as no NMI is injected: each one is delivered or held,
\* unless the host replaced it or its delivery was intercepted.  An
\* exception does not make the interrupt lost that waits in V_IRQ.
EventsKept == Regular => \A e \in Events : Kept(e)

\* Nor does the guest take one twice, although the header keeps a copy of
\* what the VMCB was given.
DeliveredOnce ==
  Regular => \A e \in Events : deliveries[e] <= 1 /\ (deliveries[e] = 1 => ~Held(e))

\* An interrupt set between runs is taken by a guest that accepts interrupts
\* again and again, whatever else the vCPU exits for, once it is no longer
\* rescinded.
InterruptsTaken ==
  <>[]~rescission =>
    \A e \in Events : sort[e] = "irq" ~> deliveries[e] = 1 \/ e \in exempt \/ ~Regular

\* A rescission does not stay pending for ever: runs that end for other
\* reasons leave it to the next run.
RescissionSettled == rescission ~> ~rescission

-----------------------------------------------------------------------------
(* What comments in the source say, and the code refutes.                  *)

\* svm_custom.c, nvc_svmc_run_vcpu: "Abort execution if rescission is
\* specified": an accepted rescission stays specified until it is reported.
RescissionKept == owed => rescission \/ fetched = "set"

\* svm_cvexit.c, nvc_svm_iret_cvexit_handler: "Inject the pending NMI": an
\* NMI that was set between runs is pending until the guest takes it.
NmiKept == sound => \A e \in Events : sort[e] = "nmi" => Kept(e)
=============================================================================
