------------------------------ MODULE NestedVmx ------------------------------
(***************************************************************************)
(* The VMX instructions that the host of Intel VT-x emulates for the       *)
(* subverted system: VMX operation, the current VMCS, and what a VMCS and  *)
(* the flags say of the last instruction.  A nested guest is never run:    *)
(* VMLAUNCH and VMRESUME have no handler.                                  *)
(***************************************************************************)
EXTENDS Naturals, FiniteSets

CONSTANTS
  Areas,     \* aligned pages that the system uses as VMXON region or VMCS
  Revised,   \* those that begin with the revision identifier
  None       \* maxu64

ASSUME NestedVmxAssumption == Revised \subseteq Areas /\ None \notin Areas

VARIABLES
  vmxe, vmxon,  \* bits of nested_vcpu.status
  vmxon_phys,   \* nested_vcpu.vmxon.phys
  vmcs_c,       \* the current VMCS
  active,       \* VMCSs whose header says active
  error,        \* vm_instruction_error of each VMCS
  flags,        \* what CF and ZF say of the last instruction: "success", "invalid", "valid"
  shadow_vmxe,  \* CR4.VMXE as the system reads it
  reset         \* history: INIT or a refused write has changed CR4 behind the status

nested_vmx == <<vmxe, vmxon, vmxon_phys, vmcs_c, active, error, flags, shadow_vmxe, reset>>
cr4_vmx == <<vmxe, shadow_vmxe, reset>>

Errors == {"vmclear_with_invalid_pa", "vmclear_with_vmxon_region", "vmptrld_with_invalid_pa",
           "vmptrld_with_vmxon_region", "vmptrld_with_incorrect_revid", "vmxon_in_vmx_root"}

NestedVmxInit ==
  /\ vmxe = FALSE /\ vmxon = FALSE /\ vmxon_phys = None /\ vmcs_c = None
  /\ active = {} /\ error = [a \in Areas |-> "none"] /\ flags = "success"
  /\ shadow_vmxe = FALSE /\ reset = FALSE

\* noir_vt_vmfail: the error is kept in the current VMCS, if there is one.  Writing it
\* sets the flags of a success first.
Vmfail(message) ==
  IF vmcs_c = None
    THEN flags' = "invalid" /\ UNCHANGED error
    ELSE flags' = "valid" /\ error' = [error EXCEPT ![vmcs_c] = message]

Vmsuccess == flags' = "success" /\ UNCHANGED error

\* Mutant: the current VMCS stays current.
ClearButCurrent(a) == active' = active \ {a} /\ UNCHANGED vmcs_c

\* What vmclear does to a VMCS: it is not active, nor current.
Clear(a) ==
  /\ active' = active \ {a}
  /\ vmcs_c' = IF vmcs_c = a THEN None ELSE vmcs_c

\* Outside VMX operation the instructions are #UD.
VmxInstructionFaults == ~ vmxon /\ UNCHANGED nested_vmx

\* An operand that is not aligned.
Misaligned(message) ==
  /\ vmxon /\ Vmfail(message)
  /\ UNCHANGED <<vmxon, vmxon_phys, vmcs_c, active, cr4_vmx>>

Vmclear(a) ==
  /\ vmxon
  /\ IF a = vmxon_phys
       THEN Vmfail("vmclear_with_vmxon_region") /\ UNCHANGED <<active, vmcs_c>>
       ELSE Clear(a) /\ Vmsuccess
  /\ UNCHANGED <<vmxon, vmxon_phys, cr4_vmx>>

Vmptrld(a) ==
  /\ vmxon
  /\ IF a = vmxon_phys
       THEN Vmfail("vmptrld_with_vmxon_region") /\ UNCHANGED <<active, vmcs_c>>
       ELSE IF a \notin Revised
         THEN Vmfail("vmptrld_with_incorrect_revid") /\ UNCHANGED <<active, vmcs_c>>
         ELSE active' = active \cup {a} /\ vmcs_c' = a /\ Vmsuccess
  /\ UNCHANGED <<vmxon, vmxon_phys, cr4_vmx>>

\* vmptrst leaves the flags alone.
Vmptrst == vmxon /\ UNCHANGED nested_vmx

\* The current VMCS is not forgotten.
Vmxoff ==
  /\ vmxon
  /\ vmxon' = FALSE /\ Vmsuccess
  /\ UNCHANGED <<vmxon_phys, vmcs_c, active, cr4_vmx>>

\* The region is noted before it is examined.  A success does not advance rip: the
\* instruction is executed again, and fails in VMX operation.
Vmxon(a) ==
  /\ vmxe
  /\ IF vmxon
       THEN /\ Vmfail("vmxon_in_vmx_root")
            /\ UNCHANGED <<vmxon, vmxon_phys, vmcs_c>>
       ELSE /\ vmxon_phys' = a
            /\ IF a \in Revised
                 THEN vmcs_c' = None /\ vmxon' = TRUE /\ Vmsuccess
                 ELSE flags' = "invalid" /\ UNCHANGED <<vmxon, vmcs_c, error>>
  /\ UNCHANGED <<active, cr4_vmx>>

\* Without CR4.VMXE it is #UD.
VmxonFaults == ~ vmxe /\ UNCHANGED nested_vmx

\* A write of CR4: leaving VMXE in VMX operation is #GP, but the shadow is written.
Cr4Write ==
  \E v \in BOOLEAN :
    /\ vmxe' = (v \/ vmxon)
    /\ shadow_vmxe' = v
    /\ reset' = (vmxe' # v)
    /\ UNCHANGED <<vmxon, vmxon_phys, vmcs_c, active, error, flags>>

\* INIT resets CR4, and leaves the status alone.
InitCr4 ==
  /\ shadow_vmxe' = FALSE
  /\ reset' = vmxe
  /\ UNCHANGED <<vmxe, vmxon, vmxon_phys, vmcs_c, active, error, flags>>

NestedVmxNext ==
  \/ VmxInstructionFaults \/ VmxonFaults \/ Vmptrst \/ Vmxoff \/ Cr4Write
  \/ Misaligned("vmclear_with_invalid_pa") \/ Misaligned("vmptrld_with_invalid_pa")
  \/ \E a \in Areas : Vmclear(a) \/ Vmptrld(a) \/ Vmxon(a)

NestedVmxTypeOK ==
  /\ vmxe \in BOOLEAN /\ vmxon \in BOOLEAN /\ shadow_vmxe \in BOOLEAN /\ reset \in BOOLEAN
  /\ vmxon_phys \in Areas \cup {None} /\ vmcs_c \in Areas \cup {None}
  /\ active \subseteq Areas
  /\ error \in [Areas -> Errors \cup {"none"}]
  /\ flags \in {"success", "invalid", "valid"}

\* In VMX operation the current VMCS is one that vmptrld accepted and that vmclear has not
\* cleared since, never the VMXON region, whatever regions the system used before; and
\* CR4.VMXE reads as the status says unless INIT or a refused write came between, which
\* is also when VMX operation outlives CR4.VMXE.
NestedVmxSound ==
  /\ vmxon => /\ vmxe /\ vmxon_phys \in Revised
              /\ vmcs_c # None => vmcs_c \in (Revised \cap active) \ {vmxon_phys}
  /\ ~ reset => vmxe = shadow_vmxe
=============================================================================
