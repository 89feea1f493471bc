----------------------------- MODULE MCSubversion -----------------------------
(* Machines for Subversion: each engine with the options that change its plan. *)
EXTENDS Subversion

AllCaps == CapNames
MCSystems ==
  {[engine |-> "vt", caps |-> AllCaps, options |-> {"stealth_msr_hook"}],
   [engine |-> "vt", caps |-> AllCaps \ {"ept_requirements"}, options |-> {"enable_iommu"}],
   [engine |-> "svm", caps |-> {}, options |-> {"stealth_msr_hook"}],
   [engine |-> "svm", caps |-> {}, options |-> {}],
   [engine |-> "svm", caps |-> {}, options |-> {"enable_nsv", "nested_virtualization"}]}
MCWritten == {<<0, "cr3">>, <<1, "lstar">>}
NsvSystems == {s \in MCSystems : "enable_nsv" \in s.options}
Nothing == {}
=============================================================================
