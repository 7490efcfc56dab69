------------------------------ MODULE Machine ------------------------------
(***************************************************************************)
(* The life of a virtual machine in src/vm.c: vm_new, vm_vcpu_init_state,  *)
(* vm_run and vm_destroy, the descriptors and the mapping they make, and   *)
(* what the kernel does for a virtual machine once only.  A program may    *)
(* have several, and go on after any failure.                              *)
(***************************************************************************)
EXTENDS Integers, FiniteSetsExt

CONSTANTS Vm,        \* the addresses malloc may return for a vm_t
          MaxFd,     \* the largest descriptor a process may have
          Chips,     \* the sets of chips the program asks for
          Modes,     \* the modes it asks for
          Nobody,    \* a file that is of no vm_t
          KvmFails   \* any call to the kernel, and any malloc, may fail

ASSUME MachineAssumption ==
  /\ MaxFd \in Nat \ {0} /\ KvmFails \in BOOLEAN /\ Nobody \notin Vm
  /\ Chips \subseteq SUBSET {"irqchip", "pit"}
  /\ Modes \subseteq {"real", "protected", "none"}

VARIABLES process,  \* "runs", or the function it crashed in
          files,    \* the descriptors of the process
          vms,      \* the vm_t objects, with the kernel's view of them
          maps      \* the number of vCPU pages mapped

vars == <<process, files, vms, maps>>

Fd == 0..MaxFd
FdOrError == Fd \cup {-1}
File(kind, of) == [kind |-> kind, of |-> of]
Free == File("free", Nobody)
FileT == [kind : {"free", "std", "kvm", "vm", "vcpu"}, of : Vm \cup {Nobody}]

\* What the kernel keeps of the steps of vm_vcpu_init_state.
Made == {"irqchip", "pit", "vcpu", "cpuid", "segments"}

\* Its flags; REAL_MODE wins when both modes are set.
Flags == [chips : Chips, mode : Modes]

\* init is the last answer of vm_vcpu_init_state.
VmT == [live : BOOLEAN, kvm_fd : FdOrError, vm_fd : FdOrError, vcpu_fd : FdOrError,
        kvm_run : {"null", "failed", "mapped"}, made : SUBSET Made,
        mode : Modes \cup {"none"}, init : {-1, 0, 1}, running : BOOLEAN]

NoVm == [live |-> FALSE, kvm_fd |-> -1, vm_fd |-> -1, vcpu_fd |-> -1,
         kvm_run |-> "null", made |-> {}, mode |-> "none", init |-> 0,
         running |-> FALSE]

TypeOK ==
  /\ process \in {"runs", "vm_new", "vm_run"}
  /\ files \in [Fd -> FileT] /\ vms \in [Vm -> VmT] /\ maps \in 0..MaxFd

Init ==
  /\ process = "runs" /\ vms = [v \in Vm |-> NoVm] /\ maps = 0
  /\ files = [n \in Fd |-> IF n = 0 THEN File("std", Nobody) ELSE Free]
-----------------------------------------------------------------------------
\* A new descriptor is the smallest free one.
FreeFds(f) == {n \in Fd : f[n] = Free}
NewFd(f) == Min(FreeFds(f))
Opened(f, file) == [f EXCEPT ![NewFd(f)] = file]
Closed(f, numbers) == [n \in Fd |-> IF n \in numbers THEN Free ELSE f[n]]

(***************************************************************************)
(* vm_new returns NULL: open fails; KVM_CREATE_VM fails, and the first     *)
(* descriptor is left open; memory_new fails, and the second one is.       *)
(***************************************************************************)
VmNewFails(v) ==
  LET kvm == Opened(files, File("kvm", Nobody)) IN
  /\ UNCHANGED vms
  /\ \/ (KvmFails \/ FreeFds(files) = {}) /\ UNCHANGED files
     \/ /\ FreeFds(files) # {} /\ (KvmFails \/ FreeFds(kvm) = {})
        /\ files' = kvm
     \/ /\ FreeFds(files) # {} /\ FreeFds(kvm) # {} /\ KvmFails
        /\ files' = Closed(Opened(kvm, File("vm", Nobody)), {NewFd(files)})

\* The object vm_new returns: vcpu_fd is 0, which is the standard input.
VmNewMakes(v) ==
  LET kvm == Opened(files, File("kvm", v)) IN
  /\ FreeFds(files) # {} /\ FreeFds(kvm) # {}
  /\ files' = Opened(kvm, File("vm", v))
  /\ vms' = [vms EXCEPT ![v] = [NoVm EXCEPT !.live = TRUE, !.kvm_fd = NewFd(files),
                                            !.vm_fd = NewFd(kvm), !.vcpu_fd = 0]]

VmNew(v) ==
  /\ ~vms[v].live
  /\ VmNewFails(v) \/ VmNewMakes(v)
  /\ UNCHANGED <<process, maps>>

\* malloc returns NULL, which memset is given before it is tested.
VmNewCrashes ==
  /\ KvmFails
  /\ FreeFds(files) # {} /\ FreeFds(Opened(files, File("kvm", Nobody))) # {}
  /\ process' = "vm_new" /\ UNCHANGED <<files, vms, maps>>
-----------------------------------------------------------------------------
(***************************************************************************)
(* vm_vcpu_init_state: the steps the call asks for, in the order of Place. *)
(***************************************************************************)
Asked(a) ==
  {"address", "vcpu", "size", "map", "cpuid"} \cup a.chips
    \cup {s \in {"mode"} : a.mode # "none"}

Place == [address |-> 1, irqchip |-> 2, pit |-> 3, vcpu |-> 4, size |-> 5,
          map |-> 6, cpuid |-> 7, mode |-> 8, nothing |-> 9]

Before(a, step) == {s \in Asked(a) : Place[s] < Place[step]}

\* What the kernel can do for a VM for which it did some steps.
Possible(did, step) ==
  /\ step \in {"address", "irqchip", "vcpu"} => "vcpu" \notin did
  /\ step \in {"irqchip", "pit"} => step \notin did
  /\ step = "pit" => "irqchip" \in did
  /\ step = "vcpu" => FreeFds(files) # {}

\* Mutant: a mapping that failed is not told.
Answer_MapNotTested(a, failed) ==
  IF failed \in {"nothing", "map"} /\ a.mode # "real" THEN 1 ELSE 0

\* set_real_mode answers 0 when it succeeds.
Answer(a, failed) ==
  IF failed = "nothing" /\ a.mode # "real" THEN 1
  ELSE IF failed = "mode" /\ a.mode = "real" THEN -1 ELSE 0

(***************************************************************************)
(* The steps before the one that failed succeed.  setup_cpuid answers 0,   *)
(* which is no failure to its caller, also when KVM_GET_SUPPORTED_CPUID    *)
(* fails and it sets nothing; set_real_mode reads the segments and does    *)
(* not write them.                                                         *)
(***************************************************************************)
VmInitUntil(v, a, failed, supported) ==
  LET vm == vms[v]
      done == Before(a, failed)
      kept(step) == vm.made \cup Before(a, step)
  IN
  /\ vm.live /\ ~vm.running
  /\ \A s \in done : Possible(kept(s), s)
  /\ failed # "nothing" => KvmFails \/ ~Possible(kept(failed), failed)
  /\ files' = IF "vcpu" \in done THEN Opened(files, File("vcpu", v)) ELSE files
  /\ maps' = IF "map" \in done THEN maps + 1 ELSE maps
  /\ vms' = [vms EXCEPT ![v] = [vm EXCEPT
       !.vcpu_fd = IF "vcpu" \in done THEN NewFd(files)
                   ELSE IF failed = "vcpu" THEN -1 ELSE vm.vcpu_fd,
       !.kvm_run = IF "map" \in done THEN "mapped"
                   ELSE IF failed = "map" THEN "failed" ELSE vm.kvm_run,
       !.made = vm.made \cup (done \cap {"irqchip", "pit", "vcpu"})
                  \cup {c \in {"cpuid"} : c \in done /\ supported}
                  \cup {s \in {"segments"} : "mode" \in done /\ a.mode = "protected"},
       !.mode = a.mode, !.init = Answer(a, failed)]]
  /\ UNCHANGED process

VmInit(v, a) ==
  \E failed \in Asked(a) \cup {"nothing"},
     supported \in IF KvmFails THEN BOOLEAN ELSE {TRUE} :
    VmInitUntil(v, a, failed, supported)

\* The file a call on vcpu_fd goes to.
VcpuFile(v) == IF vms[v].vcpu_fd = -1 THEN Free ELSE files[vms[v].vcpu_fd]

\* vm_run, when it does not return at once.  kvm_run is tested for NULL
\* only: with MAP_FAILED in it the process reads there.
VmRun(v) ==
  /\ vms[v].live /\ ~vms[v].running
  /\ vms[v].kvm_run # "null" /\ VcpuFile(v).kind = "vcpu"
  /\ vms' = [vms EXCEPT ![v].running = TRUE]
  /\ process' = IF vms[v].kvm_run = "failed" THEN "vm_run" ELSE process
  /\ UNCHANGED <<files, maps>>

\* KVM_RUN fails, or there is an exit that vm_run does not know.
VmRunEnds(v) ==
  /\ vms[v].running
  /\ vms' = [vms EXCEPT ![v].running = FALSE]
  /\ UNCHANGED <<process, files, maps>>

\* What is left open of a VM that is freed is nobody's.
Orphaned(f, v) == [n \in Fd |-> IF f[n].of = v THEN File(f[n].kind, Nobody) ELSE f[n]]

\* Mutant: every descriptor in the object is closed.
VmDestroy_ClosesVcpu(v) ==
  /\ vms[v].live /\ ~vms[v].running
  /\ files' = Orphaned(Closed(files, {vms[v].kvm_fd, vms[v].vm_fd, vms[v].vcpu_fd}), v)
  /\ vms' = [vms EXCEPT ![v] = NoVm]
  /\ UNCHANGED <<process, maps>>

\* Mutant: the vCPU is closed when there is one, and stays mapped.
VmDestroy_KeepsMapping(v) ==
  /\ vms[v].live /\ ~vms[v].running
  /\ files' = Orphaned(Closed(files, {vms[v].kvm_fd, vms[v].vm_fd, vms[v].vcpu_fd} \ {0}), v)
  /\ vms' = [vms EXCEPT ![v] = NoVm]
  /\ UNCHANGED <<process, maps>>

\* vm_destroy.
VmDestroy(v) ==
  /\ vms[v].live /\ ~vms[v].running
  /\ files' = Orphaned(Closed(files, {vms[v].kvm_fd, vms[v].vm_fd}), v)
  /\ vms' = [vms EXCEPT ![v] = NoVm]
  /\ UNCHANGED <<process, maps>>

Next ==
  /\ process = "runs"
  /\ \/ VmNewCrashes
     \/ \E v \in Vm : \/ VmNew(v) \/ VmRun(v) \/ VmRunEnds(v) \/ VmDestroy(v)
                      \/ \E a \in Flags : VmInit(v, a)

Spec == Init /\ [][Next]_vars
-----------------------------------------------------------------------------
(***************************************************************************)
(* Whatever failed before, and whichever VMs came and went: the numbers in *)
(* a vm_t are open files of its own, none that another VM or the program   *)
(* opened under a number that was closed.  vcpu_fd is 0 until there is a   *)
(* vCPU, and -1 after one was refused.                                     *)
(***************************************************************************)
OwnsItsFiles ==
  /\ files[0] = File("std", Nobody)
  /\ \A v \in Vm : vms[v].live =>
       /\ files[vms[v].kvm_fd] = File("kvm", v)
       /\ files[vms[v].vm_fd] = File("vm", v)
       /\ vms[v].vcpu_fd \in {0, -1} \/ VcpuFile(v) = File("vcpu", v)

(***************************************************************************)
(* A program that runs a VM only if the last answer of vm_vcpu_init_state  *)
(* was not 0, as examples/guests/main.c does, runs a vCPU of that VM whose *)
(* page is mapped and, in protected mode, whose segments are set: after    *)
(* every order of failures and retries.                                    *)
(***************************************************************************)
RunIsReady ==
  \A v \in Vm : vms[v].running /\ vms[v].init # 0 =>
    /\ VcpuFile(v) = File("vcpu", v) /\ vms[v].kvm_run = "mapped"
    /\ vms[v].mode = "protected" => "segments" \in vms[v].made
=============================================================================
