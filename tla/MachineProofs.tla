--------------------------- MODULE MachineProofs ---------------------------
(***************************************************************************)
(* Proofs about Machine, for any number of VMs, descriptors and sets of    *)
(* flags, and with every call to the kernel failing or not.                *)
(***************************************************************************)
EXTENDS Machine, FiniteSetTheorems, WellFoundedInduction, TLAPS

USE MachineAssumption

(***************************************************************************)
(* What holds of one vm_t: its numbers are files of its own and, when the  *)
(* last vm_vcpu_init_state did not answer 0, there is a vCPU to run.       *)
(***************************************************************************)
HasVcpu(v) ==
  /\ VcpuFile(v) = File("vcpu", v) /\ vms[v].kvm_run = "mapped"
  /\ vms[v].mode = "protected" => "segments" \in vms[v].made

Sound(v) ==
  /\ vms[v].running => vms[v].live
  /\ vms[v].live =>
       /\ vms[v].kvm_fd \in Fd /\ files[vms[v].kvm_fd] = File("kvm", v)
       /\ vms[v].vm_fd \in Fd /\ files[vms[v].vm_fd] = File("vm", v)
       /\ vms[v].vcpu_fd \in {0, -1} \/ VcpuFile(v) = File("vcpu", v)
       /\ vms[v].init # 0 => HasVcpu(v)

\* A mapped page keeps its vCPU: no more pages than files of vCPUs, which
\* nothing closes.
VcpuFds(f) == {n \in Fd : f[n].kind = "vcpu"}
MapsBacked == maps <= Cardinality(VcpuFds(files))

MachineInv ==
  /\ TypeOK /\ MapsBacked
  /\ files[0] = File("std", Nobody)
  /\ \A v \in Vm : Sound(v)
-----------------------------------------------------------------------------
LEMMA FdSet == IsFiniteSet(Fd) /\ Cardinality(Fd) = MaxFd + 1 /\ 0 \in Fd
<1>1. 0 \in Int /\ MaxFd \in Int
  OBVIOUS
<1>2. IsFiniteSet(0..MaxFd)
      /\ Cardinality(0..MaxFd) = IF 0 > MaxFd THEN 0 ELSE MaxFd - 0 + 1
  BY <1>1, FS_Interval
<1> QED BY <1>2 DEF Fd

LEMMA VcpuFdsSize ==
  ASSUME NEW f
  PROVE  IsFiniteSet(VcpuFds(f)) /\ Cardinality(VcpuFds(f)) \in Nat
<1>1. VcpuFds(f) \subseteq Fd
  BY DEF VcpuFds
<1> QED BY <1>1, FdSet, FS_Subset, FS_CardinalityType

\* The smallest free descriptor is one: the sets of the descriptors below
\* each free one are ordered by inclusion, which is well-founded.
LEMMA NewFdIsFree ==
  ASSUME NEW f, FreeFds(f) # {}
  PROVE  NewFd(f) \in Fd /\ f[NewFd(f)] = Free
<1> DEFINE Below(n) == {m \in Fd : m < n}
           Sets == {Below(n) : n \in FreeFds(f)}
           R == StrictSubsetOrdering(Fd)
<1>1. FreeFds(f) \subseteq Fd
  BY DEF FreeFds
<1>2. IsWellFoundedOn(R, SUBSET Fd)
  <2>1. FiniteSubsetsOf(Fd) = SUBSET Fd
    BY FdSet, FS_FiniteSubsetsOfFinite, Zenon
  <2>2. IsWellFoundedOn(R, FiniteSubsetsOf(Fd))
    BY FS_StrictSubsetOrderingWellFounded, Zenon
  <2> QED BY <2>1, <2>2
<1>3. Sets \subseteq SUBSET Fd /\ Sets # {}
  <2>1. \A n \in FreeFds(f) : Below(n) \in SUBSET Fd /\ Below(n) \in Sets
    OBVIOUS
  <2>2. PICK n \in FreeFds(f) : TRUE
    OBVIOUS
  <2>3. Sets \subseteq SUBSET Fd
    BY <2>1
  <2> HIDE DEF Sets
  <2> QED BY <2>1, <2>2, <2>3
<1>4. \E x \in Sets : \A y \in Sets : ~ (<<y, x>> \in R)
  <2> HIDE DEF R, Sets
  <2> QED BY <1>2, <1>3, WFMin
<1>5. PICK x \in FreeFds(f) : \A y \in Sets : ~ (<<y, Below(x)>> \in R)
  BY <1>4
<1>6. ASSUME NEW y \in FreeFds(f)
      PROVE  x <= y
  <2>1. x \in Int /\ y \in Int
    BY <1>1 DEF Fd
  <2>2. ~ (<<Below(y), Below(x)>> \in R)
    BY <1>5
  <2>3. Below(y) \subseteq Fd /\ Below(x) \subseteq Fd
    OBVIOUS
  <2>4. ~ (Below(y) \subseteq Below(x) /\ Below(y) # Below(x))
    BY <2>2, <2>3 DEF StrictSubsetOrdering
  <2>5. SUFFICES ASSUME y < x PROVE FALSE
    BY <2>1
  <2>6. Below(y) \subseteq Below(x)
    BY <2>1, <2>5 DEF Fd
  <2>7. y \in Below(x) /\ y \notin Below(y)
    BY <1>1, <2>1, <2>5
  <2> QED BY <2>4, <2>6, <2>7
<1>7. NewFd(f) \in FreeFds(f)
  BY <1>6 DEF NewFd, Min
<1> QED BY <1>7 DEF FreeFds

LEMMA OpenedEffect ==
  ASSUME NEW f \in [Fd -> FileT], FreeFds(f) # {}, NEW file \in FileT
  PROVE  /\ Opened(f, file) \in [Fd -> FileT]
         /\ NewFd(f) \in Fd /\ f[NewFd(f)] = Free
         /\ Opened(f, file)[NewFd(f)] = file
         /\ \A n \in Fd \ {NewFd(f)} : Opened(f, file)[n] = f[n]
<1>1. NewFd(f) \in Fd /\ f[NewFd(f)] = Free
  BY NewFdIsFree
<1> QED BY <1>1 DEF Opened

LEMMA FileFields ==
  ASSUME NEW kind, NEW of
  PROVE  File(kind, of).kind = kind /\ File(kind, of).of = of
BY DEF File

\* A file that is opened, and no vCPU, leaves the vCPUs as they are.
LEMMA OpenedNoVcpu ==
  ASSUME NEW f \in [Fd -> FileT], FreeFds(f) # {}, NEW file \in FileT,
         file.kind # "vcpu"
  PROVE  VcpuFds(Opened(f, file)) = VcpuFds(f)
<1>1. Free.kind = "free"
  BY FileFields DEF Free
<1> DEFINE g == Opened(f, file)
<1>2. \A n \in Fd : g[n].kind = "vcpu" <=> f[n].kind = "vcpu"
  <2>1. /\ NewFd(f) \in Fd /\ f[NewFd(f)] = Free /\ g[NewFd(f)] = file
        /\ \A n \in Fd \ {NewFd(f)} : g[n] = f[n]
    BY OpenedEffect
  <2> HIDE DEF g
  <2> QED BY <1>1, <2>1
<1> QED BY <1>2 DEF VcpuFds

LEMMA OpenedVcpu ==
  ASSUME NEW f \in [Fd -> FileT], FreeFds(f) # {}, NEW v \in Vm
  PROVE  Cardinality(VcpuFds(Opened(f, File("vcpu", v)))) = Cardinality(VcpuFds(f)) + 1
<1> DEFINE file == File("vcpu", v)
<1>1. Free.kind = "free" /\ file.kind = "vcpu"
  BY FileFields DEF Free
<1>2. file \in FileT
  BY DEF File, FileT
<1>3. VcpuFds(Opened(f, file)) = VcpuFds(f) \cup {NewFd(f)}
  BY <1>1, <1>2, OpenedEffect DEF VcpuFds
<1>4. NewFd(f) \notin VcpuFds(f)
  BY <1>1, <1>2, OpenedEffect DEF VcpuFds
<1> QED BY <1>3, <1>4, VcpuFdsSize, FS_AddElement

\* What is sound stays so while nobody touches its record and its files.
LEMMA SoundKept ==
  ASSUME TypeOK, TypeOK', NEW w \in Vm, Sound(w), vms'[w] = vms[w],
         \A n \in Fd : files[n].of = w => files'[n] = files[n]
  PROVE  Sound(w)'
<1>1. \A kind \in STRING : File(kind, w).of = w
  BY FileFields
<1>2. vms[w].vcpu_fd \in Fd \cup {-1} /\ -1 \notin Fd
  BY DEF TypeOK, VmT, FdOrError, Fd
<1>3. Free # File("vcpu", w)
  BY FileFields DEF Free
<1>4. VcpuFile(w) = File("vcpu", w) => VcpuFile(w)' = File("vcpu", w)
  <2> SUFFICES ASSUME VcpuFile(w) = File("vcpu", w)
               PROVE  VcpuFile(w)' = File("vcpu", w)
    OBVIOUS
  <2>1. vms[w].vcpu_fd \in Fd /\ vms[w].vcpu_fd # -1
    BY <1>2, <1>3 DEF VcpuFile
  <2>2. files[vms[w].vcpu_fd] = File("vcpu", w)
    BY <2>1 DEF VcpuFile
  <2>3. files'[vms[w].vcpu_fd] = File("vcpu", w)
    BY <2>1, <2>2, FileFields
  <2>4. VcpuFile(w)' = IF vms'[w].vcpu_fd = -1 THEN Free' ELSE files'[vms'[w].vcpu_fd]
    BY DEF VcpuFile
  <2> QED BY <2>1, <2>3, <2>4
<1>5. HasVcpu(w) => HasVcpu(w)'
  BY <1>4 DEF HasVcpu
<1>6. ASSUME vms[w].live
      PROVE  /\ files'[vms[w].kvm_fd] = File("kvm", w)
             /\ files'[vms[w].vm_fd] = File("vm", w)
  <2>1. /\ vms[w].kvm_fd \in Fd /\ files[vms[w].kvm_fd] = File("kvm", w)
        /\ vms[w].vm_fd \in Fd /\ files[vms[w].vm_fd] = File("vm", w)
    BY <1>6 DEF Sound
  <2> QED BY <2>1, FileFields
<1> QED BY <1>4, <1>5, <1>6 DEF Sound, Fd
-----------------------------------------------------------------------------
(***************************************************************************)
(* A step that touches one VM only: its record, its files and nobody's.    *)
(***************************************************************************)
LEMMA OneVmStep ==
  ASSUME MachineInv, TypeOK', MapsBacked', NEW v \in Vm, Sound(v)',
         files'[0] = files[0],
         \A w \in Vm \ {v} : vms'[w] = vms[w],
         \A n \in Fd : files[n].of \notin {v, Nobody} => files'[n] = files[n]
  PROVE  MachineInv'
<1>1. ASSUME NEW w \in Vm, w # v
      PROVE  Sound(w)'
  BY <1>1, SoundKept DEF MachineInv
<1>2. \A w \in Vm : Sound(w)'
  BY <1>1
<1>3. files'[0] = File("std", Nobody)'
  BY DEF MachineInv, File
<1> QED BY <1>2, <1>3 DEF MachineInv

\* A descriptor that is not free is not the one that is opened.
LEMMA OpenedKeeps ==
  ASSUME NEW f \in [Fd -> FileT], FreeFds(f) # {}, NEW file \in FileT,
         NEW n \in Fd, f[n].of # Nobody \/ f[n].kind # "free"
  PROVE  Opened(f, file)[n] = f[n]
<1>1. Free.kind = "free" /\ Free.of = Nobody
  BY FileFields DEF Free
<1>2. f[NewFd(f)] = Free
  BY OpenedEffect
<1>3. n # NewFd(f)
  BY <1>1, <1>2
<1>4. n \in Fd \ {NewFd(f)}
  BY <1>3
<1> QED BY <1>4, OpenedEffect

LEMMA OpenedByVmNew ==
  ASSUME NEW f \in [Fd -> FileT], FreeFds(f) # {}, f[0].kind = "std",
         NEW file \in FileT, file.kind # "vcpu"
  PROVE  /\ Opened(f, file) \in [Fd -> FileT] /\ Opened(f, file)[0] = f[0]
         /\ VcpuFds(Opened(f, file)) = VcpuFds(f)
         /\ NewFd(f) \in Fd /\ Opened(f, file)[NewFd(f)] = file
         /\ \A n \in Fd : f[n].of # Nobody => Opened(f, file)[n] = f[n]
<1>1. 0 \in Fd
  BY FdSet
<1>2. Opened(f, file)[0] = f[0]
  BY <1>1, OpenedKeeps
<1> QED BY <1>2, OpenedEffect, OpenedKeeps, OpenedNoVcpu

LEMMA VmNewFailsPreserves ==
  ASSUME MachineInv, NEW v \in Vm, ~vms[v].live, VmNewFails(v),
         UNCHANGED <<process, maps>>
  PROVE  MachineInv'
<1> DEFINE file(kind) == File(kind, Nobody)
           kvm == Opened(files, file("kvm"))
           vm == Opened(kvm, file("vm"))
<1>1. files \in [Fd -> FileT] /\ vms' = vms /\ 0 \in Fd
  BY FdSet DEF MachineInv, TypeOK, VmNewFails
<1>2. \A kind \in {"kvm", "vm"} : file(kind) \in FileT /\ file(kind).kind = kind
  BY DEF File, FileT
<1>3. files[0].kind = "std"
  BY FileFields DEF MachineInv
<1>4. /\ files' \in [Fd -> FileT] /\ files'[0] = files[0]
      /\ VcpuFds(files') = VcpuFds(files)
      /\ \A n \in Fd : files[n].of # Nobody => files'[n] = files[n]
  <2> HIDE DEF file
  <2>1. CASE files' = files
    BY <1>1, <2>1
  <2>2. ASSUME FreeFds(files) # {}
        PROVE  /\ kvm \in [Fd -> FileT] /\ kvm[0] = files[0]
               /\ VcpuFds(kvm) = VcpuFds(files)
               /\ \A n \in Fd : files[n].of # Nobody => kvm[n] = files[n]
    BY <1>1, <1>2, <1>3, <2>2, OpenedByVmNew
  <2>3. CASE FreeFds(files) # {} /\ files' = kvm
    BY <2>2, <2>3
  <2>4. ASSUME FreeFds(files) # {}, FreeFds(kvm) # {},
               files' = Closed(vm, {NewFd(files)})
        PROVE  /\ files' \in [Fd -> FileT] /\ files'[0] = files[0]
               /\ VcpuFds(files') = VcpuFds(files)
               /\ \A n \in Fd : files[n].of # Nobody => files'[n] = files[n]
    <3>1. /\ vm \in [Fd -> FileT] /\ vm[0] = kvm[0]
          /\ VcpuFds(vm) = VcpuFds(kvm)
          /\ \A n \in Fd : kvm[n].of # Nobody => vm[n] = kvm[n]
      <4>1. kvm \in [Fd -> FileT] /\ kvm[0].kind = "std"
        BY <1>3, <2>2, <2>4
      <4>2. FreeFds(kvm) # {} /\ file("vm") \in FileT /\ file("vm").kind # "vcpu"
        BY <1>2, <2>4
      <4> HIDE DEF kvm, file
      <4> QED BY <4>1, <4>2, OpenedByVmNew
    <3>2. /\ NewFd(files) \in Fd /\ files[NewFd(files)] = Free
          /\ Free.kind = "free" /\ Free.of = Nobody /\ Free \in FileT
      BY <1>1, <1>2, <2>4, OpenedEffect, FileFields DEF Free, File, FileT
    <3>3. \A n \in Fd : files'[n] = IF n = NewFd(files) THEN Free ELSE vm[n]
      BY <2>4 DEF Closed
    <3>4. files' \in [Fd -> FileT]
      <4> HIDE DEF vm
      <4> QED BY <2>4, <3>1, <3>2 DEF Closed
    <3>5. VcpuFds(files') = VcpuFds(vm)
      <4>1. NewFd(files) \notin VcpuFds(vm)
        BY <2>2, <2>4, <3>1, <3>2 DEF VcpuFds
      <4> HIDE DEF vm
      <4> QED BY <3>2, <3>3, <4>1 DEF VcpuFds
    <3> HIDE DEF vm, kvm
    <3> QED BY <1>1, <1>3, <2>2, <2>4, <3>1, <3>2, <3>3, <3>4, <3>5
  <2> QED BY <2>1, <2>3, <2>4 DEF VmNewFails, file
<1>5. MapsBacked' /\ TypeOK'
  BY <1>1, <1>4 DEF MachineInv, MapsBacked, TypeOK
<1>6. Sound(v)'
  BY <1>1, <1>4, <1>5, SoundKept DEF MachineInv
<1> QED BY <1>1, <1>4, <1>5, <1>6, OneVmStep

LEMMA VmNewMakesPreserves ==
  ASSUME MachineInv, NEW v \in Vm, ~vms[v].live, VmNewMakes(v),
         UNCHANGED <<process, maps>>
  PROVE  MachineInv'
<1> DEFINE kvm == Opened(files, File("kvm", v))
           vm == Opened(kvm, File("vm", v))
<1>1. files \in [Fd -> FileT] /\ vms \in [Vm -> VmT] /\ 0 \in Fd
  BY FdSet DEF MachineInv, TypeOK
<1>2. \A kind \in {"kvm", "vm"} : File(kind, v) \in FileT /\ File(kind, v).kind = kind
  BY DEF File, FileT
<1>3. FreeFds(files) # {} /\ FreeFds(kvm) # {} /\ files' = vm
  BY DEF VmNewMakes
<1>4. files[0].kind = "std"
  BY FileFields DEF MachineInv
<1>5. /\ kvm \in [Fd -> FileT] /\ kvm[0] = files[0] /\ VcpuFds(kvm) = VcpuFds(files)
      /\ NewFd(files) \in Fd /\ kvm[NewFd(files)] = File("kvm", v)
      /\ \A n \in Fd : files[n].of # Nobody => kvm[n] = files[n]
  <2>1. File("kvm", v) \in FileT /\ File("kvm", v).kind # "vcpu"
    BY <1>2
  <2> QED BY <1>1, <1>3, <1>4, <2>1, OpenedByVmNew
<1>6. /\ vm \in [Fd -> FileT] /\ vm[0] = kvm[0] /\ VcpuFds(vm) = VcpuFds(kvm)
      /\ NewFd(kvm) \in Fd /\ vm[NewFd(kvm)] = File("vm", v)
      /\ \A n \in Fd : kvm[n].of # Nobody => vm[n] = kvm[n]
  <2>1. kvm[0].kind = "std"
    BY <1>4, <1>5
  <2>2. File("vm", v) \in FileT /\ File("vm", v).kind # "vcpu"
    BY <1>2
  <2>3. kvm \in [Fd -> FileT] /\ FreeFds(kvm) # {}
    BY <1>3, <1>5
  <2> HIDE DEF kvm
  <2> QED BY <2>1, <2>2, <2>3, OpenedByVmNew
<1>7. vm[NewFd(files)] = File("kvm", v)
  <2>1. kvm[NewFd(files)].of # Nobody
    BY <1>5, FileFields
  <2> QED BY <1>5, <1>6, <2>1
<1>8. /\ vms' \in [Vm -> VmT] /\ \A w \in Vm \ {v} : vms'[w] = vms[w]
      /\ vms'[v].kvm_fd = NewFd(files) /\ vms'[v].vm_fd = NewFd(kvm)
      /\ vms'[v].vcpu_fd = 0 /\ vms'[v].init = 0 /\ ~vms'[v].running
  <2> DEFINE new == [NoVm EXCEPT !.live = TRUE, !.kvm_fd = NewFd(files),
                                 !.vm_fd = NewFd(kvm), !.vcpu_fd = 0]
  <2>1. vms' = [vms EXCEPT ![v] = new]
    BY DEF VmNewMakes
  <2>2. /\ NoVm \in VmT /\ ~NoVm.running /\ NoVm.init = 0
        /\ 0 \in FdOrError /\ NewFd(files) \in FdOrError /\ NewFd(kvm) \in FdOrError
    BY <1>1, <1>5, <1>6 DEF NoVm, VmT, FdOrError, Made
  <2>3. /\ new \in VmT /\ new.kvm_fd = NewFd(files) /\ new.vm_fd = NewFd(kvm)
        /\ new.vcpu_fd = 0 /\ new.init = 0 /\ ~new.running
    <3> HIDE DEF kvm
    <3> QED BY <2>2 DEF VmT
  <2> HIDE DEF new, kvm
  <2> QED BY <1>1, <2>1, <2>3
<1>9. MapsBacked' /\ TypeOK'
  BY <1>3, <1>5, <1>6, <1>8 DEF MachineInv, MapsBacked, TypeOK
<1>10. Sound(v)'
  <2> HIDE DEF kvm, vm
  <2> QED BY <1>3, <1>5, <1>6, <1>7, <1>8 DEF Sound
<1>11. \A n \in Fd : files[n].of \notin {v, Nobody} => files'[n] = files[n]
  BY <1>3, <1>5, <1>6
<1> QED BY <1>3, <1>5, <1>6, <1>8, <1>9, <1>10, <1>11, OneVmStep

LEMMA VmRunPreserves ==
  ASSUME MachineInv, NEW v \in Vm, VmRun(v) \/ VmRunEnds(v), process = "runs"
  PROVE  MachineInv'
<1>1. PICK r \in BOOLEAN : vms' = [vms EXCEPT ![v].running = r]
  BY DEF VmRun, VmRunEnds
<1>2. /\ vms' \in [Vm -> VmT] /\ \A w \in Vm \ {v} : vms'[w] = vms[w]
      /\ vms'[v] = [vms[v] EXCEPT !.running = r]
  BY <1>1 DEF MachineInv, TypeOK, VmT
<1>3. files' = files /\ maps' = maps /\ vms[v].live
  BY DEF VmRun, VmRunEnds, MachineInv, Sound
<1>4. MapsBacked' /\ TypeOK'
  BY <1>2, <1>3 DEF MachineInv, MapsBacked, TypeOK, VmRun, VmRunEnds
<1>5. /\ vms'[v].live = vms[v].live /\ vms'[v].kvm_fd = vms[v].kvm_fd
      /\ vms'[v].vm_fd = vms[v].vm_fd /\ vms'[v].vcpu_fd = vms[v].vcpu_fd
      /\ vms'[v].kvm_run = vms[v].kvm_run /\ vms'[v].made = vms[v].made
      /\ vms'[v].mode = vms[v].mode /\ vms'[v].init = vms[v].init
  BY <1>2 DEF MachineInv, TypeOK, VmT
<1>6. VcpuFile(v)' = VcpuFile(v)
  BY <1>3, <1>5 DEF VcpuFile
<1>7. Sound(v)'
  BY <1>3, <1>5, <1>6 DEF MachineInv, Sound, HasVcpu
<1> QED BY <1>2, <1>3, <1>4, <1>7, OneVmStep

LEMMA VmDestroyPreserves ==
  ASSUME MachineInv, NEW v \in Vm, VmDestroy(v)
  PROVE  MachineInv'
<1> DEFINE numbers == {vms[v].kvm_fd, vms[v].vm_fd}
<1>1. /\ files \in [Fd -> FileT] /\ vms \in [Vm -> VmT] /\ 0 \in Fd
      /\ vms' = [vms EXCEPT ![v] = NoVm] /\ maps' = maps /\ process' = process
      /\ files' = Orphaned(Closed(files, numbers), v)
      /\ files[vms[v].kvm_fd] = File("kvm", v) /\ files[vms[v].vm_fd] = File("vm", v)
      /\ files[0] = File("std", Nobody)
  BY FdSet DEF MachineInv, TypeOK, VmDestroy, Sound
<1>2. \A n \in numbers : files[n].of = v /\ files[n].kind \in {"kvm", "vm"}
  BY <1>1, FileFields
<1>3. Free \in FileT /\ Free.of = Nobody /\ Free.kind = "free"
  BY FileFields DEF Free, File, FileT
<1>4. \A n \in Fd : files'[n] = IF n \in numbers THEN Free
                                ELSE IF files[n].of = v THEN File(files[n].kind, Nobody)
                                ELSE files[n]
  BY <1>1, <1>3 DEF Orphaned, Closed
<1> HIDE DEF numbers
<1>5. \A n \in Fd : File(files[n].kind, Nobody) \in FileT
  BY <1>1 DEF File, FileT
<1>6. files' \in [Fd -> FileT]
  <2>1. files' = [n \in Fd |-> files'[n]]
    BY <1>1 DEF Orphaned
  <2> QED BY <1>1, <1>3, <1>4, <1>5, <2>1
<1>7. VcpuFds(files') = VcpuFds(files)
  BY <1>2, <1>3, <1>4, FileFields DEF VcpuFds
<1>8. \A n \in Fd : files[n].of # v => files'[n] = files[n]
  BY <1>2, <1>4
<1>9. files'[0] = files[0]
  BY <1>1, <1>8, FileFields
<1>10. NoVm \in VmT /\ ~NoVm.live /\ ~NoVm.running
  BY DEF NoVm, VmT, FdOrError, Made
<1>11. /\ vms' \in [Vm -> VmT] /\ vms'[v] = NoVm
       /\ \A w \in Vm \ {v} : vms'[w] = vms[w]
  BY <1>1, <1>10
<1>12. MapsBacked' /\ TypeOK'
  BY <1>1, <1>6, <1>7, <1>11 DEF MachineInv, MapsBacked, TypeOK
<1>13. Sound(v)'
  BY <1>10, <1>11 DEF Sound
<1> QED BY <1>8, <1>9, <1>11, <1>12, <1>13, OneVmStep
-----------------------------------------------------------------------------
(***************************************************************************)
(* The steps of vm_vcpu_init_state: no mapping without a vCPU, and an      *)
(* answer that is not 0 only when all was done but the mode.               *)
(***************************************************************************)
LEMMA StepOrder ==
  ASSUME NEW a \in Flags, NEW failed \in Asked(a) \cup {"nothing"}
  PROVE  /\ "map" \in Before(a, failed) => "vcpu" \in Before(a, failed)
         /\ Answer(a, failed) # 0 =>
              /\ {"vcpu", "map"} \subseteq Before(a, failed)
              /\ a.mode = "protected" => "mode" \in Before(a, failed)
<1>1. /\ a.chips \subseteq {"irqchip", "pit"}
      /\ a.mode \in {"real", "protected", "none"}
  BY DEF Flags
<1>2. failed \in {"address", "irqchip", "pit", "vcpu", "size", "map", "cpuid",
                  "mode", "nothing"}
  BY <1>1 DEF Asked
<1>3. /\ Place["vcpu"] = 4 /\ Place["map"] = 6 /\ Place["mode"] = 8
      /\ Place["nothing"] = 9 /\ Place["address"] = 1 /\ Place["irqchip"] = 2
      /\ Place["pit"] = 3 /\ Place["size"] = 5 /\ Place["cpuid"] = 7
  BY DEF Place
<1>4. "vcpu" \in Asked(a) /\ "map" \in Asked(a)
  BY DEF Asked
<1>5. "map" \in Before(a, failed) => "vcpu" \in Before(a, failed)
  BY <1>2, <1>3, <1>4 DEF Before
<1>6. ASSUME Answer(a, failed) # 0
      PROVE  \/ failed = "nothing" /\ a.mode # "real"
             \/ failed = "mode" /\ a.mode = "real"
  BY <1>6 DEF Answer
<1>7. a.mode = "protected" => "mode" \in Asked(a)
  BY DEF Asked
<1>8. ASSUME Answer(a, failed) # 0
      PROVE  /\ {"vcpu", "map"} \subseteq Before(a, failed)
             /\ a.mode = "protected" => "mode" \in Before(a, failed)
  BY <1>3, <1>4, <1>6, <1>7, <1>8 DEF Before
<1> QED BY <1>5, <1>8

LEMMA VmInitPreserves ==
  ASSUME MachineInv, NEW v \in Vm, NEW a \in Flags, VmInit(v, a)
  PROVE  MachineInv'
<1>1. PICK failed \in Asked(a) \cup {"nothing"},
           supported \in IF KvmFails THEN BOOLEAN ELSE {TRUE} :
        VmInitUntil(v, a, failed, supported)
  BY Zenon DEF VmInit
<1> DEFINE done == Before(a, failed)
           number == IF "vcpu" \in done THEN NewFd(files)
                     ELSE IF failed = "vcpu" THEN -1 ELSE vms[v].vcpu_fd
           page == IF "map" \in done THEN "mapped"
                   ELSE IF failed = "map" THEN "failed" ELSE vms[v].kvm_run
           made == vms[v].made \cup (done \cap {"irqchip", "pit", "vcpu"})
                     \cup {c \in {"cpuid"} : c \in done /\ supported}
                     \cup {s \in {"segments"} : "mode" \in done /\ a.mode = "protected"}
           file == File("vcpu", v)
<1>2. /\ files \in [Fd -> FileT] /\ vms \in [Vm -> VmT] /\ 0 \in Fd
      /\ maps \in 0..MaxFd /\ files[0] = File("std", Nobody) /\ vms[v].live
      /\ file \in FileT
  BY <1>1, FdSet DEF VmInitUntil, MachineInv, TypeOK, File, FileT
<1>3. "vcpu" \in done => FreeFds(files) # {}
  BY <1>1 DEF VmInitUntil, Possible
<1> DEFINE new == [vms[v] EXCEPT !.vcpu_fd = number, !.kvm_run = page, !.made = made,
                                 !.mode = a.mode, !.init = Answer(a, failed)]
<1>4. vms' = [vms EXCEPT ![v] = new]
  BY <1>1 DEF VmInitUntil
<1>5. /\ new \in VmT
      /\ new.live = vms[v].live /\ new.running = vms[v].running
      /\ new.kvm_fd = vms[v].kvm_fd /\ new.vm_fd = vms[v].vm_fd
      /\ new.vcpu_fd = number /\ new.kvm_run = page /\ new.made = made
      /\ new.mode = a.mode /\ new.init = Answer(a, failed)
  <2>1. number \in FdOrError
    BY <1>2, <1>3, OpenedEffect DEF VmT, FdOrError
  <2>2. page \in {"null", "failed", "mapped"} /\ made \in SUBSET Made
    BY <1>2 DEF VmT, Made
  <2>3. a.mode \in Modes \cup {"none"} /\ Answer(a, failed) \in {-1, 0, 1}
    BY DEF Flags, Answer
  <2>4. vms[v] \in VmT
    BY <1>2
  <2> HIDE DEF number, page, made
  <2> QED BY <2>1, <2>2, <2>3, <2>4 DEF VmT
<1>6. /\ vms' \in [Vm -> VmT] /\ vms'[v] = new
      /\ \A w \in Vm \ {v} : vms'[w] = vms[w]
  <2> HIDE DEF new
  <2> QED BY <1>2, <1>4, <1>5
<1> HIDE DEF new
<1>7. /\ files' \in [Fd -> FileT]
      /\ \A n \in Fd : files[n].of # Nobody \/ files[n].kind # "free"
                         => files'[n] = files[n]
      /\ "vcpu" \in done => number \in Fd /\ files'[number] = file
  <2>1. files' = IF "vcpu" \in done THEN Opened(files, file) ELSE files
    BY <1>1 DEF VmInitUntil
  <2> HIDE DEF file, done
  <2> QED BY <1>2, <1>3, <2>1, OpenedEffect, OpenedKeeps
<1>8. files'[0] = files[0]
  BY <1>2, <1>7, FileFields
<1>9. /\ "vcpu" \in done =>
            Cardinality(VcpuFds(files')) = Cardinality(VcpuFds(files)) + 1
      /\ "vcpu" \notin done => files' = files
  BY <1>1, <1>2, <1>3, OpenedVcpu DEF VmInitUntil
<1>10. "map" \in done => "vcpu" \in done
  BY StepOrder
<1>11. Cardinality(VcpuFds(files)) \in Nat /\ maps <= Cardinality(VcpuFds(files))
  BY VcpuFdsSize DEF MachineInv, MapsBacked
<1>12. MapsBacked'
  <2>1. maps' = IF "map" \in done THEN maps + 1 ELSE maps
    BY <1>1 DEF VmInitUntil
  <2> HIDE DEF done
  <2> QED BY <1>2, <1>9, <1>10, <1>11, <2>1 DEF MapsBacked
\* The standard input is no vCPU, so there are at most MaxFd of them.
<1>13. maps' \in 0..MaxFd
  <2>1. VcpuFds(files') \subseteq Fd \ {0}
    BY <1>2, <1>8, FileFields DEF VcpuFds
  <2>2. IsFiniteSet(Fd \ {0}) /\ Cardinality(Fd \ {0}) = MaxFd
    <3>1. IsFiniteSet(Fd \ {0})
      BY FdSet, FS_RemoveElement
    <3>2. Cardinality(Fd \ {0}) = Cardinality(Fd) - 1
      BY FdSet, FS_RemoveElement
    <3> QED BY <3>1, <3>2, FdSet
  <2>3. Cardinality(VcpuFds(files')) <= MaxFd
    BY <2>1, <2>2, FS_Subset
  <2>4. maps' \in Nat
    BY <1>1, <1>2 DEF VmInitUntil
  <2>5. maps' <= Cardinality(VcpuFds(files')) /\ Cardinality(VcpuFds(files')) \in Nat
    BY <1>12, VcpuFdsSize DEF MapsBacked
  <2> QED BY <2>3, <2>4, <2>5
<1>14. TypeOK'
  BY <1>1, <1>6, <1>7, <1>13 DEF VmInitUntil, MachineInv, TypeOK
<1>15. Sound(v)'
  <2>1. /\ vms[v].kvm_fd \in Fd /\ files'[vms[v].kvm_fd] = File("kvm", v)
        /\ vms[v].vm_fd \in Fd /\ files'[vms[v].vm_fd] = File("vm", v)
    <3>1. /\ vms[v].kvm_fd \in Fd /\ files[vms[v].kvm_fd] = File("kvm", v)
          /\ vms[v].vm_fd \in Fd /\ files[vms[v].vm_fd] = File("vm", v)
      BY <1>2 DEF MachineInv, Sound
    <3> QED BY <1>7, <3>1, FileFields
  <2>2. ASSUME "vcpu" \in done
        PROVE  VcpuFile(v)' = file
    <3>1. number # -1
      BY <1>7, <2>2 DEF Fd
    <3> HIDE DEF number, file
    <3> QED BY <1>5, <1>6, <1>7, <2>2, <3>1 DEF VcpuFile
  <2>3. ASSUME "vcpu" \notin done
        PROVE  vms'[v].vcpu_fd \in {0, -1} \/ VcpuFile(v)' = file
    <3>1. CASE failed = "vcpu"
      BY <1>5, <1>6, <2>3, <3>1
    <3>2. CASE failed # "vcpu"
      <4>1. vms'[v].vcpu_fd = vms[v].vcpu_fd /\ files' = files
        BY <1>5, <1>6, <1>9, <2>3, <3>2
      <4>2. VcpuFile(v)' = VcpuFile(v)
        BY <4>1 DEF VcpuFile
      <4> QED BY <1>2, <4>1, <4>2 DEF MachineInv, Sound
    <3> QED BY <3>1, <3>2
  <2>4. ASSUME Answer(a, failed) # 0
        PROVE  HasVcpu(v)'
    <3>1. /\ "vcpu" \in done /\ "map" \in done
          /\ a.mode = "protected" => "mode" \in done
      BY <2>4, StepOrder
    <3>2. VcpuFile(v)' = file
      BY <2>2, <3>1
    <3>3. page = "mapped" /\ (a.mode = "protected" => "segments" \in made)
      BY <3>1
    <3> HIDE DEF page, made, number
    <3> QED BY <1>5, <1>6, <3>2, <3>3 DEF HasVcpu
  <2>5. ~vms'[v].running
    BY <1>1, <1>5, <1>6 DEF VmInitUntil
  <2>6. vms'[v].vcpu_fd \in {0, -1} \/ VcpuFile(v)' = File("vcpu", v)
    BY <2>2, <2>3
  <2>7. vms'[v].init # 0 => HasVcpu(v)'
    BY <1>5, <1>6, <2>4
  <2>8. vms'[v].kvm_fd = vms[v].kvm_fd /\ vms'[v].vm_fd = vms[v].vm_fd
    BY <1>5, <1>6
  <2> HIDE DEF page, made, number, done, file
  <2> QED BY <2>1, <2>5, <2>6, <2>7, <2>8 DEF Sound
<1>16. \A n \in Fd : files[n].of \notin {v, Nobody} => files'[n] = files[n]
  BY <1>7
<1> HIDE DEF done, number, page, made, file
<1> QED BY <1>6, <1>8, <1>12, <1>14, <1>15, <1>16, OneVmStep
-----------------------------------------------------------------------------
LEMMA MachineInit == Init => MachineInv
<1> SUFFICES ASSUME Init PROVE MachineInv
  OBVIOUS
<1>1. /\ Free \in FileT /\ File("std", Nobody) \in FileT
      /\ NoVm \in VmT /\ ~NoVm.live /\ ~NoVm.running
  BY DEF Free, File, FileT, NoVm, VmT, FdOrError, Made
<1>2. TypeOK
  BY <1>1 DEF Init, TypeOK
<1>3. files[0] = File("std", Nobody)
  BY FdSet DEF Init
<1>4. MapsBacked
  BY VcpuFdsSize DEF Init, MapsBacked
<1>5. \A v \in Vm : Sound(v)
  BY <1>1 DEF Init, Sound
<1> QED BY <1>2, <1>3, <1>4, <1>5 DEF MachineInv

LEMMA MachineStep == MachineInv /\ [Next]_vars => MachineInv'
<1> SUFFICES ASSUME MachineInv, [Next]_vars
             PROVE  MachineInv'
  OBVIOUS
<1>1. CASE VmNewCrashes
  BY <1>1 DEF VmNewCrashes, MachineInv, TypeOK, MapsBacked, Sound, HasVcpu, VcpuFile
<1>2. ASSUME NEW v \in Vm, VmNew(v)
      PROVE  MachineInv'
  BY <1>2, VmNewFailsPreserves, VmNewMakesPreserves DEF VmNew
<1>3. ASSUME NEW v \in Vm, VmRun(v) \/ VmRunEnds(v), process = "runs"
      PROVE  MachineInv'
  BY <1>3, VmRunPreserves
<1>4. ASSUME NEW v \in Vm, VmDestroy(v)
      PROVE  MachineInv'
  BY <1>4, VmDestroyPreserves
<1>5. ASSUME NEW v \in Vm, NEW a \in Flags, VmInit(v, a)
      PROVE  MachineInv'
  BY <1>5, VmInitPreserves
<1>6. CASE UNCHANGED vars
  BY <1>6 DEF vars, MachineInv, TypeOK, MapsBacked, Sound, HasVcpu, VcpuFile
<1> QED BY <1>1, <1>2, <1>3, <1>4, <1>5, <1>6 DEF Next

(***************************************************************************)
(* What the process has open, what is in each vm_t and which pages are     *)
(* mapped stay in step, whatever fails in vm_new, vm_vcpu_init_state,      *)
(* vm_run and vm_destroy.                                                  *)
(***************************************************************************)
THEOREM MachineInvariant == Spec => []MachineInv
BY MachineInit, MachineStep, PTL DEF Spec

\* Every vm_t, descriptor and page count keeps its type; there are never more
\* pages mapped than vCPUs, although nothing is unmapped or closed.
THEOREM MachineTypeCorrect == Spec => []TypeOK
<1>1. MachineInv => TypeOK
  BY DEF MachineInv
<1> QED BY <1>1, MachineInvariant, PTL

\* The numbers in a vm_t that vm_new returned are open files of its own until
\* vm_destroy, and the standard input is never closed.
THEOREM NumbersAreOwn == Spec => []OwnsItsFiles
<1>1. MachineInv => OwnsItsFiles
  BY DEF MachineInv, Sound, OwnsItsFiles
<1> QED BY <1>1, MachineInvariant, PTL

\* A VM that is run after an answer of vm_vcpu_init_state that is not 0 has a
\* vCPU of its own, its page, and the segments of the mode it asked for.
THEOREM RunsWhatIsReady == Spec => []RunIsReady
<1>1. MachineInv => RunIsReady
  BY DEF MachineInv, Sound, HasVcpu, RunIsReady
<1> QED BY <1>1, MachineInvariant, PTL
=============================================================================
