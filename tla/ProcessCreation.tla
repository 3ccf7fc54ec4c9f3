---------------------------- MODULE ProcessCreation ----------------------------
(***************************************************************************)
(* The loader's way from a program to a process (ldr_process_creation.cpp),*)
(* where the patchers of PCV and PTM are called: the meta is validated and *)
(* notes whether this is PCV or PTM, the NSOs are looked up and checked,   *)
(* laid out behind a random base and loaded one by one, unpacked in place  *)
(* and patched; a failure on the way closes the process again.             *)
(*                                                                         *)
(* A program is what its meta and its files say.  Sizes and addresses are  *)
(* in units of which PageSize make a page; memory holds, for every unit,   *)
(* the module and segment it is from, and 0 with "zero", "arguments" or    *)
(* "packed", compressed data that was left there.  Mounts and open files   *)
(* are closed by scopes on every way out, and are left out.                *)
(***************************************************************************)
EXTENDS Integers, Sequences, FiniteSets

CONSTANTS Programs,     \* the programs to start
          PinIds,       \* the places of RoManager
          HosVersion,   \* major version of the operating system
          Development,  \* IsDevelopmentForAcidProductionCheck
          PageSize, BlockSize,  \* os::MemoryPageSize, os::MemoryBlockUnitSize
          ModuleSizeMax,        \* AutoLoadModuleSizeMax
          Window,       \* where each kind of address space may hold code
          MaxLaunches   \* bound on programs started

\* PCV and PTM are system modules without the browser's DLLs.
ASSUME CreationAssumption ==
    /\ \A m \in Programs : m.browser => m.id \notin {"Pcv", "Ptm"}
    /\ HosVersion \in Nat \ {0} /\ Development \in BOOLEAN /\ MaxLaunches \in Nat
    /\ PageSize \in Nat \ {0} /\ BlockSize \in Nat \ {0} /\ ModuleSizeMax \in Nat \ {0}

\* The fields of headers and metas are unsigned.
ASSUME ProgramsAssumption ==
    /\ Programs # {} /\ PinIds # {}
    /\ \A m \in Programs :
          /\ m.args \in Nat
          /\ \A f \in DOMAIN m.files :
                LET h == m.files[f]
                IN  /\ h.dst \in [{"text", "ro", "rw"} -> Nat]
                    /\ h.size \in [{"text", "ro", "rw"} -> Nat]
                    /\ h.packed \in [{"text", "ro", "rw"} -> Nat] /\ h.bss \in Nat
    /\ "32Bit" \in DOMAIN Window
    /\ \A s \in DOMAIN Window : Window[s].start \in Nat /\ Window[s].size \in Nat

VARIABLES
    stage,              \* how far CreateProcess is
    program, pin, flags,    \* meta, pin_id and ldr_flags of this call
    is_pcv, is_ptm,     \* g_is_pcv, g_is_ptm
    nsos,               \* g_nso_headers and nso_indices: the modules found
    info,               \* ProcessInfo
    process,            \* the new process: "none", "open" or "closed"
    memory, permission, \* of the new process, by offset from code_address
    patched,            \* for every module loaded, the patchers called for it
    pins,               \* RoManager: [PinIds -> "free", "pinned" or a program]
    launches            \* bound

call == <<program, pin, flags, is_pcv, is_ptm, nsos, info>>
made == <<process, memory, permission, patched>>
creation == <<stage, call, made, pins, launches>>

-------------------------------------------------------------------------------
(* The NSOs of a program.                                                  *)

NsoPaths ==
    << "rtld", "main", "wkc0", "wkc1", "wkc2", "wkc3", "wkc4", "wkc5", "wkc6", "wkc7",
       "wkc8", "wkc9", "subsdk0", "subsdk1", "subsdk2", "subsdk3", "subsdk4", "subsdk5",
       "subsdk6", "subsdk7", "subsdk8", "subsdk9", "sdk" >>

BrowserNsos == {NsoPaths[i] : i \in 3..12}
SubSdks == {NsoPaths[i] : i \in 13..22}

Segments == {"text", "ro", "rw"}
End(h, s) == h.dst[s] + h.size[s]

\* LoadAutoLoadHeaders: the files that are there, in the order of NsoPaths.
IsThere(m, f) == f \in DOMAIN m.files /\ (f \in BrowserNsos => m.browser)

LoadAutoLoadHeaders(m) ==
    LET found[i \in 0..Len(NsoPaths)] ==
            IF i = 0 THEN <<>>
            ELSE IF IsThere(m, NsoPaths[i]) THEN Append(found[i - 1], NsoPaths[i])
                                            ELSE found[i - 1]
    IN  found[Len(NsoPaths)]

IsAligned(x) == x % PageSize = 0

\* Mutant: the order of a module's segments is not checked.
HeaderUnordered(m, f, found) ==
    LET h == m.files[f]
    IN  /\ ~h.execOnly
        /\ f # "main" \/ ~{"rtld", "sdk"} \subseteq found => ~h.zstd
        /\ \A s \in Segments : IsAligned(h.dst[s])
        /\ h.dst["text"] = 0

\* CheckAutoLoad, for one header.
HeaderIsValid(m, f, found) ==
    LET h == m.files[f]
    IN  /\ ~h.execOnly
        /\ f # "main" \/ ~{"rtld", "sdk"} \subseteq found => ~h.zstd
        /\ \A s \in Segments : IsAligned(h.dst[s])
        /\ h.dst["text"] = 0
        /\ End(h, "text") <= h.dst["ro"]
        /\ End(h, "ro") <= h.dst["rw"]

CheckAutoLoad(m, list) ==
    LET found == {list[i] : i \in DOMAIN list}
    IN  /\ "main" \in found
        /\ \A f \in found : HeaderIsValid(m, f, found)
        /\ IF {"rtld", "sdk"} \cap found # {}
           THEN "rtld" \in found /\ ~m.browser
           ELSE ~(SubSdks \cap found # {} /\ m.browser)

-------------------------------------------------------------------------------
(* The meta.                                                               *)

IsUnqualifiedApproval(m) ==
    m.approved \/ (m.kind = "application" /\ m.listed)

\* Signed: there is nothing to verify, or the signature is right.
SignatureAllowed(m) ==
    m.signed \/ (Development /\ ~m.signature /\ IsUnqualifiedApproval(m))

\* The ids are in the range the ACID allows, and so are the capabilities.
MetaIsValid(m) == m.inRange /\ m.capable

CreateProcessFlags(m, ldr) ==
    (IF m.is64 THEN {"Is64Bit"} ELSE {})
    \cup {m.space}
    \cup (ldr \cap {"EnableDebug"})
    \cup (IF "DisableAslr" \in ldr THEN {} ELSE {"EnableAslr"})
    \cup (IF m.kind # "application" THEN {}
          ELSE {"IsApplication"}
               \cup (IF HosVersion >= 7 THEN m.metaFlags \cap {"OptimizeMemoryAllocation"}
                                        ELSE {}))
    \cup (IF HosVersion >= 5
          THEN {IF m.pool = "Application" /\ m.kind = "applet" THEN "Applet" ELSE m.pool}
          ELSE IF HosVersion = 4 THEN m.metaFlags \cap {"UseSecureMemory"} ELSE {})
    \cup (m.metaFlags \cap {"DisableDeviceAddressSpaceMerge", "EnableAliasRegionExtraSize"})

SystemResourceSizeMax == 255 * BlockSize

\* GetCreateProcessParameter succeeds.
ParameterIsValid(m) ==
    /\ m.space \in DOMAIN Window
    /\ HosVersion >= 5 =>
          m.pool \in {"Application", "Applet", "System", "SystemNonSecure"}
    /\ HosVersion >= 3 => m.resource % BlockSize = 0
    /\ HosVersion >= 3 /\ m.resource > 0 =>
          /\ m.space = "64Bit"
          /\ m.kind \in {"application", "applet"}
          /\ m.resource <= SystemResourceSizeMax

-------------------------------------------------------------------------------
(* The address space: the modules one after the other, the arguments       *)
(* behind the first of them.                                               *)

AlignUp(x) == ((x + PageSize - 1) \div PageSize) * PageSize

Largest(S) == CHOOSE x \in S : \A y \in S : y <= x

\* Up to the end of its last segment, and the zeroes behind that.
ExtentWithoutBss(h) == Largest({End(h, s) : s \in Segments})
Extent(h) == Largest({End(h, s) : s \in Segments}) + h.bss
Aligned(h) == AlignUp(Extent(h)) % ModuleSizeMax

NsoSize(m, list, i) == Aligned(m.files[list[i]])

NsoOffset(m, list) ==
    LET offset[i \in 1..(Len(list) + 1)] ==
            IF i = 1 THEN 0
            ELSE offset[i - 1] + NsoSize(m, list, i - 1) + (IF i = 2 THEN m.args ELSE 0)
    IN  offset

TotalSize(m, list) == NsoOffset(m, list)[Len(list) + 1]

\* Before 2.0.0 there were only two kinds of address space.
WindowOf(m) ==
    Window[IF HosVersion >= 2 \/ m.space = "64BitDeprecated" THEN m.space ELSE "32Bit"]

\* The sizes of the modules are in range, and all of them fit the window.
LayoutFits(m, list) ==
    /\ \A i \in DOMAIN list :
          Extent(m.files[list[i]]) <= NsoSize(m, list, i) /\ NsoSize(m, list, i) > 0
    /\ TotalSize(m, list) <= WindowOf(m).size

\* Where the code may start: anywhere in the window that leaves room for all
\* of it, in whole blocks, or at the beginning without ASLR.
BasesOf(m, list, ldr) ==
    LET free == WindowOf(m).size - TotalSize(m, list)
    IN  {WindowOf(m).start + k * BlockSize :
            k \in IF "EnableAslr" \in CreateProcessFlags(m, ldr)
                  THEN 0..(free \div BlockSize) ELSE {0}}

NoLayout == [base |-> 0, total |-> 0, nso |-> <<>>, size |-> <<>>, args |-> 0]

DecideAddressSpaceLayout(m, list, base) ==
    [base  |-> base,
     total |-> TotalSize(m, list),
     nso   |-> [i \in DOMAIN list |-> base + NsoOffset(m, list)[i]],
     size  |-> [i \in DOMAIN list |-> NsoSize(m, list, i)],
     args  |-> IF m.args = 0 THEN 0 ELSE base + NsoSize(m, list, 1)]

-------------------------------------------------------------------------------
(* The memory of the new process.                                          *)

Zero == <<0, "zero">>
Packed == <<0, "packed">>
Arguments == <<0, "arguments">>

Put(mem, from, n, what) ==
    [a \in DOMAIN mem |-> IF a >= from /\ a < from + n THEN what ELSE mem[a]]

\* LoadAutoLoadModuleSegment: a compressed segment is read to the end of what
\* is mapped, and unpacked from there.
PackedFits(h, s) == h.packed[s] <= h.size[s]

LoadSegment(mem, h, i, from, end, s) ==
    Put(IF h.packed[s] = 0 THEN mem ELSE Put(mem, end - h.packed[s], h.packed[s], Packed),
        from + h.dst[s], h.size[s], <<i, s>>)

\* Between the segments and behind them a module is zero.
ClearUnused(mem, h, from, size) ==
    Put(Put(Put(mem, from + End(h, "text"), h.dst["ro"] - End(h, "text"), Zero),
            from + End(h, "ro"), h.dst["rw"] - End(h, "ro"), Zero),
        from + End(h, "rw"), size - End(h, "rw"), Zero)

\* Mutant: what is behind the last segment is left as it is.
ClearNothing(mem, h, from, size) == mem

\* LoadAutoLoadModule up to the patches; a module compressed as one may use all
\* the memory up to the end of the process.
LoadModule(mem, m, i) ==
    LET h    == m.files[nsos[i]]
        from == info.nso[i] - info.base
        end  == IF h.zstd THEN info.total ELSE from + info.size[i]
        text == LoadSegment(mem, h, i, from, end, "text")
        ro   == LoadSegment(text, h, i, from, end, "ro")
        rw   == LoadSegment(ro, h, i, from, end, "rw")
    IN  ClearUnused(rw, h, from, info.size[i])

\* CheckSegmentHash: a flagged segment is as it was in the file.
HashHolds(mem, h, i, s) ==
    s \in h.hashed =>
        LET from == info.nso[i] - info.base + h.dst[s]
        IN  \A a \in from..(from + h.size[s] - 1) : mem[a] = <<i, s>>

\* SetProcessMemoryPermission, one segment after the other.
SetPermissions(perm, m, i) ==
    LET h    == m.files[nsos[i]]
        from == info.nso[i] - info.base
    IN  Put(Put(Put(perm, from + h.dst["text"], AlignUp(h.size["text"]), "ReadExecute"),
                from + h.dst["ro"], AlignUp(h.size["ro"]), "Read"),
            from + h.dst["rw"], AlignUp(h.size["rw"] + h.bss), "ReadWrite")

-------------------------------------------------------------------------------
(* PinProgram, CreateProcess, UnpinProgram.                                *)

PinProgram ==
    /\ stage = "idle"
    /\ \E q \in PinIds : pins[q] = "free" /\ pins' = [pins EXCEPT ![q] = "pinned"]
    /\ UNCHANGED <<stage, call, made, launches>>

UnpinProgram ==
    /\ stage = "idle"
    /\ \E q \in PinIds : pins[q] # "free" /\ pins' = [pins EXCEPT ![q] = "free"]
    /\ UNCHANGED <<stage, call, made, launches>>

\* A call for a pinned program (pm makes one for every pin): the code is mounted
\* and the meta loaded.
CreateProcess ==
    /\ stage = "idle" /\ launches < MaxLaunches
    /\ \E q \in PinIds : pins[q] = "pinned" /\ pin' = q
    /\ program' \in Programs
    /\ flags' \in {{}, {"DisableAslr"}}
    /\ stage' = "meta" /\ launches' = launches + 1
    /\ UNCHANGED <<is_pcv, is_ptm, nsos, info, made, pins>>

\* R_TRY: the call returns, and the new process is closed if there is one.
FailWithoutClose == stage' = "failed" /\ UNCHANGED process
Fail ==
    /\ stage' = "failed"
    /\ process' = IF process = "open" THEN "closed" ELSE process

\* Any call into the operating system may fail.
GiveUp ==
    /\ stage \notin {"idle", "register", "failed", "done"} /\ Fail
    /\ UNCHANGED <<call, memory, permission, patched, pins, launches>>

\* Mutant: a call finds the marks of the last one.
KeepMarks(id) == UNCHANGED <<is_pcv, is_ptm>>

\* What kind of system process this meta is for.
NoteKind(id) == is_pcv' = (id = "Pcv") /\ is_ptm' = (id = "Ptm")

ValidateMeta ==
    /\ stage = "meta"
    /\ IF MetaIsValid(program) THEN NoteKind(program.id) ELSE UNCHANGED <<is_pcv, is_ptm>>
    /\ IF MetaIsValid(program) /\ SignatureAllowed(program)
       THEN stage' = (IF program.browser THEN "browser" ELSE "headers") /\ UNCHANGED process
       ELSE Fail
    /\ UNCHANGED <<program, pin, flags, nsos, info, memory, permission, patched, pins,
                   launches>>

\* The browser's DLLs have a meta of their own, validated against the code
\* verification data of the program.
ValidateBrowserMeta ==
    /\ stage = "browser"
    /\ NoteKind("BrowserCoreDll")
    /\ (stage' = "headers" /\ UNCHANGED process) \/ Fail
    /\ UNCHANGED <<program, pin, flags, nsos, info, memory, permission, patched, pins,
                   launches>>

LoadHeaders ==
    /\ stage = "headers"
    /\ nsos' = LoadAutoLoadHeaders(program)
    /\ IF CheckAutoLoad(program, nsos') THEN stage' = "create" /\ UNCHANGED process ELSE Fail
    /\ UNCHANGED <<program, pin, flags, is_pcv, is_ptm, info, memory, permission, patched,
                   pins, launches>>

\* CreateProcessAndLoadAutoLoadModules up to svc::CreateProcess.
Create ==
    /\ stage = "create"
    /\ IF ParameterIsValid(program) /\ LayoutFits(program, nsos)
       THEN /\ \E b \in BasesOf(program, nsos, flags) :
                  info' = DecideAddressSpaceLayout(program, nsos, b)
            /\ process' = "open" /\ stage' = "load"
            /\ memory' = [a \in 0..(info'.total - 1) |-> Zero]
            /\ permission' = [a \in 0..(info'.total - 1) |-> "none"]
       ELSE Fail /\ UNCHANGED <<info, memory, permission>>
    /\ UNCHANGED <<program, pin, flags, is_pcv, is_ptm, nsos, patched, pins, launches>>

NextModule == Len(patched) + 1

\* The patchers of oc/pcv and oc/ptm, called for every module of theirs.
PatchersCalled == (IF is_pcv THEN {"Pcv"} ELSE {}) \cup (IF is_ptm THEN {"Ptm"} ELSE {})

\* One round of LoadAutoLoadModules.
LoadAutoLoadModule ==
    LET i   == NextModule
        h   == program.files[nsos[i]]
        mem == LoadModule(memory, program, i)
    IN  /\ stage = "load" /\ i <= Len(nsos)
        /\ IF /\ \A s \in Segments : PackedFits(h, s)
              /\ \A s \in Segments : HashHolds(mem, h, i, s)
           THEN /\ memory' = mem
                /\ permission' = SetPermissions(permission, program, i)
                /\ patched' = Append(patched, PatchersCalled)
                /\ UNCHANGED <<stage, process>>
           ELSE Fail /\ UNCHANGED <<memory, permission, patched>>
        /\ UNCHANGED <<call, pins, launches>>

\* The arguments come last; then the modules are registered with RoManager.
LoadArguments ==
    /\ stage = "load" /\ NextModule > Len(nsos)
    /\ LET from == info.args - info.base
       IN  IF program.args = 0 THEN UNCHANGED <<memory, permission>>
           ELSE /\ memory' = Put(memory, from, program.args, Arguments)
                /\ permission' = Put(permission, from, program.args, "ReadWrite")
    /\ stage' = "register"
    /\ UNCHANGED <<call, process, patched, pins, launches>>

RegisterProcess ==
    /\ stage = "register"
    /\ pins' = [pins EXCEPT ![pin] = program.id]
    /\ stage' = "done"
    /\ UNCHANGED <<call, made, launches>>

\* The caller gets the result; the locals of the call are gone, and the headers
\* are cleared by the next call before it reads any.
Return ==
    /\ stage \in {"done", "failed"}
    /\ stage' = "idle"
    /\ program' = (CHOOSE m \in Programs : TRUE) /\ pin' = (CHOOSE q \in PinIds : TRUE)
    /\ flags' = {} /\ info' = NoLayout
    /\ nsos' = <<>>
    /\ process' = "none" /\ memory' = <<>> /\ permission' = <<>> /\ patched' = <<>>
    /\ UNCHANGED <<is_pcv, is_ptm, pins, launches>>

CreationInit ==
    /\ stage = "idle"
    /\ program = (CHOOSE m \in Programs : TRUE) /\ pin = (CHOOSE q \in PinIds : TRUE)
    /\ flags = {} /\ is_pcv = FALSE /\ is_ptm = FALSE
    /\ nsos = <<>> /\ info = NoLayout
    /\ process = "none" /\ memory = <<>> /\ permission = <<>> /\ patched = <<>>
    /\ pins = [q \in PinIds |-> "free"]
    /\ launches = 0

CreationNext ==
    \/ PinProgram \/ UnpinProgram \/ CreateProcess \/ GiveUp
    \/ ValidateMeta \/ ValidateBrowserMeta \/ LoadHeaders \/ Create
    \/ LoadAutoLoadModule \/ LoadArguments \/ RegisterProcess \/ Return

ProgramIds == {m.id : m \in Programs}

CreationTypeOK ==
    /\ stage \in {"idle", "meta", "browser", "headers", "create", "load", "register",
                 "done", "failed"}
    /\ program \in Programs /\ pin \in PinIds /\ flags \subseteq {"DisableAslr"}
    /\ is_pcv \in BOOLEAN /\ is_ptm \in BOOLEAN
    /\ process \in {"none", "open", "closed"}
    /\ patched \in Seq(SUBSET {"Pcv", "Ptm"}) /\ Len(patched) <= Len(nsos)
    /\ pins \in [PinIds -> {"free", "pinned"} \cup ProgramIds]
    /\ launches \in 0..MaxLaunches

-------------------------------------------------------------------------------

\* Every module of PCV goes through the patcher for PCV, every module of PTM
\* through that for PTM, and no other program's through any, whatever was
\* started before: the marks are globals (ldr_process_creation.cpp:131).
PatchedByKind ==
    /\ \A i \in DOMAIN patched : patched[i] = {program.id} \cap {"Pcv", "Ptm"}
    /\ stage \in {"register", "done"} => Len(patched) = Len(nsos)

\* A call that fails leaves no process behind, one that succeeds a registered
\* one, and between calls every pin is free, waiting or used by a whole program
\* (ON_RESULT_FAILURE of CreateProcessAndLoadAutoLoadModules).
NothingLeft ==
    /\ stage = "failed" => process # "open" /\ pins[pin] = "pinned"
    /\ stage = "done" => process = "open" /\ pins[pin] = program.id
    /\ process = "open" => stage \in {"load", "register", "done"}

\* Modules and arguments each have their own part of the window, which holds
\* all of their segments, wherever the random base is
\* (DecideAddressSpaceLayout).
LayoutRight ==
    stage \in {"load", "register", "done"} =>
        LET parts == {<<info.nso[i], info.size[i]>> : i \in DOMAIN nsos}
                        \cup (IF program.args = 0 THEN {} ELSE {<<info.args, program.args>>})
        IN  /\ \A x, y \in parts : x[1] < y[1] => x[1] + x[2] <= y[1]
            /\ Cardinality(parts) = Len(nsos) + (IF program.args = 0 THEN 0 ELSE 1)
            /\ \A x \in parts : /\ x[1] >= WindowOf(program).start
                                 /\ x[1] + x[2] <= WindowOf(program).start
                                                     + WindowOf(program).size
            /\ \A i \in DOMAIN nsos :
                   LET h == program.files[nsos[i]]
                   IN  /\ \A s \in Segments : End(h, s) <= info.size[i]
                       /\ End(h, "rw") + h.bss <= info.size[i]

\* What module i has at offset a: the segment that is there, or zero.
Belongs(i, a) ==
    LET h  == program.files[nsos[i]]
        at == {s \in Segments : a >= h.dst[s] /\ a < End(h, s)}
    IN  IF at = {} THEN Zero ELSE <<i, CHOOSE s \in at : TRUE>>

\* Unpacking in place spoils nothing: a module that is loaded is, to the last
\* unit, as its file says, although compressed data was read over its own end
\* or over the modules behind it, and its pages have the permissions of their
\* segments (LoadAutoLoadModuleSegment, LoadAutoLoadModule).
MemoryRight ==
    stage \in {"load", "register", "done"} =>
        \A i \in DOMAIN patched :
            LET h    == program.files[nsos[i]]
                from == info.nso[i] - info.base
            IN  /\ \A a \in 0..(info.size[i] - 1) : memory[from + a] = Belongs(i, a)
                /\ \A a \in 0..(info.size[i] - 1) :
                       LET s == Belongs(i, a)
                       IN  /\ s = <<i, "text">> => permission[from + a] = "ReadExecute"
                           /\ s = <<i, "ro">> => permission[from + a] = "Read"
                           /\ s = <<i, "rw">> \/ a >= End(h, "rw") =>
                                  permission[from + a] = "ReadWrite"

\* A process is created whole, in its own place and patched for what it is, or
\* not at all.
CreatedWhole ==
    CreationTypeOK /\ PatchedByKind /\ NothingLeft /\ LayoutRight /\ MemoryRight

===============================================================================
