---------------------------- MODULE SecureMonitor ----------------------------
(***************************************************************************)
(* The patched secure monitor: which calls it takes                        *)
(* (secmon_smc_handler.cpp), where it maps the devices                     *)
(* (secmon_memory_layout.hpp), and the reads and writes of registers it    *)
(* does for the sysmodule and the loader (secmon_smc_register_access.cpp). *)
(* Addresses count words of four bytes.  Two cores may be in the monitor   *)
(* at a time.                                                              *)
(***************************************************************************)
EXTENDS Integers, SequencesExt

CONSTANTS PmcAllowed,    \* the registers of the PMC's access table, from its address on
          McAllowed,     \* and of the memory controller's
          Mc01Allowed,   \* and of both its channels'
          Bits,          \* the bits of a word that are told apart
          SmcCalls,      \* the calls made: [type, args]
          Watched,       \* registers, by address, that are looked at
          MaxCalls       \* bound: calls made

Cores == {0, 3}

\* The tables that are not in the repository: registers of a page, and one of
\* the first eight for the tables whose region is not shifted (AccessTables).
TablesAssumption ==
    /\ PmcAllowed \subseteq 0..767 /\ McAllowed \subseteq 0..1023
    /\ Mc01Allowed \subseteq 0..1023 /\ Mc01Allowed # {}
    /\ PmcAllowed \cap 0..7 # {} /\ McAllowed \cap 0..7 # {}
ASSUME TablesAssumption

VARIABLES fw,          \* the target firmware's major version
          restricted,  \* GetRestrictedSmcMask
          device,      \* register -> its set bits
          cores,       \* core -> the call it is in or has made
          calls,       \* calls made
          monitor,     \* "runs", or "stopped" by InvalidSmcError
          ideal,       \* history: the registers, had every call been one step
          raced        \* history: registers written between another call's read and write

monitorVars == <<fw, restricted, device, cores, calls, monitor, ideal, raced>>

-------------------------------------------------------------------------------
(* The memory layout, in pages of 1024 words.                              *)

Page(n) == 1024 * n
Region(name, page, pages) == [name |-> name, page |-> page, pages |-> pages]

\* AMS_SECMON_FOREACH_DEVICE_REGION
DeviceRegions == <<
    Region("GicDistributor", \h50041, 1), Region("GicCpuInterface", \h50042, 2),
    Region("Uart", \h70006, 1), Region("ClkRst", \h60006, 1), Region("RtcPmc", \h7000E, 1),
    Region("Timer", \h60005, 1), Region("System", \h6000C, 1),
    Region("SecurityEngine", \h70012, 2), Region("SecurityEngine2", \h70412, 2),
    Region("SysCtr0", \h700F0, 1), Region("MemoryController", \h70019, 1),
    Region("ExternalMemoryController", \h7001B, 1), Region("FuseKFuse", \h7000F, 1),
    Region("ApbMisc", \h70000, 4), Region("FlowController", \h60007, 1),
    Region("BootloaderParams", \h40000, 1), Region("I2c5", \h7000D, 1),
    Region("Gpio", \h6000D, 1), Region("I2c1", \h7000C, 1),
    Region("ExceptionVectors", \h6000F, 1), Region("MemoryController0", \h7001C, 1),
    Region("MemoryController1", \h7001D, 1), Region("Sdmmc", \h700B0, 1),
    Region("Disp1", \h54200, 3), Region("Dsi", \h54300, 1), Region("MipiCal", \h700E3, 1)>>

\* The regions of the other two channels of the RAM, which the access tables
\* name and the layout lacks: their pages on this SoC, mapped like the others.
ChannelRegions == <<Region("ExternalMemoryController1", \h7001E, 1),
                    Region("ExternalMemoryController2", \h7001F, 1)>>
Regions == DeviceRegions \o ChannelRegions

\* Each virtual region starts a page after the end of the one before.
After(placed) ==
    IF placed = <<>> THEN \h1F0040 + 1 ELSE Last(placed).virtual + Last(placed).pages + 1
Mappings ==
    FoldLeft(LAMBDA placed, r : Append(placed, [name |-> r.name, page |-> r.page,
                                                pages |-> r.pages, virtual |-> After(placed)]),
             <<>>, Regions)

MappingOf(name) == CHOOSE r \in Range(Mappings) : r.name = name
PhysicalDevice(name) == Page(MappingOf(name).page)
VirtualDevice(name)  == Page(MappingOf(name).virtual)

\* The areas of the monitor's virtual memory: the devices', and the others', by
\* page.  What an area holds in parts is one entry.
Area(page, pages) == [virtual |-> page, pages |-> pages]
VirtualDeviceArea == Area(\h1F0040, 64)
Areas == {
    VirtualDeviceArea,
    Area(\h1F00A0, 16),  \* TzramReadOnlyAlias
    Area(\h1F00C0, 12),  \* TzramProgram
    Area(\h1F00D0, 32),  \* TzramMarikoProgram
    Area(\h1F00F4, 8),   \* TzramMarikoProgramStack
    Area(\h1F0100, 16),  \* DramSecureDataStore, or DramSdmmcMappedData
    Area(\h1F0110, 4),   \* DramDebugDataStore
    Area(\h1F0120, 16),  \* IramSc7Work
    Area(\h1F0140, 1),   \* IramSc7Firmware
    Area(\h1F0150, 4),   \* DebugCode
    Area(\h1F0160, 16),  \* Debug
    Area(\h1F01C0, 2),   \* TzramBootCode
    Area(\h1F01F0, 1), Area(\h1F01F2, 1), Area(\h1F01F4, 1),  \* pages of callers
    Area(\h1F01F6, 1), Area(\h1F01F8, 1), Area(\h1F01FA, 1),  \* volatile data, stack, configuration
    Area(\h1F01FC, 1), Area(\h1F01FE, 1)}                     \* page tables
MemoryRegionVirtual == Area(\h1F0000, 512)

Inside(inner, outer) ==
    /\ outer.virtual <= inner.virtual
    /\ inner.virtual + inner.pages <= outer.virtual + outer.pages
Apart(r1, r2) == r1.virtual + r1.pages <= r2.virtual \/ r2.virtual + r2.pages <= r1.virtual

\* The PMC is the upper three quarters of its page.
PhysicalDevicePmc == PhysicalDevice("RtcPmc") + 256
VirtualDevicePmc  == VirtualDevice("RtcPmc") + 256

\* What the page table makes of a virtual address.
MappingsAt(v) ==
    {r \in Range(Mappings) : v \in Page(r.virtual)..(Page(r.virtual + r.pages) - 1)}
Mapped(v) ==
    LET r == CHOOSE r \in MappingsAt(v) : TRUE
    IN  Page(r.page) + (v - Page(r.virtual))

-------------------------------------------------------------------------------
(* The access tables.                                                      *)

Lowest(S)  == CHOOSE x \in S : \A y \in S : x <= y
Highest(S) == CHOOSE x \in S : \A y \in S : y <= x

\* secmon_emc_access_table_data.inc
SetRegisterTableAllowed(offsets) == {offset \div 4 : offset \in offsets}
EmcAllowed == SetRegisterTableAllowed({4 * r : r \in 0..1023})

\* The bytes of a table from the first to the last that allows something.
GetReducedAccessTableInfo(allowed) ==
    LET bytes == {r \div 8 : r \in allowed}
    IN  [first |-> Lowest(bytes), second |-> Highest(bytes) + 1]

\* Mutant: the empty head of the table is cut off, its address kept.
AccessTableUnshifted(address, allowed) ==
    LET cut == GetReducedAccessTableInfo(allowed)
    IN  [table |-> {r - 8 * cut.first : r \in allowed}, address |-> address,
         size |-> 8 * (cut.second - cut.first)]

AccessTable(address, allowed) ==
    LET cut == GetReducedAccessTableInfo(allowed)
    IN  [table |-> {r - 8 * cut.first : r \in allowed},
         address |-> address + 8 * cut.first,
         size |-> 8 * (cut.second - cut.first)]

PmcAccessTable == AccessTable(PhysicalDevicePmc, PmcAllowed)
McAccessTable  == AccessTable(PhysicalDevice("MemoryController"), McAllowed)
EmcAccessTable(name) == AccessTable(PhysicalDevice(name), EmcAllowed)
Mc01AccessTable == AccessTable(0, Mc01Allowed)

TableEntry(t, virtual, address) ==
    [table |-> t.table, virtual |-> virtual, address |-> address, size |-> t.size]
EmcEntry(name) ==
    TableEntry(EmcAccessTable(name), VirtualDevice(name), EmcAccessTable(name).address)
Mc01Entry(name) ==
    TableEntry(Mc01AccessTable, Mc01AccessTable.address + VirtualDevice(name),
           Mc01AccessTable.address + PhysicalDevice(name))
AccessTables == <<
    TableEntry(PmcAccessTable, VirtualDevicePmc, PmcAccessTable.address),
    TableEntry(McAccessTable, VirtualDevice("MemoryController"), McAccessTable.address),
    EmcEntry("ExternalMemoryController"), EmcEntry("ExternalMemoryController1"),
    EmcEntry("ExternalMemoryController2"),
    Mc01Entry("MemoryController0"), Mc01Entry("MemoryController1")>>

IsAccessAllowed(entry, w) ==
    /\ w \in entry.address..(entry.address + entry.size - 1)
    /\ (w - entry.address) \div 8 < entry.size
    /\ (w - entry.address) \in entry.table

EntriesFor(w) == {i \in DOMAIN AccessTables : IsAccessAllowed(AccessTables[i], w)}
GetAccessTableEntry(w) == AccessTables[Lowest(EntriesFor(w))]

\* MC_SMMU_AVPC_ASID and MC_SMMU_PPCS1_ASID, as words of the memory controller.
SmmuAsids == {PhysicalDevice("MemoryController") + r : r \in {143, 166}}

\* The virtual address to access, 0 for none.
VirtualAddress(w) ==
    IF EntriesFor(w) # {}
    THEN GetAccessTableEntry(w).virtual + (w - GetAccessTableEntry(w).address)
    ELSE IF w \in SmmuAsids /\ fw < 2
         THEN VirtualDevice("MemoryController") + (w - PhysicalDevice("MemoryController"))
         ELSE 0

-------------------------------------------------------------------------------
(* Which calls there are.  The id of a call is its convention and range     *)
(* (top), its arguments' types, and its index in the table.                *)

Id(top, types, index) == [top |-> top, types |-> types, index |-> index]
Info(id, restriction, handler) ==
    [id |-> id, restriction |-> restriction, runs |-> handler]

SafeMode  == {"SafeModeNotAllowed"}
Normal    == {"Normal"}
DeviceUnique == {"DeviceUniqueDataNotAllowed"}

\* By index; an index that is not there has no handler.
g_user_handlers == <<
    Info(Id(\hC3, \h04, \h01), SafeMode, "SmcSetConfig"),
    Info(Id(\hC3, \h00, \h02), Normal, "SmcGetConfigUser"),
    Info(Id(\hC3, \h00, \h03), Normal, "SmcGetResult"),
    Info(Id(\hC3, \h04, \h04), Normal, "SmcGetResultData"),
    Info(Id(\hC3, \h0E, \h05), SafeMode, "SmcModularExponentiate"),
    Info(Id(\hC3, \h00, \h06), Normal, "SmcGenerateRandomBytes"),
    Info(Id(\hC3, \h00, \h07), Normal, "SmcGenerateAesKek"),
    Info(Id(\hC3, \h00, \h08), Normal, "SmcLoadAesKey"),
    Info(Id(\hC3, \h00, \h09), Normal, "SmcComputeAes"),
    Info(Id(\hC3, \h00, \h0A), Normal, "SmcGenerateSpecificAesKey"),
    Info(Id(\hC3, \h04, \h0B), Normal, "SmcComputeCmac"),
    Info(Id(\hC3, \hD6, \h0C), Normal, "SmcReencryptDeviceUniqueData"),
    Info(Id(\hC3, \h10, \h0D), DeviceUnique, "SmcDecryptDeviceUniqueData"),
    Info(Id(\hC3, \h00, \h0E), SafeMode, "none"),
    Info(Id(\hC3, \h06, \h0F), DeviceUnique, "SmcModularExponentiateByStorageKey"),
    Info(Id(\hC3, \h06, \h10), SafeMode, "SmcPrepareEsDeviceUniqueKey"),
    Info(Id(\hC3, \h00, \h11), SafeMode, "SmcLoadPreparedAesKey"),
    Info(Id(\hC3, \h00, \h12), SafeMode, "SmcPrepareEsCommonTitleKey")>>

DecryptAndImportEsDeviceKeyHandlerInfo ==
    Info(Id(\hC3, \h10, \h0C), Normal, "SmcDecryptAndImportEsDeviceKey")
DecryptAndImportLotusKeyHandlerInfo ==
    Info(Id(\hC3, \h10, \h0E), SafeMode, "SmcDecryptAndImportLotusKey")

g_kern_handlers == <<
    Info(Id(\hC4, \h00, \h01), SafeMode, "SmcSuspendCpu"),
    Info(Id(\h84, \h00, \h02), SafeMode, "SmcPowerOffCpu"),
    Info(Id(\hC4, \h00, \h03), SafeMode, "SmcPowerOnCpu"),
    Info(Id(\hC3, \h00, \h04), Normal, "SmcGetConfigKern"),
    Info(Id(\hC3, \h00, \h05), Normal, "SmcGenerateRandomBytesNonBlocking"),
    Info(Id(\hC3, \h00, \h06), Normal, "SmcShowError"),
    Info(Id(\hC3, \h00, \h07), Normal, "SmcSetKernelCarveoutRegion"),
    Info(Id(\hC3, \h00, \h08), Normal, "SmcReadWriteRegister"),
    Info(Id(\hC3, \h04, \h09), Normal, "SmcSetConfig")>>

g_ams_handlers == <<
    Info(Id(\hF0, \h02, \h01), {}, "SmcIramCopy"),
    Info(Id(\hF0, \h00, \h02), {}, "SmcReadWriteRegister"),
    Info(Id(\hF0, \h00, \h03), {}, "SmcWriteAddress"),
    Info(Id(\hF0, \h04, \h04), {}, "SmcGetEmummcConfig"),
    Info(Id(\hF0, \h00, \h05), {}, "SmcShowError")>>

GetSecureDataHandlerInfo == Info(Id(\h67, \h8912, \h34), {}, "SmcGetSecureData")

ConfigureSmcHandlersForTargetFirmware ==
    IF fw < 5
    THEN [g_user_handlers EXCEPT ![\h0C] = DecryptAndImportEsDeviceKeyHandlerInfo,
                                 ![\h0E] = DecryptAndImportLotusKeyHandlerInfo]
    ELSE g_user_handlers

SmcCallRange_TrustedApp == \h30
CallRange(id) == id.top % 64

\* The table a call is looked up in, none for InvalidSmcError.
GetHandlerTable(type, core, id) ==
    IF type = "user" /\ CallRange(id) = SmcCallRange_TrustedApp THEN {g_ams_handlers}
    ELSE IF type = "user" /\ core = 3 THEN {ConfigureSmcHandlersForTargetFirmware}
    ELSE IF type = "kern" THEN {g_kern_handlers}
    ELSE {}

\* What is done for a call: nothing for InvalidSmcError.
GetHandlerInfo(type, core, id) ==
    IF id = GetSecureDataHandlerInfo.id THEN {GetSecureDataHandlerInfo}
    ELSE UNION {{handler \in {table[i] : i \in DOMAIN table} :
                    handler.id = id /\ handler.runs # "none"}
                : table \in GetHandlerTable(type, core, id)}

IsHandlerRestricted(handler) == handler.restriction \cap restricted # {}
Permitted(handler) == ~(fw >= 8 /\ IsHandlerRestricted(handler))

-------------------------------------------------------------------------------
(* A call, from the trap to the return.                                    *)

\* What r[1] holds: the address it was called with, or a register's value.
Own(args)  == [is |-> "argument", addr |-> args.addr, bits |-> {}]
Value(set) == [is |-> "value", addr |-> 0, bits |-> set]
Returns(call, answer) ==
    [at |-> "done", id |-> call.id, args |-> call.args, out |-> {}, seen |-> {}, r0 |-> answer,
     r1 |-> Own(call.args)]
NoCall ==
    [Returns([id |-> Id(0, 0, 0),
              args |-> [addr |-> 0, aligned |-> TRUE, mask |-> {}, value |-> {}]], "Success")
        EXCEPT !.at = "idle"]

\* Mutant: what was not read keeps its old bits.
CombinedOr(out, args) == out \cup (args.value \cap args.mask)

Combined(out, args) == (out \ args.mask) \cup (args.value \cap args.mask)

\* A register nobody looks at or has written.
Register(w) == IF w \in DOMAIN device THEN device[w] ELSE {}

\* SmcReadWriteRegister up to its access: refused, ignored, or the register has
\* been read, unless all of it is written.
ReadRegister(core, call) ==
    LET args == call.args
        v == VirtualAddress(args.addr)
    IN  cores' = [cores EXCEPT ![core] =
            IF ~args.aligned \/ (EntriesFor(args.addr) = {} /\ args.addr \notin SmmuAsids)
            THEN Returns(call, "InvalidArgument")
            ELSE IF v = 0 THEN Returns(call, "Success")
            ELSE [Returns(call, "Success") EXCEPT
                     !.at = "access",
                     !.out = IF args.mask # Bits THEN Register(Mapped(v)) ELSE {},
                     !.seen = Register(args.addr)]]

\* HandleSmc.  Handlers that are not in the repository answer what they like;
\* the error screen does not return.
HandleSmc(core, call) ==
    /\ monitor = "runs" /\ calls < MaxCalls /\ cores[core].at # "access"
    /\ calls' = calls + 1
    /\ LET found == GetHandlerInfo(call.type, core, call.id)
       IN  \/ /\ found = {}
              /\ monitor' = "stopped" /\ UNCHANGED cores
           \/ \E handler \in found :
                \/ /\ ~Permitted(handler)
                   /\ cores' = [cores EXCEPT ![core] = Returns(call, "NotPermitted")]
                   /\ UNCHANGED monitor
                \/ /\ Permitted(handler) /\ handler.runs = "SmcReadWriteRegister"
                   /\ ReadRegister(core, call)
                   /\ UNCHANGED monitor
                \/ /\ Permitted(handler)
                   /\ handler.runs \notin {"SmcReadWriteRegister", "SmcShowError"}
                   /\ \E answer \in {"Success", "InvalidArgument"} :
                          cores' = [cores EXCEPT ![core] = Returns(call, answer)]
                   /\ UNCHANGED monitor
                \/ /\ Permitted(handler) /\ handler.runs = "SmcShowError"
                   /\ monitor' = "stopped" /\ UNCHANGED cores
    /\ UNCHANGED <<fw, restricted, device, ideal, raced>>

\* The write, unless the call only reads, and the return.
WriteRegister(core) ==
    LET args == cores[core].args
        w    == Mapped(VirtualAddress(args.addr))
    IN  /\ monitor = "runs" /\ cores[core].at = "access"
        /\ device' = IF args.mask # {}
                     THEN [x \in DOMAIN device \cup {w} |->
                              IF x = w THEN Combined(cores[core].out, args) ELSE device[x]]
                     ELSE device
        /\ cores' = [cores EXCEPT ![core].at = "done", ![core].r1 = Value(cores[core].out)]
        /\ ideal' = [ideal EXCEPT ![args.addr] =
                        (@ \ args.mask) \cup (args.value \cap args.mask)]
        /\ raced' = raced \cup
               {a \in {args.addr} : args.mask # {} /\
                    \E k \in Cores \ {core} : /\ cores[k].at = "access"
                                              /\ cores[k].args.addr = a
                                              /\ cores[k].args.mask \notin {{}, Bits}}
        /\ UNCHANGED <<fw, restricted, calls, monitor>>

Initially == {"b13"}
MonitorInit ==
    /\ \E t \in {<<1, {}>>, <<4, SafeMode>>, <<8, Normal \cup DeviceUnique>>, <<20, SafeMode>>} :
           fw = t[1] /\ restricted = t[2]
    /\ device = [w \in Watched |-> Initially] /\ ideal = device
    /\ cores = [core \in Cores |-> NoCall] /\ calls = 0 /\ monitor = "runs" /\ raced = {}
MonitorNext ==
    \E core \in Cores :
        \/ \E call \in SmcCalls : HandleSmc(core, call)
        \/ WriteRegister(core)

-------------------------------------------------------------------------------
(* What the sysmodule makes of an answer: an argument that comes back        *)
(* unchanged is a read that failed.                                        *)

ReadPmcReg(core) == IF cores[core].r1 = Own(cores[core].args) THEN {} ELSE cores[core].r1.bits
PmcReadable(core) == cores[core].r1 # Own(cores[core].args)
IsDram8GB(core) ==
    IF cores[core].r1 = Own(cores[core].args) THEN FALSE ELSE cores[core].r1.bits = {"b13"}

ReadWriteRegisterId == Id(\hF0, \h00, \h02)
ShowErrorId         == Id(\hF0, \h00, \h05)

-------------------------------------------------------------------------------

\* The registers the raw tables allow, by their own addresses.
Shifted(address, allowed) == {address + r : r \in allowed}
Allowed ==
    Shifted(PhysicalDevicePmc, PmcAllowed)
    \cup Shifted(PhysicalDevice("MemoryController"), McAllowed)
    \cup UNION {Shifted(PhysicalDevice(n), EmcAllowed) :
                n \in {"ExternalMemoryController", "ExternalMemoryController1",
                       "ExternalMemoryController2"}}
    \cup UNION {Shifted(PhysicalDevice(n), Mc01Allowed) :
                n \in {"MemoryController0", "MemoryController1"}}
Reachable == IF fw < 2 THEN Allowed \cup SmmuAsids ELSE Allowed

\* A device more moves every later region: all stay in the devices' area, apart
\* from each other, and no two areas meet (DEFINE_DEVICE_REGION).
LayoutApart ==
    calls = 0 =>
        /\ \A r \in Range(Mappings) : Inside(r, VirtualDeviceArea)
        /\ \A S \in {Range(Mappings), Areas} :
               \A r1, r2 \in S : r1 # r2 => Apart(r1, r2)
        /\ \A r \in Areas : Inside(r, MemoryRegionVirtual)

\* With its head cut off a table allows what it allowed, and the virtual address
\* of every register that is allowed is mapped to that register
\* (GetReducedAccessTableInfo, IsAccessAllowed, AccessTables).
TablesReach ==
    calls = 0 =>
        \A n \in {"RtcPmc", "MemoryController", "ExternalMemoryController",
                  "ExternalMemoryController1", "ExternalMemoryController2",
                  "MemoryController0", "MemoryController1"} :
            \A w \in PhysicalDevice(n)..(PhysicalDevice(n) + 1023) :
                /\ EntriesFor(w) # {} <=> w \in Allowed
                /\ w \in Reachable => /\ Cardinality(MappingsAt(VirtualAddress(w))) = 1
                                      /\ Mapped(VirtualAddress(w)) = w

\* The sysmodule's reads and writes and the loader's error screen are there on
\* every core and every firmware, in safe mode too (GetHandlerTable,
\* InvokeSmcHandler), while spl's calls are core 3's alone.
CallsFound ==
    /\ \A core \in Cores : \A id \in {ReadWriteRegisterId, ShowErrorId} :
           \E handler \in GetHandlerInfo("user", core, id) : Permitted(handler)
    /\ \A core \in Cores : \A id \in {handler.id : handler \in {g_user_handlers[i] :
                                                    i \in DOMAIN g_user_handlers}} :
           GetHandlerInfo("user", core, id) # {} => core = 3

\* Every register holds what the calls so far made of it, as if each had been one
\* step, only the bits of its mask changed, and a register that is not allowed
\* holds what it held: unless one was written between the read and the write of
\* a call for some of its bits, which nothing in this code prevents.
RegistersKept ==
    /\ DOMAIN device = Watched
    /\ \A w \in Watched \ raced : device[w] = ideal[w]
    /\ \A w \in Watched \ Reachable : device[w] = Initially

\* Who reads learns the value the register had, or that it was refused; who writes
\* a whole register gets 0; the accesses to the SMMU that are ignored succeed.
AnswersRight ==
    \A core \in Cores :
        LET args == cores[core].args
        IN  cores[core].at = "done" /\ cores[core].id = ReadWriteRegisterId =>
                /\ PmcReadable(core) <=> args.aligned /\ args.addr \in Reachable
                /\ args.mask = {} =>
                       ReadPmcReg(core) = IF PmcReadable(core) THEN cores[core].seen ELSE {}
                /\ args.mask = Bits => ReadPmcReg(core) = {}
                /\ IsDram8GB(core) => cores[core].seen = {"b13"}
                /\ cores[core].r0 = "Success" <=>
                       args.aligned /\ args.addr \in Allowed \cup SmmuAsids

MonitorInv == LayoutApart /\ TablesReach /\ CallsFound /\ RegistersKept /\ AnswersRight
==============================================================================
