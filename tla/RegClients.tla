------------------------------ MODULE RegClients ------------------------------
(* The clients that work on the registers of debug modules: enumeration of *)
(* a subnet, module descriptors (STM, CTM, CDM, DEM-UART, MAM), the CPU    *)
(* register accesses of the CDM, and the bits set in SCM and module        *)
(* control registers. A call is a sequence of register accesses; every one *)
(* is a round trip to the device in which other hosts can get in between,  *)
(* and which can fail before or after the device has carried it out. An    *)
(* answer that comes late is not modelled here but in HostMod.             *)
EXTENDS Integers, Sequences, SequencesExt, FiniteSetsExt

CONSTANTS
    Host,
    Subnet,
    LOCALS,         \* local addresses of a subnet: 2^OSD_DIADDR_LOCAL_BITS
    WORD,           \* range of a register word: 2^16
    REGION_WORDS,   \* registers of a base address or memory size: 4
    SPR_PAGE,       \* CPU registers that can be reached at once: 2^15
    Device,         \* registers by DI address, and by name and index
    MemoryMap,      \* regions of the memories, as the registers describe them
    Target,         \* modules that descriptors and control bits are tried on
    MaxRegCalls,    \* bound: calls
    MaxFails        \* bound: accesses that fail

VENDOR_OSD == 1
Types == [SCM |-> 1, DEM_UART |-> 2, MAM |-> 3, STM |-> 4, CTM |-> 5, CDM |-> 6]

(* Registers the descriptors of the module types are read from.            *)
DescRegs ==
    [STM |-> <<"VALWIDTH">>, CTM |-> <<"ADDR_WIDTH", "DATA_WIDTH">>,
     CDM |-> <<"CORE_CTRL", "CORE_REG_UPPER", "CORE_DATA_WIDTH">>,
     DEM_UART |-> <<>>]

osd_diaddr_build(subnet, local) == subnet * LOCALS + local
Scm(subnet) == osd_diaddr_build(subnet, 0)

Has(a, name) == <<name, 0>> \in DOMAIN Device[a]
TypeOf(a) == Device[a][<<"TYPE", 0>>]

CDMs == {a \in DOMAIN Device : TypeOf(a) = Types.CDM}

(* What a module says of itself.                                           *)
Described(a) ==
    [addr |-> a, vals |-> <<Device[a][<<"VENDOR", 0>>], TypeOf(a), Device[a][<<"VERSION", 0>>]>>]

(* The words of a base address or of a size, the least significant first.  *)
RegionWords(a, name, region) ==
    [w \in 1 .. REGION_WORDS |-> Device[a][<<name, region * REGION_WORDS + w - 1>>]]
RegionValue(words) == FoldRight(LAMBDA w, acc : WORD * acc + w, words, 0)

(* The device is as its specification asks for: every subnet has its SCM,  *)
(* modules have consecutive addresses, and a module has the registers of   *)
(* its type. A memory has at most 8 regions, none of which is empty.       *)
ASSUME DeviceAssumption ==
    /\ {LOCALS, WORD, REGION_WORDS, SPR_PAGE} \subseteq Nat \ {0} /\ WORD % 4 = 0
    /\ Subnet \subseteq Nat /\ DOMAIN Device \subseteq Nat /\ Target \subseteq DOMAIN Device
    /\ {MaxRegCalls, MaxFails} \subseteq Nat
    /\ \A a \in DOMAIN Device :
          /\ \A r \in DOMAIN Device[a] : Device[a][r] \in 0 .. (WORD - 1)
          /\ Has(a, "VENDOR") /\ Has(a, "TYPE") /\ Has(a, "VERSION") /\ Has(a, "CS")
          /\ \A type \in DOMAIN DescRegs : TypeOf(a) = Types[type] =>
                \A i \in DOMAIN DescRegs[type] : Has(a, DescRegs[type][i])
          /\ TypeOf(a) = Types.MAM =>
                /\ Has(a, "AW") /\ Has(a, "DW") /\ Has(a, "REGIONS")
                /\ Device[a][<<"REGIONS", 0>>] <= 8
                /\ \A i \in 0 .. (Device[a][<<"REGIONS", 0>>] * REGION_WORDS - 1) :
                      {<<"BASEADDR", i>>, <<"MEMSIZE", i>>} \subseteq DOMAIN Device[a]
                /\ MemoryMap[a] = [i \in 1 .. Device[a][<<"REGIONS", 0>>] |->
                      [baseaddr |-> RegionValue(RegionWords(a, "BASEADDR", i - 1)),
                       memsize |-> RegionValue(RegionWords(a, "MEMSIZE", i - 1))]]
                /\ \A i \in DOMAIN MemoryMap[a] : MemoryMap[a][i].memsize # 0
    /\ \A s \in Subnet :
          /\ Has(Scm(s), "NUM_MOD") /\ Has(Scm(s), "SYSRST") /\ Has(Scm(s), "VENDOR_ID")
          /\ Has(Scm(s), "DEVICE_ID") /\ Has(Scm(s), "MAX_PKT_LEN")
          /\ Device[Scm(s)][<<"NUM_MOD", 0>>] \in 1 .. LOCALS
          /\ \A l \in 0 .. (LOCALS - 1) : osd_diaddr_build(s, l) \in DOMAIN Device <=>
                l < Device[Scm(s)][<<"NUM_MOD", 0>>]

VARIABLES
    dev,        \* registers of the device
    client,     \* the call each host makes: its accesses and what they gave
    upper,      \* core_reg_upper of each host's descriptor, by CDM
    disturbed,  \* ghost: CDMs whose page a host does not know any more
    ncalls, nfails

regVars == <<dev, client, upper, disturbed, ncalls, nfails>>

R(a, name, i) == [kind |-> "read", addr |-> a, reg |-> <<name, i>>]
W(a, name, v) == [kind |-> "write", addr |-> a, reg |-> <<name, 0>>, val |-> v]
Unset == -1
NoModule == [addr |-> 0, vals |-> <<0, 0, 0>>]
NoCall == [op |-> "none", arg |-> 0, flags |-> 0, stage |-> "", group |-> <<>>,
           at |-> 0, vals |-> <<>>, mods |-> <<>>, mems |-> <<>>,
           found |-> FALSE, partial |-> FALSE, rv |-> "OK"]
Busy(h) == client[h].rv = ""
-----------------------------------------------------------------------------
(* osd_hostmod_mod_describe(): three reads.                                *)
osd_hostmod_mod_describe(a) ==
    <<R(a, "VENDOR", 0), R(a, "TYPE", 0), R(a, "VERSION", 0)>>

(* Mutated form: all other bits are cleared.                               *)
SetBit_assign(v, mask, on) == IF on THEN mask ELSE 0

(* A bit is named by its mask, 1 << bitnum.                                *)
SetBit(v, mask, on) ==
    v - (IF (v \div mask) % 2 = 1 THEN mask ELSE 0) + (IF on THEN mask ELSE 0)

(* The write depends on the value that was read just before.               *)
osd_hostmod_reg_setbit(a, name, mask, on) ==
    <<R(a, name, 0),
      [kind |-> "writebit", addr |-> a, reg |-> <<name, 0>>, mask |-> mask, on |-> on]>>

(* Mutated form: the cached page is not looked at in the other direction.  *)
SelectPage_onlyUp(h, cdm, reg_addr) ==
    IF upper[h][cdm] >= reg_addr \div SPR_PAGE THEN <<>>
    ELSE <<W(cdm, "CORE_REG_UPPER", reg_addr \div SPR_PAGE)>>

SelectPage(h, cdm, reg_addr) ==
    IF upper[h][cdm] = reg_addr \div SPR_PAGE THEN <<>>
    ELSE <<W(cdm, "CORE_REG_UPPER", reg_addr \div SPR_PAGE)>>

(* A register of a core is found by the page and the lower address bits.   *)
Spr(kind, cdm, reg_addr) ==
    [kind |-> kind, addr |-> cdm, reg |-> <<"SPR", reg_addr % SPR_PAGE>>]

(* Mutated form: the loop ends one module early.                           *)
Enumerated_offByOne(subnet, num) == Scm(subnet) .. (num - 2)

(* The local addresses that the loop of osd_hostmod_get_modules() visits:  *)
(* it starts at the full DI address of the SCM.                            *)
Enumerated(subnet, num) == Scm(subnet) .. (num - 1)

is_supported_mam(m) == m.vals = <<VENDOR_OSD, Types.MAM, 0>>
-----------------------------------------------------------------------------
RegTypeOK ==
    /\ \A a \in DOMAIN Device : \A r \in DOMAIN Device[a] : dev[a][r] \in 0 .. (WORD - 1)
    /\ \A h \in Host :
          /\ client[h].rv \in {"", "OK", "ERR", "WRONG_MODULE", "PARTIAL_RESULT"}
          /\ Busy(h) => client[h].group # <<>>
    /\ upper \in [Host -> [CDMs -> Nat \cup {Unset}]]
    /\ disturbed \in [Host -> SUBSET CDMs]
    /\ ncalls \in 0 .. MaxRegCalls /\ nfails \in 0 .. MaxFails

RegInit ==
    /\ dev = Device /\ client = [h \in Host |-> NoCall]
    /\ upper = [h \in Host |-> [c \in CDMs |-> Unset]]
    /\ disturbed = [h \in Host |-> {}] /\ ncalls = 0 /\ nfails = 0

Call(h, op, stage, arg, flags, group) ==
    /\ ~Busy(h) /\ ncalls < MaxRegCalls
    /\ ncalls' = ncalls + 1
    /\ client' = [client EXCEPT ![h] =
          [NoCall EXCEPT !.op = op, !.stage = stage, !.arg = arg, !.flags = flags,
                         !.group = group, !.rv = ""]]
    /\ UNCHANGED <<dev, upper, disturbed, nfails>>

osd_cl_scm_cpus_start(h, s) ==
    Call(h, "setbit", "", Scm(s), 1, osd_hostmod_reg_setbit(Scm(s), "SYSRST", 2, FALSE))

osd_cl_scm_cpus_stop(h, s) ==
    Call(h, "setbit", "", Scm(s), 1, osd_hostmod_reg_setbit(Scm(s), "SYSRST", 2, TRUE))

osd_hostmod_mod_set_event_active(h, a, enabled) ==
    Call(h, "setbit", "", a, 0, osd_hostmod_reg_setbit(a, "CS", 1, enabled))

osd_cl_scm_get_subnetinfo(h, s) ==
    Call(h, "subnetinfo", "", s, 0,
         <<R(Scm(s), "VENDOR_ID", 0), R(Scm(s), "DEVICE_ID", 0),
           R(Scm(s), "MAX_PKT_LEN", 0)>>)

osd_hostmod_get_modules(h, s) ==
    Call(h, "get_modules", "count", s, 0, <<R(Scm(s), "NUM_MOD", 0)>>)

osd_memaccess_find_memories(h, s) ==
    Call(h, "find_memories", "count", s, 0, <<R(Scm(s), "NUM_MOD", 0)>>)

(* Descriptors: the module has to be of the right type, then its registers *)
(* are read.                                                               *)
GetDesc(h, type, a) == Call(h, type, "type", a, 0, osd_hostmod_mod_describe(a))
osd_cl_stm_get_desc(h, a) == GetDesc(h, "STM", a)
osd_cl_ctm_get_desc(h, a) == GetDesc(h, "CTM", a)
osd_cl_cdm_get_desc(h, a) == GetDesc(h, "CDM", a)
osd_cl_dem_uart_get_desc(h, a) == GetDesc(h, "DEM_UART", a)

cl_cdm_cpureg_read(h, cdm, reg_addr) ==
    /\ upper[h][cdm] # Unset
    /\ Call(h, "cpureg", "", reg_addr, 0,
            SelectPage(h, cdm, reg_addr) \o <<Spr("read", cdm, reg_addr)>>)

cl_cdm_cpureg_write(h, cdm, reg_addr) ==
    /\ upper[h][cdm] # Unset
    /\ Call(h, "cpureg", "", reg_addr, 0,
            SelectPage(h, cdm, reg_addr) \o <<Spr("spr", cdm, reg_addr)>>)
-----------------------------------------------------------------------------
(* What the device does for an access, and the value it answers with. The  *)
(* contents of a CPU register stand for the register: its full address.    *)
NewValue(h, x) ==
    IF x.kind = "write" THEN x.val ELSE SetBit(Last(client[h].vals), x.mask, x.on)

Executed(h, x) ==
    dev' = IF x.kind \in {"write", "writebit"}
           THEN [dev EXCEPT ![x.addr][x.reg] = NewValue(h, x)] ELSE dev

Answered(x) ==
    IF x.reg[1] = "SPR"
    THEN dev[x.addr][<<"CORE_REG_UPPER", 0>>] * SPR_PAGE + x.reg[2]
    ELSE dev[x.addr][x.reg]

PageWrite(x) == x.kind = "write" /\ x.reg = <<"CORE_REG_UPPER", 0>>

MamGroup(m) == <<R(m.addr, "AW", 0), R(m.addr, "DW", 0), R(m.addr, "REGIONS", 0)>>

(* The words of all regions: of each its base address, then its size.      *)
RegionGroup(a, n) ==
    [k \in 1 .. (2 * REGION_WORDS * n) |->
        LET word == (k - 1) % REGION_WORDS
            number == (k - 1) \div REGION_WORDS
        IN  R(a, IF number % 2 = 0 THEN "BASEADDR" ELSE "MEMSIZE",
              (number \div 2) * REGION_WORDS + word)]

Result(c) == IF c.partial THEN "PARTIAL_RESULT" ELSE "OK"

Return(c, found) == [c EXCEPT !.group = <<>>, !.rv = Result(c), !.found = found]

(* The loop over the memories among the modules: the next one, or the end. *)
NextMemory(c) ==
    LET mams == {i \in DOMAIN c.mods : i >= c.at /\ is_supported_mam(c.mods[i])} IN
    IF mams = {} THEN Return(c, TRUE)
    ELSE [c EXCEPT !.stage = "mam", !.group = MamGroup(c.mods[Min(mams)]),
                   !.vals = <<>>, !.at = Min(mams) + 1]

(* The loop over the modules. Memories are only looked at if it could      *)
(* describe all of them.                                                   *)
NextModule(c) ==
    LET left == {l \in Enumerated(c.arg, Len(c.mods)) : l >= c.at} IN
    CASE left # {} ->
            [c EXCEPT !.group = osd_hostmod_mod_describe(osd_diaddr_build(c.arg, Min(left))),
                      !.vals = <<>>, !.at = Min(left) + 1]
      [] left = {} /\ c.op = "find_memories" /\ ~c.partial ->
            NextMemory([c EXCEPT !.at = 1])
      [] OTHER -> Return(c, c.op = "get_modules")

(* All accesses of a group have succeeded; the last was x.                 *)
GroupDone(c, x) ==
    CASE c.stage = "count" ->
            NextModule([c EXCEPT !.stage = "describe",
                                 !.mods = [i \in 1 .. c.vals[1] |-> NoModule]])
      [] c.stage = "describe" ->
            NextModule([c EXCEPT !.mods[x.addr + 1] = [addr |-> x.addr, vals |-> c.vals]])
      [] c.stage = "mam" /\ Len(c.vals) = 3 /\ c.vals[3] > 0 ->
            [c EXCEPT !.group = RegionGroup(x.addr, c.vals[3])]
      [] c.stage = "mam" /\ ~(Len(c.vals) = 3 /\ c.vals[3] > 0) ->
            NextMemory([c EXCEPT !.mems = Append(@, [addr |-> x.addr, vals |-> c.vals])])
      [] c.stage = "type" /\ c.vals = <<VENDOR_OSD, Types[c.op], 0>>
                          /\ DescRegs[c.op] # <<>> ->
            [c EXCEPT !.stage = "desc", !.vals = <<>>,
                      !.group = [i \in DOMAIN DescRegs[c.op] |->
                                    R(x.addr, DescRegs[c.op][i], 0)]]
      [] c.stage = "type" /\ c.vals # <<VENDOR_OSD, Types[c.op], 0>> ->
            [c EXCEPT !.rv = "WRONG_MODULE"]
      [] OTHER -> [c EXCEPT !.rv = "OK"]

(* The access x has failed: what was to follow in its group is left out.   *)
GroupFailed(c, x) ==
    CASE c.stage = "describe" ->
            NextModule([c EXCEPT !.partial = TRUE,
                                 !.mods[x.addr + 1] = [addr |-> x.addr, vals |-> <<0, 0, 0>>]])
      [] c.stage = "mam" ->
            NextMemory([c EXCEPT !.partial = TRUE,
                                 !.mems = Append(@, [addr |-> x.addr, vals |-> c.vals])])
      [] c.stage = "type" -> [c EXCEPT !.rv = "WRONG_MODULE", !.group = <<>>]
      [] OTHER -> [c EXCEPT !.rv = "ERR", !.group = <<>>]
-----------------------------------------------------------------------------
(* The first access of the group is carried out and answered. A host that  *)
(* has selected a page takes it from its other users.                      *)
AccessOK(h) ==
    LET c == client[h]
        x == Head(c.group)
        done == [c EXCEPT !.group = Tail(@), !.vals = Append(@, Answered(x))]
    IN  /\ Busy(h) /\ Executed(h, x)
        /\ client' = [client EXCEPT ![h] =
                         IF Len(c.group) > 1 THEN done ELSE GroupDone(done, x)]
        /\ upper' = CASE PageWrite(x) -> [upper EXCEPT ![h][x.addr] = x.val]
                      [] c.stage = "desc" /\ x.reg = <<"CORE_REG_UPPER", 0>> ->
                            [upper EXCEPT ![h][x.addr] = Answered(x)]
                      [] OTHER -> upper
        /\ disturbed' = [g \in Host |->
              IF upper'[g] # upper[g] THEN disturbed[g] \ {x.addr}
              ELSE IF PageWrite(x) /\ g # h THEN disturbed[g] \cup {x.addr}
              ELSE disturbed[g]]
        /\ UNCHANGED <<ncalls, nfails>>

(* The access fails: the device refuses it, or the request was lost, or    *)
(* the answer; a blocking access waits for an answer without limit.        *)
AccessFails(h) ==
    LET c == client[h]
        x == Head(c.group)
    IN  /\ Busy(h) /\ nfails < MaxFails
        /\ nfails' = nfails + 1
        /\ client' = [client EXCEPT ![h] = GroupFailed(c, x)]
        /\ \/ UNCHANGED <<dev, disturbed>>
           \/ /\ c.flags = 0 /\ x.kind \in {"write", "writebit"}
              /\ Executed(h, x)
              /\ disturbed' = IF PageWrite(x)
                              THEN [g \in Host |-> disturbed[g] \cup {x.addr}]
                              ELSE disturbed
        /\ UNCHANGED <<upper, ncalls>>

RegNext ==
    \E h \in Host :
        \/ \E s \in Subnet :
              \/ osd_cl_scm_cpus_start(h, s) \/ osd_cl_scm_cpus_stop(h, s)
              \/ osd_cl_scm_get_subnetinfo(h, s)
              \/ osd_hostmod_get_modules(h, s) \/ osd_memaccess_find_memories(h, s)
        \/ \E a \in Target :
              \/ \E enabled \in BOOLEAN : osd_hostmod_mod_set_event_active(h, a, enabled)
              \/ osd_cl_stm_get_desc(h, a) \/ osd_cl_ctm_get_desc(h, a)
              \/ osd_cl_cdm_get_desc(h, a) \/ osd_cl_dem_uart_get_desc(h, a)
        \/ \E cdm \in CDMs, reg_addr \in 0 .. (2 * SPR_PAGE - 1) :
              \/ cl_cdm_cpureg_read(h, cdm, reg_addr)
              \/ cl_cdm_cpureg_write(h, cdm, reg_addr)
        \/ AccessOK(h) \/ AccessFails(h)

RegSpec == RegInit /\ [][RegNext]_regVars
-----------------------------------------------------------------------------
(* An access of a CPU register that succeeds reaches the register that was *)
(* asked for, through whatever accesses the page was selected before, as   *)
(* long as no other host and no failed access has changed the page.        *)
RegisterReached ==
    \A h \in Host : LET c == client[h] IN
        c.op = "cpureg" /\ c.rv = "OK" /\ disturbed[h] = {} => Last(c.vals) = c.arg

(* Whatever the hosts do at the same time, only the bits that the library  *)
(* sets ever change in a control register.                                 *)
OtherBitsKept ==
    [][\A a \in DOMAIN Device : \A r \in DOMAIN Device[a] :
          \/ r = <<"CORE_REG_UPPER", 0>> \/ dev'[a][r] = dev[a][r]
          \/ \A mask \in {1, 2, 4, 8} \ {IF r[1] = "CS" THEN 1 ELSE 2} :
                (dev'[a][r] \div mask) % 2 = (dev[a][r] \div mask) % 2]_regVars

(* An enumeration of subnet 0 that succeeds describes every module; one    *)
(* that is partial marks each module it could not describe. In the other   *)
(* subnets nothing is ever described, and the enumeration succeeds.        *)
ModulesDescribed ==
    \A h \in Host : LET c == client[h] IN
        c.op = "get_modules" /\ c.rv \in {"OK", "PARTIAL_RESULT"} =>
            \A l \in 0 .. (Device[Scm(c.arg)][<<"NUM_MOD", 0>>] - 1) :
                IF c.arg # 0 THEN c.mods[l + 1] = NoModule
                ELSE \/ c.mods[l + 1] = Described(l)
                     \/ c.rv # "OK" /\ c.mods[l + 1] = [addr |-> l, vals |-> <<0, 0, 0>>]

(* The regions a memory descriptor has after these values were read.       *)
RegionsOf(vals) ==
    [i \in 1 .. vals[3] |->
        LET at(k) == 3 + (2 * (i - 1) + k) * REGION_WORDS
            value(k) == IF Len(vals) < at(k + 1) THEN 0
                        ELSE RegionValue(SubSeq(vals, at(k) + 1, at(k + 1)))
        IN  [baseaddr |-> value(0), memsize |-> value(1)]]

(* When the memories are said to be found, every memory of subnet 0 is     *)
(* there and has the regions of the device; and when that failed, either   *)
(* nothing is returned or some memory is not described completely.         *)
MemoriesFound ==
    \A h \in Host : LET c == client[h] IN
        c.op = "find_memories" /\ c.rv # "" =>
            /\ c.rv = "OK" => c.found
            /\ c.rv = "OK" /\ c.arg = 0 =>
                  /\ {c.mems[i].addr : i \in DOMAIN c.mems} =
                        {a \in DOMAIN Device : a < LOCALS /\ is_supported_mam(Described(a))}
                  /\ \A i \in DOMAIN c.mems :
                        RegionsOf(c.mems[i].vals) = MemoryMap[c.mems[i].addr]
            /\ c.rv = "PARTIAL_RESULT" /\ c.found =>
                  \E i \in DOMAIN c.mems : LET v == c.mems[i].vals IN
                     Len(v) < 3 \/ RegionsOf(v) # MemoryMap[c.mems[i].addr]

(* A descriptor is only returned for a module of the right type, and holds *)
(* what the module's registers say.                                        *)
DescriptorIsOfType ==
    \A h \in Host : LET c == client[h] IN
        c.op \in DOMAIN DescRegs /\ c.rv = "OK" =>
            /\ TypeOf(c.arg) = Types[c.op]
            /\ \A i \in DOMAIN DescRegs[c.op] : LET r == DescRegs[c.op][i] IN
                  r = "CORE_REG_UPPER" \/ c.vals[i] = Device[c.arg][<<r, 0>>]

(* What the library has found in the device is what is there.              *)
FoundIsThere == RegTypeOK /\ ModulesDescribed /\ MemoriesFound /\ DescriptorIsOfType
=============================================================================
