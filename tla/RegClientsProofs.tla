--------------------------- MODULE RegClientsProofs ---------------------------
(***************************************************************************)
(* For any hosts, subnets and devices, any number of calls and failing     *)
(* accesses: what the clients find is what is in the device, a CPU         *)
(* register access reaches its register, and no other bit of a control     *)
(* register is changed.                                                    *)
(***************************************************************************)
EXTENDS RegClients, WellFoundedInduction, TLAPS

(* Registers that no client ever writes.                                   *)
Steady(reg) == reg[1] \notin {"CS", "SYSRST"} /\ reg # <<"CORE_REG_UPPER", 0>>

(* What an access finds in the device as it was first.                     *)
Val(x) == Device[x.addr][x.reg]

(* The bit of a control register that the library sets.                    *)
BitOf(name) == IF name = "CS" THEN 1 ELSE 2

Page == <<"CORE_REG_UPPER", 0>>

(* A register value without a bit.                                         *)
Rest(v, mask) == v - (IF (v \div mask) % 2 = 1 THEN mask ELSE 0)

(* The values a register can have: a page is any word, a control register  *)
(* has all its bits but one, the others are as they were.                  *)
Keeps(a, r, v) ==
    /\ v \in 0 .. (WORD - 1)
    /\ Steady(r) => v = Device[a][r]
    /\ r[1] \in {"CS", "SYSRST"} =>
          Rest(v, BitOf(r[1])) = Rest(Device[a][r], BitOf(r[1]))

DevInv ==
    /\ DOMAIN dev = DOMAIN Device
    /\ \A a \in DOMAIN Device :
          /\ DOMAIN dev[a] = DOMAIN Device[a]
          /\ \A r \in DOMAIN Device[a] : Keeps(a, r, dev[a][r])

(* A host that nobody has disturbed knows the page of a CDM.               *)
PageInv ==
    /\ upper \in [Host -> [CDMs -> Nat \cup {Unset}]]
    /\ disturbed \in [Host -> SUBSET CDMs]
    /\ \A h \in Host : \A cdm \in CDMs \ disturbed[h] :
          upper[h][cdm] # Unset => dev[cdm][Page] = upper[h][cdm]

BoundInv == ncalls \in 0 .. MaxRegCalls /\ nfails \in 0 .. MaxFails

(* Accesses that read a register that is there.                            *)
Registers == UNION {DOMAIN Device[a] : a \in DOMAIN Device}
Reads ==
    {x \in [kind : {"read"}, addr : DOMAIN Device, reg : Registers] :
        x.reg \in DOMAIN Device[x.addr] /\ x.reg[1] # "SPR"}

(* The first values after base are the ones of the registers in full.      *)
HasRead(vals, full, base) ==
    \A i \in 1 .. (Len(vals) - base) :
        Steady(full[i].reg) => vals[base + i] = Val(full[i])

(* A call is in the middle of reading the registers of full.               *)
Past(c, base) == Len(c.vals) - base

Reading(c, full, base) ==
    LET n == Past(c, base) IN
    /\ n \in 0 .. (Len(full) - 1)
    /\ c.group \in Seq(Reads) /\ Len(c.group) = Len(full) - n
    /\ \A i \in 1 .. Len(c.group) : c.group[i] = full[n + i]
    /\ HasRead(c.vals, full, base)

SettingBit(c) ==
    \E a \in DOMAIN Device, name \in {"CS", "SYSRST"}, on \in BOOLEAN :
        LET full == osd_hostmod_reg_setbit(a, name, BitOf(name), on) IN
        /\ <<name, 0>> \in DOMAIN Device[a]
        /\ \/ c.group = full /\ c.vals = <<>>
           \/ /\ c.group = <<full[2]>> /\ Len(c.vals) = 1
              /\ Keeps(a, <<name, 0>>, c.vals[1])

(* Once the page of a CDM is selected, the host knows it.                  *)
AccessingCpu(c, up) ==
    /\ c.arg \in Nat /\ c.arg \div SPR_PAGE < WORD
    /\ \E cdm \in CDMs, kind \in {"read", "spr"} :
          \/ c.group = <<W(cdm, "CORE_REG_UPPER", c.arg \div SPR_PAGE),
                         Spr(kind, cdm, c.arg)>>
          \/ c.group = <<Spr(kind, cdm, c.arg)>> /\ up[cdm] = c.arg \div SPR_PAGE

SubnetRegs(s) ==
    <<R(Scm(s), "VENDOR_ID", 0), R(Scm(s), "DEVICE_ID", 0), R(Scm(s), "MAX_PKT_LEN", 0)>>

Number(s) == Device[Scm(s)][<<"NUM_MOD", 0>>]

Unknown(a) == [addr |-> a, vals |-> <<0, 0, 0>>]

(* The first k modules have been described. In a subnet other than 0 the   *)
(* loop does not run.                                                      *)
FirstModules(c, k) ==
    /\ c.arg \in Subnet
    /\ c.mods \in Seq([addr : Nat, vals : Seq(Int)]) /\ Len(c.mods) = Number(c.arg)
    /\ \A i \in 1 .. Number(c.arg) :
          IF c.arg = 0 /\ i <= k
          THEN c.mods[i] = Described(i - 1) \/ (c.partial /\ c.mods[i] = Unknown(i - 1))
          ELSE c.mods[i] = NoModule

IsMemory(a) == is_supported_mam(Described(a))

Right(m) == Len(m.vals) >= 3 /\ RegionsOf(m.vals) = MemoryMap[m.addr]

(* The memories with addresses below k have been described.                *)
FirstMemories(c, k) ==
    /\ c.mems \in Seq([addr : Nat, vals : Seq(Int)])
    /\ {c.mems[i].addr : i \in DOMAIN c.mems} = {a \in 0 .. (k - 1) : IsMemory(a)}
    /\ ~c.partial => \A i \in DOMAIN c.mems : Right(c.mems[i])
    /\ c.partial => \E i \in DOMAIN c.mems : ~Right(c.mems[i])

Counting(c) ==
    /\ c.arg \in Subnet /\ c.vals = <<>> /\ c.group = <<R(Scm(c.arg), "NUM_MOD", 0)>>
    /\ c.at = 0 /\ c.mems = <<>> /\ ~c.partial

DescribingModules(c) ==
    /\ c.arg = 0 /\ c.mems = <<>> /\ c.at \in 1 .. Number(0)
    /\ FirstModules(c, c.at - 1)
    /\ Reading(c, osd_hostmod_mod_describe(c.at - 1), 0)

(* What has to be read of a memory.                                        *)
Regions(a) == Device[a][<<"REGIONS", 0>>]
AllDescribed(c) == \A i \in 1 .. Number(0) : c.mods[i] = Described(i - 1)

ReadingMemory(c) ==
    LET a == c.at - 2 IN
    /\ c.op = "find_memories" /\ c.arg = 0 /\ c.at \in 2 .. (Number(0) + 1)
    /\ FirstModules(c, Number(0)) /\ AllDescribed(c) /\ IsMemory(a)
    /\ FirstMemories(c, a)
    /\ \/ Reading(c, MamGroup(Described(a)), 0)
       \/ /\ Regions(a) > 0 /\ Len(c.vals) >= 3 /\ c.vals[3] = Regions(a)
          /\ Reading(c, RegionGroup(a, Regions(a)), 3)

DescOps == DOMAIN DescRegs

CheckingType(c) ==
    /\ c.op \in DescOps /\ c.arg \in DOMAIN Device
    /\ Reading(c, osd_hostmod_mod_describe(c.arg), 0)

DescGroup(op, a) == [i \in DOMAIN DescRegs[op] |-> R(a, DescRegs[op][i], 0)]

ReadingDesc(c) ==
    /\ c.op \in DescOps /\ c.arg \in DOMAIN Device /\ TypeOf(c.arg) = Types[c.op]
    /\ Reading(c, DescGroup(c.op, c.arg), 0)

(* Where a call can be.                                                    *)
Underway(c, up) ==
    \/ c.stage = "" /\ c.op = "setbit" /\ SettingBit(c)
    \/ c.stage = "" /\ c.op = "cpureg" /\ AccessingCpu(c, up)
    \/ c.stage = "" /\ c.op = "subnetinfo" /\ \E s \in Subnet : Reading(c, SubnetRegs(s), 0)
    \/ c.op \in {"get_modules", "find_memories"} /\ c.stage = "count" /\ Counting(c)
    \/ c.op \in {"get_modules", "find_memories"} /\ c.stage = "describe" /\ DescribingModules(c)
    \/ c.stage = "mam" /\ ReadingMemory(c)
    \/ c.stage = "type" /\ CheckingType(c)
    \/ c.stage = "desc" /\ ReadingDesc(c)

(* FoundIsThere for one call.                                              *)
ModulesOf(c) ==
    c.op = "get_modules" /\ c.rv \in {"OK", "PARTIAL_RESULT"} =>
        \A l \in 0 .. (Number(c.arg) - 1) :
            IF c.arg # 0 THEN c.mods[l + 1] = NoModule
            ELSE c.mods[l + 1] = Described(l) \/ (c.rv # "OK" /\ c.mods[l + 1] = Unknown(l))

MemoriesOf(c) ==
    c.op = "find_memories" /\ c.rv # "" =>
        /\ c.rv = "OK" => c.found
        /\ c.rv = "OK" /\ c.arg = 0 =>
              /\ {c.mems[i].addr : i \in DOMAIN c.mems} =
                    {a \in DOMAIN Device : a < LOCALS /\ IsMemory(a)}
              /\ \A i \in DOMAIN c.mems : RegionsOf(c.mems[i].vals) = MemoryMap[c.mems[i].addr]
        /\ c.rv = "PARTIAL_RESULT" /\ c.found =>
              \E i \in DOMAIN c.mems :
                  \/ Len(c.mems[i].vals) < 3
                  \/ RegionsOf(c.mems[i].vals) # MemoryMap[c.mems[i].addr]

DescOf(c) ==
    c.op \in DescOps /\ c.rv = "OK" =>
        /\ TypeOf(c.arg) = Types[c.op]
        /\ \A i \in DOMAIN DescRegs[c.op] :
              \/ DescRegs[c.op][i] = "CORE_REG_UPPER"
              \/ c.vals[i] = Device[c.arg][<<DescRegs[c.op][i], 0>>]

Results == {"OK", "ERR", "WRONG_MODULE", "PARTIAL_RESULT"}

CallInv(c, up) ==
    /\ DOMAIN c = DOMAIN NoCall
    /\ c.vals \in Seq(Int)
    /\ \/ c.rv = "" /\ Underway(c, up)
       \/ c.rv \in Results /\ ModulesOf(c) /\ MemoriesOf(c) /\ DescOf(c)

Inv ==
    /\ DevInv /\ PageInv /\ BoundInv
    /\ DOMAIN client = Host
    /\ \A h \in Host : CallInv(client[h], upper[h])
    /\ RegisterReached
-----------------------------------------------------------------------------
(* The device.                                                             *)
LEMMA Numbers ==
    /\ LOCALS \in Nat /\ LOCALS > 0
    /\ WORD \in Nat /\ WORD > 0 /\ WORD % 4 = 0
    /\ REGION_WORDS \in Nat /\ REGION_WORDS > 0
    /\ SPR_PAGE \in Nat /\ SPR_PAGE > 0
    /\ MaxRegCalls \in Nat /\ MaxFails \in Nat
BY DeviceAssumption

LEMMA Addresses ==
    /\ Subnet \subseteq Nat /\ DOMAIN Device \subseteq Nat /\ Target \subseteq DOMAIN Device
BY DeviceAssumption

LEMMA Words ==
    ASSUME NEW a \in DOMAIN Device, NEW r \in DOMAIN Device[a]
    PROVE  Device[a][r] \in 0 .. (WORD - 1)
BY DeviceAssumption

LEMMA EveryModule ==
    ASSUME NEW a \in DOMAIN Device
    PROVE  Has(a, "VENDOR") /\ Has(a, "TYPE") /\ Has(a, "VERSION") /\ Has(a, "CS")
BY DeviceAssumption

LEMMA EveryScm ==
    ASSUME NEW s \in Subnet
    PROVE  /\ Scm(s) \in DOMAIN Device
           /\ Has(Scm(s), "NUM_MOD") /\ Has(Scm(s), "SYSRST") /\ Has(Scm(s), "VENDOR_ID")
           /\ Has(Scm(s), "DEVICE_ID") /\ Has(Scm(s), "MAX_PKT_LEN")
           /\ Number(s) \in 1 .. LOCALS
<1>1. /\ Has(Scm(s), "NUM_MOD") /\ Has(Scm(s), "SYSRST") /\ Has(Scm(s), "VENDOR_ID")
      /\ Has(Scm(s), "DEVICE_ID") /\ Has(Scm(s), "MAX_PKT_LEN")
      /\ Number(s) \in 1 .. LOCALS
  BY DeviceAssumption DEF Number
<1>2. \A l \in 0 .. (LOCALS - 1) : osd_diaddr_build(s, l) \in DOMAIN Device <=> l < Number(s)
  BY DeviceAssumption DEF Number
<1>3. 0 \in 0 .. (LOCALS - 1) /\ 0 < Number(s)
  BY <1>1, Numbers
<1>4. osd_diaddr_build(s, 0) \in DOMAIN Device
  BY <1>2, <1>3
<1> QED BY <1>1, <1>4 DEF Scm

LEMMA Consecutive ==
    ASSUME 0 \in Subnet
    PROVE  /\ Number(0) \in Nat
           /\ \A a : (a \in DOMAIN Device /\ a < LOCALS) <=> a \in 0 .. (Number(0) - 1)
<1>1. \A l \in 0 .. (LOCALS - 1) : osd_diaddr_build(0, l) \in DOMAIN Device <=> l < Number(0)
  BY DeviceAssumption DEF Number
<1>2. \A l \in Nat : osd_diaddr_build(0, l) = l
  BY Numbers DEF osd_diaddr_build
<1>3. \A l \in 0 .. (LOCALS - 1) : l \in DOMAIN Device <=> l < Number(0)
  BY <1>1, <1>2
<1>4. Number(0) \in 1 .. LOCALS
  BY EveryScm
<1> QED BY <1>3, <1>4, Numbers, Addresses

LEMMA Typed ==
    ASSUME NEW a \in DOMAIN Device, NEW type \in DOMAIN DescRegs, TypeOf(a) = Types[type],
           NEW i \in DOMAIN DescRegs[type]
    PROVE  Has(a, DescRegs[type][i])
BY DeviceAssumption

LEMMA EveryCdm ==
    ASSUME NEW cdm \in CDMs
    PROVE  cdm \in DOMAIN Device /\ Page \in DOMAIN Device[cdm]
<1>1. cdm \in DOMAIN Device /\ TypeOf(cdm) = Types["CDM"]
  BY DEF CDMs
<1>2. "CDM" \in DOMAIN DescRegs /\ 2 \in DOMAIN DescRegs["CDM"]
      /\ DescRegs["CDM"][2] = "CORE_REG_UPPER"
  BY DEF DescRegs
<1> QED BY <1>1, <1>2, Typed DEF Has, Page

LEMMA EveryMemory ==
    ASSUME NEW a \in DOMAIN Device, IsMemory(a)
    PROVE  /\ Has(a, "AW") /\ Has(a, "DW") /\ Has(a, "REGIONS")
           /\ Regions(a) \in Nat
           /\ \A i \in 0 .. (Regions(a) * REGION_WORDS - 1) :
                 /\ <<"BASEADDR", i>> \in DOMAIN Device[a]
                 /\ <<"MEMSIZE", i>> \in DOMAIN Device[a]
           /\ MemoryMap[a] = [i \in 1 .. Regions(a) |->
                 [baseaddr |-> RegionValue(RegionWords(a, "BASEADDR", i - 1)),
                  memsize |-> RegionValue(RegionWords(a, "MEMSIZE", i - 1))]]
           /\ \A i \in 1 .. Regions(a) : MemoryMap[a][i].memsize # 0
<1>1. TypeOf(a) = Types.MAM
  BY DEF IsMemory, is_supported_mam, Described
<1>2. /\ Has(a, "AW") /\ Has(a, "DW") /\ Has(a, "REGIONS")
      /\ \A i \in 0 .. (Regions(a) * REGION_WORDS - 1) :
            {<<"BASEADDR", i>>, <<"MEMSIZE", i>>} \subseteq DOMAIN Device[a]
      /\ MemoryMap[a] = [i \in 1 .. Regions(a) |->
            [baseaddr |-> RegionValue(RegionWords(a, "BASEADDR", i - 1)),
             memsize |-> RegionValue(RegionWords(a, "MEMSIZE", i - 1))]]
      /\ \A i \in DOMAIN MemoryMap[a] : MemoryMap[a][i].memsize # 0
  BY <1>1, DeviceAssumption DEF Regions
<1>3. Regions(a) \in 0 .. (WORD - 1)
  BY <1>2, Words DEF Has, Regions
<1>4. DOMAIN MemoryMap[a] = 1 .. Regions(a)
  BY <1>2
<1>5. \A i \in 0 .. (Regions(a) * REGION_WORDS - 1) :
          <<"BASEADDR", i>> \in DOMAIN Device[a] /\ <<"MEMSIZE", i>> \in DOMAIN Device[a]
  BY <1>2
<1>6. \A i \in 1 .. Regions(a) : MemoryMap[a][i].memsize # 0
  BY ONLY <1>2, <1>4
<1>7. Regions(a) \in Nat
  BY ONLY <1>3, Numbers
<1> QED BY ONLY <1>2, <1>5, <1>6, <1>7
-----------------------------------------------------------------------------
(* Setting a bit leaves the others alone.                                  *)
LEMMA Halves ==
    ASSUME NEW v \in Nat
    PROVE  \E q \in Nat, r \in {0, 1} : v = 2 * q + r
<1>1. \E q \in Nat : q = v \div 2
  OBVIOUS
<1>2. PICK q \in Nat : q = v \div 2
  BY <1>1
<1>3. 2 * q <= v /\ v < 2 * q + 2
  BY <1>2
<1> QED BY <1>3

LEMMA HalfOf ==
    ASSUME NEW q \in Nat, NEW r \in {0, 1}
    PROVE  (2 * q + r) \div 2 = q /\ (2 * q + r) % 2 = r
OBVIOUS

LEMMA Digits ==
    ASSUME NEW v \in Nat
    PROVE  \E q \in Nat, s \in {0, 1}, r \in {0, 1} : v = 4 * q + 2 * s + r
<1>1. PICK p \in Nat, r \in {0, 1} : v = 2 * p + r
  BY Halves
<1>2. PICK q \in Nat, s \in {0, 1} : p = 2 * q + s
  BY Halves
<1> QED BY <1>1, <1>2

LEMMA BitsOf ==
    ASSUME NEW q \in Nat, NEW s \in {0, 1}, NEW r \in {0, 1}, NEW v,
           v = 4 * q + 2 * s + r
    PROVE  /\ (v \div 1) % 2 = r /\ (v \div 2) % 2 = s
           /\ v \div 4 = q /\ v \div 8 = q \div 2
<1>1. v \in Nat /\ 2 * q + s \in Nat /\ v = 2 * (2 * q + s) + r
  OBVIOUS
<1>2. v \div 2 = 2 * q + s /\ v % 2 = r
  BY <1>1, HalfOf
<1>3. (2 * q + s) % 2 = s
  BY HalfOf
<1>4. v \div 1 = v
  BY <1>1
<1>5. v \div 4 = q
  OBVIOUS
<1>6. v \div 8 = q \div 2
  <2>1. PICK p \in Nat, t \in {0, 1} : q = 2 * p + t
    BY Halves
  <2>2. q \div 2 = p
    BY <2>1
  <2>3. v = 8 * p + (4 * t + 2 * s + r) /\ 4 * t + 2 * s + r \in 0 .. 7
    BY <2>1
  <2>4. v \div 8 = p
    BY <2>3
  <2> QED BY <2>2, <2>4
<1> QED BY <1>2, <1>3, <1>4, <1>5, <1>6

LEMMA RestOne ==
    ASSUME NEW q \in Nat, NEW s \in {0, 1}, NEW r \in {0, 1}, NEW v,
           v = 4 * q + 2 * s + r
    PROVE  Rest(v, 1) = 4 * q + 2 * s
<1>1. (v \div 1) % 2 = r
  BY BitsOf
<1> QED BY <1>1 DEF Rest

LEMMA RestTwo ==
    ASSUME NEW q \in Nat, NEW s \in {0, 1}, NEW r \in {0, 1}, NEW v,
           v = 4 * q + 2 * s + r
    PROVE  Rest(v, 2) = 4 * q + r
<1>1. (v \div 2) % 2 = s
  BY BitsOf
<1> QED BY <1>1 DEF Rest

LEMMA SetBitIs ==
    ASSUME NEW v, NEW mask, NEW on \in BOOLEAN
    PROVE  \E b \in {0, mask} : SetBit(v, mask, on) = Rest(v, mask) + b
BY DEF SetBit, Rest

LEMMA WordEnds ==
    ASSUME NEW q \in Nat, 4 * q < WORD
    PROVE  4 * q + 3 < WORD
BY Numbers

LEMMA BitSet ==
    ASSUME NEW v \in 0 .. (WORD - 1), NEW m \in {1, 2}, NEW on \in BOOLEAN
    PROVE  /\ SetBit(v, m, on) \in 0 .. (WORD - 1)
           /\ Rest(SetBit(v, m, on), m) = Rest(v, m)
<1>1. v \in Nat /\ v < WORD /\ WORD \in Nat
  BY Numbers
<1>2. PICK q \in Nat, s \in {0, 1}, r \in {0, 1} : v = 4 * q + 2 * s + r
  BY <1>1, Digits
<1>3. 4 * q + 3 < WORD
  BY <1>1, <1>2, WordEnds
<1>4. PICK b \in {0, m} : SetBit(v, m, on) = Rest(v, m) + b
  BY SetBitIs
<1>5. CASE m = 1
  <2>1. Rest(v, 1) = 4 * q + 2 * s
    BY <1>2, RestOne
  <2>2. b \in {0, 1} /\ SetBit(v, 1, on) = 4 * q + 2 * s + b
    BY <1>4, <1>5, <2>1
  <2>3. Rest(SetBit(v, 1, on), 1) = 4 * q + 2 * s
    BY <2>2, RestOne
  <2> QED BY <1>1, <1>3, <1>5, <2>1, <2>2, <2>3
<1>6. CASE m = 2
  <2>1. Rest(v, 2) = 4 * q + r
    BY <1>2, RestTwo
  <2>2. PICK d \in {0, 1} : b = 2 * d
    BY <1>6
  <2>3. SetBit(v, 2, on) = 4 * q + 2 * d + r
    BY <1>4, <1>6, <2>1, <2>2
  <2>4. Rest(SetBit(v, 2, on), 2) = 4 * q + r
    BY <2>3, RestTwo
  <2> QED BY <1>1, <1>3, <1>6, <2>1, <2>3, <2>4
<1> QED BY <1>5, <1>6

LEMMA OtherBits ==
    ASSUME NEW v \in Nat, NEW w \in Nat, NEW m \in {1, 2},
           Rest(v, m) = Rest(w, m),
           NEW mask \in {1, 2, 4, 8} \ {m}
    PROVE  (v \div mask) % 2 = (w \div mask) % 2
<1>1. PICK q \in Nat, s \in {0, 1}, r \in {0, 1} : v = 4 * q + 2 * s + r
  BY Digits
<1>2. PICK p \in Nat, t \in {0, 1}, u \in {0, 1} : w = 4 * p + 2 * t + u
  BY Digits
<1>3. /\ (v \div 1) % 2 = r /\ (v \div 2) % 2 = s
      /\ v \div 4 = q /\ v \div 8 = q \div 2
  BY <1>1, BitsOf, ZenonT(60)
<1>4. /\ (w \div 1) % 2 = u /\ (w \div 2) % 2 = t
      /\ w \div 4 = p /\ w \div 8 = p \div 2
  BY <1>2, BitsOf, ZenonT(60)
<1>5. CASE m = 1
  <2>1. Rest(v, 1) = 4 * q + 2 * s /\ Rest(w, 1) = 4 * p + 2 * t
    BY <1>1, <1>2, RestOne
  <2>2. 4 * q + 2 * s = 4 * p + 2 * t
    BY <1>5, <2>1
  <2>3. q = p /\ s = t
    BY <2>2
  <2>4. mask \in {2, 4, 8}
    BY <1>5
  <2> QED BY <1>3, <1>4, <2>3, <2>4
<1>6. CASE m = 2
  <2>1. Rest(v, 2) = 4 * q + r /\ Rest(w, 2) = 4 * p + u
    BY <1>1, <1>2, RestTwo
  <2>2. 4 * q + r = 4 * p + u
    BY <1>6, <2>1
  <2>3. q = p /\ r = u
    BY <2>2
  <2>4. mask \in {1, 4, 8}
    BY <1>6
  <2> QED BY <1>3, <1>4, <2>3, <2>4
<1> QED BY <1>5, <1>6
-----------------------------------------------------------------------------
(* Reading a sequence of registers.                                        *)

(* The access reads a register that is there.                              *)
Known(x) ==
    /\ x.kind = "read" /\ x.addr \in DOMAIN Device /\ x.reg \in DOMAIN Device[x.addr]
    /\ x.reg[1] # "SPR"

(* The value is the one the device had first, if nobody writes it.         *)
Answers(x, v) == Steady(x.reg) => v = Val(x)

LEMMA KnownAnswer ==
    ASSUME DevInv, NEW x, Known(x)
    PROVE  /\ Answered(x) = dev[x.addr][x.reg] /\ Answered(x) \in 0 .. (WORD - 1)
           /\ Answered(x) \in Int
           /\ Answers(x, Answered(x))
<1>1. Answered(x) = dev[x.addr][x.reg]
  BY DEF Known, Answered
<1>2. Keeps(x.addr, x.reg, dev[x.addr][x.reg])
  BY DEF Known, DevInv
<1> QED BY <1>1, <1>2, Numbers DEF Keeps, Val, Answers

LEMMA FunctionIsSeq ==
    ASSUME NEW S, NEW m \in Nat, NEW f, f \in [1 .. m -> S]
    PROVE  f \in Seq(S) /\ Len(f) = m
OBVIOUS

LEMMA Shift ==
    ASSUME NEW m \in Nat, NEW n \in Nat, NEW i \in 1 .. (m - 1)
    PROVE  i + 1 \in 1 .. m /\ n + (i + 1) = (n + 1) + i
OBVIOUS

LEMMA ReadHead ==
    ASSUME NEW c, NEW full, NEW base \in Nat, Len(full) \in Nat, c.vals \in Seq(Int),
           Reading(c, full, base)
    PROVE  /\ Past(c, base) + 1 \in 1 .. Len(full) /\ Past(c, base) \in Nat
           /\ Head(c.group) = full[Past(c, base) + 1]
           /\ Len(c.group) = Len(full) - Past(c, base) /\ Len(c.group) \in Nat /\ Len(c.group) >= 1
           /\ Tail(c.group) \in Seq(Reads) /\ Len(Tail(c.group)) = Len(c.group) - 1
           /\ \A i \in 1 .. (Len(c.group) - 1) : 
                 Tail(c.group)[i] = full[(Past(c, base) + 1) + i]
<1>0. PICK n : n = Past(c, base)
  OBVIOUS
<1>1. /\ n \in 0 .. (Len(full) - 1) /\ n + 1 \in 1 .. Len(full)
      /\ c.group \in Seq(Reads) /\ Len(c.group) = Len(full) - n
      /\ Len(c.group) \in Nat /\ Len(c.group) >= 1
      /\ \A i \in 1 .. Len(c.group) : c.group[i] = full[n + i]
      /\ n \in Nat
  BY <1>0 DEF Reading
<1>2. Head(c.group) = c.group[1] /\ 1 \in 1 .. Len(c.group)
  BY ONLY <1>1
<1>3. /\ Tail(c.group) \in Seq(Reads) /\ Len(Tail(c.group)) = Len(c.group) - 1
      /\ \A i \in 1 .. (Len(c.group) - 1) : Tail(c.group)[i] = c.group[i + 1]
  BY ONLY <1>1
<1>4. \A i \in 1 .. (Len(c.group) - 1) : Tail(c.group)[i] = full[(n + 1) + i]
  <2> TAKE i \in 1 .. (Len(c.group) - 1)
  <2>1. i + 1 \in 1 .. Len(c.group) /\ n + (i + 1) = (n + 1) + i
    BY ONLY <1>1, Shift, Len(full) \in Nat, i \in 1 .. (Len(c.group) - 1)
  <2>2. c.group[i + 1] = full[n + (i + 1)]
    BY ONLY <1>1, <2>1
  <2> QED BY ONLY <1>3, <2>1, <2>2, i \in 1 .. (Len(c.group) - 1)
<1> QED BY ONLY <1>0, <1>1, <1>2, <1>3, <1>4

LEMMA ReadOn ==
    ASSUME NEW c, NEW full, NEW base \in Nat, Len(full) \in Nat, c.vals \in Seq(Int),
           Reading(c, full, base),
           NEW v \in Int,
           Answers(Head(c.group), v),
           NEW d, d.vals = Append(c.vals, v), d.group = Tail(c.group)
    PROVE  /\ d.vals \in Seq(Int) /\ Len(d.vals) = Len(c.vals) + 1
           /\ \A i \in 1 .. Len(c.vals) : d.vals[i] = c.vals[i]
           /\ HasRead(d.vals, full, base)
           /\ Len(c.group) > 1 => Reading(d, full, base)
           /\ ~(Len(c.group) > 1) => Len(d.vals) = base + Len(full)
<1>0. PICK n : n = Past(c, base)
  OBVIOUS
<1>1. /\ n + 1 \in 1 .. Len(full) /\ Head(c.group) = full[n + 1]
      /\ Len(c.group) = Len(full) - n /\ Len(c.group) \in Nat
      /\ Tail(c.group) \in Seq(Reads) /\ Len(Tail(c.group)) = Len(c.group) - 1
      /\ \A i \in 1 .. (Len(c.group) - 1) : Tail(c.group)[i] = full[(n + 1) + i]
  BY ONLY <1>0, ReadHead, base \in Nat, Len(full) \in Nat, c.vals \in Seq(Int),
          Reading(c, full, base)
<1>2. /\ d.vals \in Seq(Int) /\ Len(d.vals) = Len(c.vals) + 1
      /\ d.vals[Len(c.vals) + 1] = v
      /\ \A i \in 1 .. Len(c.vals) : d.vals[i] = c.vals[i]
  BY ONLY c.vals \in Seq(Int), v \in Int, d.vals = Append(c.vals, v)
<1>3. HasRead(c.vals, full, base)
  BY DEF Reading
<1>4. /\ Len(d.vals) - base = n + 1 /\ Len(c.vals) = base + n /\ n \in Int
      /\ Len(c.vals) \in Nat /\ Len(d.vals) = base + (n + 1)
  BY ONLY <1>0, <1>2, base \in Nat, c.vals \in Seq(Int) DEF Past
<1>5. HasRead(d.vals, full, base)
  <2> SUFFICES ASSUME NEW i \in 1 .. (n + 1), Steady(full[i].reg)
               PROVE  d.vals[base + i] = Val(full[i])
    BY <1>4 DEF HasRead
  <2>1. CASE i = n + 1
    <3>1. base + i = Len(c.vals) + 1
      BY ONLY <1>4, <2>1, base \in Nat
    <3>2. v = Val(full[i])
      BY <1>1, <2>1 DEF Answers
    <3> QED BY ONLY <1>2, <3>1, <3>2
  <2>2. CASE i # n + 1
    <3>1. i \in 1 .. (Len(c.vals) - base) /\ base + i \in 1 .. Len(c.vals)
      BY ONLY <1>4, <2>2, base \in Nat, i \in 1 .. (n + 1)
    <3>2. c.vals[base + i] = Val(full[i])
      BY <1>3, <3>1 DEF HasRead
    <3> QED BY <1>2, <3>1, <3>2
  <2> QED BY <2>1, <2>2
<1>6. ASSUME Len(c.group) > 1 PROVE Reading(d, full, base)
  <2>1. n + 1 \in 0 .. (Len(full) - 1) /\ Len(c.group) - 1 = Len(full) - (n + 1)
    BY ONLY <1>1, <1>4, <1>6, Len(full) \in Nat
  <2>2. /\ d.group \in Seq(Reads) /\ Len(d.group) = Len(full) - (n + 1)
        /\ \A i \in 1 .. Len(d.group) : d.group[i] = full[(n + 1) + i]
    BY ONLY <1>1, <2>1, d.group = Tail(c.group)
  <2> QED BY ONLY <1>4, <1>5, <2>1, <2>2 DEF Reading, Past
<1>7. ASSUME ~(Len(c.group) > 1) PROVE Len(d.vals) = base + Len(full)
  <2>1. n + 1 = Len(full)
    BY ONLY <1>1, <1>4, <1>7, Len(full) \in Nat
  <2> QED BY ONLY <1>4, <2>1
<1> QED BY ONLY <1>2, <1>5, <1>6, <1>7
-----------------------------------------------------------------------------
(* The registers a call reads are there.                                   *)
LEMMA DescribeGroup ==
    ASSUME NEW a \in DOMAIN Device
    PROVE  /\ Len(osd_hostmod_mod_describe(a)) = 3
           /\ \A i \in 1 .. 3 : LET x == osd_hostmod_mod_describe(a)[i] IN
                 Known(x) /\ Steady(x.reg) /\ x.addr = a
BY EveryModule DEF osd_hostmod_mod_describe, R, Known, Steady, Has

LEMMA DescribedIs ==
    ASSUME NEW a \in DOMAIN Device, NEW vals \in Seq(Int), Len(vals) = 3,
           HasRead(vals, osd_hostmod_mod_describe(a), 0)
    PROVE  vals = Described(a).vals
<1> DEFINE full == osd_hostmod_mod_describe(a)
<1>1. \A i \in 1 .. 3 : Steady(full[i].reg)
  BY DescribeGroup
<1>2. \A i \in 1 .. 3 : vals[i] = Val(full[i])
  BY <1>1 DEF HasRead
<1>3. /\ Val(full[1]) = Device[a][<<"VENDOR", 0>>] /\ Val(full[2]) = TypeOf(a)
      /\ Val(full[3]) = Device[a][<<"VERSION", 0>>]
  BY DEF osd_hostmod_mod_describe, R, Val, TypeOf
<1>4. vals = <<vals[1], vals[2], vals[3]>>
  OBVIOUS
<1> QED BY <1>2, <1>3, <1>4 DEF Described

LEMMA DescribedType ==
    ASSUME NEW a \in DOMAIN Device
    PROVE  Described(a) \in [addr : Nat, vals : Seq(Int)]
<1>1. /\ Device[a][<<"VENDOR", 0>>] \in Int /\ TypeOf(a) \in Int
      /\ Device[a][<<"VERSION", 0>>] \in Int /\ a \in Nat
  BY EveryModule, Words, Addresses DEF Has, TypeOf
<1> QED BY <1>1 DEF Described

LEMMA CountGroup ==
    ASSUME NEW s \in Subnet
    PROVE  /\ Known(R(Scm(s), "NUM_MOD", 0)) /\ Steady(<<"NUM_MOD", 0>>)
           /\ Val(R(Scm(s), "NUM_MOD", 0)) = Number(s)
BY EveryScm DEF R, Known, Steady, Has, Number, Val

LEMMA SubnetGroup ==
    ASSUME NEW s \in Subnet
    PROVE  Len(SubnetRegs(s)) = 3 /\ \A i \in 1 .. 3 : Known(SubnetRegs(s)[i])
BY EveryScm DEF SubnetRegs, R, Known, Has

LEMMA MemoryGroup ==
    ASSUME NEW a \in DOMAIN Device, IsMemory(a)
    PROVE  /\ Len(MamGroup(Described(a))) = 3
           /\ \A i \in 1 .. 3 : LET x == MamGroup(Described(a))[i] IN
                 Known(x) /\ Steady(x.reg) /\ x.addr = a
           /\ Val(MamGroup(Described(a))[3]) = Regions(a)
<1>1. Described(a).addr = a
  BY DEF Described
<1>2. Has(a, "AW") /\ Has(a, "DW") /\ Has(a, "REGIONS")
  BY EveryMemory
<1>3. MamGroup(Described(a)) = <<R(a, "AW", 0), R(a, "DW", 0), R(a, "REGIONS", 0)>>
  BY <1>1 DEF MamGroup
<1> QED BY <1>2, <1>3 DEF R, Known, Steady, Has, Val, Regions

LEMMA DescriptorGroup ==
    ASSUME NEW op \in DescOps, NEW a \in DOMAIN Device, TypeOf(a) = Types[op]
    PROVE  /\ Len(DescGroup(op, a)) = Len(DescRegs[op]) /\ Len(DescRegs[op]) \in 0 .. 3
           /\ \A i \in 1 .. Len(DescRegs[op]) : LET x == DescGroup(op, a)[i] IN
                 /\ Known(x) /\ x.addr = a /\ x.reg = <<DescRegs[op][i], 0>>
                 /\ DescRegs[op][i] # "CORE_REG_UPPER" => Steady(x.reg)
                 /\ x.reg = Page => op = "CDM"
<1>1. /\ DOMAIN DescRegs[op] = 1 .. Len(DescRegs[op]) /\ Len(DescRegs[op]) \in 0 .. 3
      /\ \A i \in 1 .. Len(DescRegs[op]) :
            /\ DescRegs[op][i] \notin {"SPR", "CS", "SYSRST"}
            /\ DescRegs[op][i] = "CORE_REG_UPPER" => op = "CDM"
  BY DEF DescOps, DescRegs
<1>2. DescGroup(op, a) = [i \in 1 .. Len(DescRegs[op]) |-> R(a, DescRegs[op][i], 0)]
  BY <1>1 DEF DescGroup
<1>3. Len(DescGroup(op, a)) = Len(DescRegs[op])
  BY <1>1, <1>2
<1>4. \A i \in 1 .. Len(DescRegs[op]) : Has(a, DescRegs[op][i])
  BY <1>1, Typed DEF DescOps
<1>5. \A i \in 1 .. Len(DescRegs[op]) :
          DescGroup(op, a)[i] = R(a, DescRegs[op][i], 0)
  BY <1>2
<1>6. ASSUME NEW i \in 1 .. Len(DescRegs[op]), NEW x, x = DescGroup(op, a)[i]
      PROVE  /\ Known(x) /\ x.addr = a /\ x.reg = <<DescRegs[op][i], 0>>
             /\ DescRegs[op][i] # "CORE_REG_UPPER" => Steady(x.reg)
             /\ x.reg = Page => op = "CDM"
  <2>1. x.kind = "read" /\ x.addr = a /\ x.reg = <<DescRegs[op][i], 0>>
    <3>1. x = R(a, DescRegs[op][i], 0)
      BY ONLY <1>5, <1>6, i \in 1 .. Len(DescRegs[op])
    <3> QED BY ONLY <3>1 DEF R
  <2>2. x.reg[1] = DescRegs[op][i] /\ x.reg \in DOMAIN Device[a]
    BY <1>4, <2>1 DEF Has
  <2>3. x.reg = Page => DescRegs[op][i] = "CORE_REG_UPPER"
    BY <2>1 DEF Page
  <2> QED BY <1>1, <2>1, <2>2, <2>3 DEF Known, Steady
<1> QED BY <1>1, <1>3, <1>6
LEMMA ReadStart ==
    ASSUME NEW c, NEW full, full \in Seq(Reads), Len(full) > 0,
           c.group = full, NEW base, Len(c.vals) = base, base \in Nat
    PROVE  Reading(c, full, base)
<1>1. Past(c, base) = 0
  BY DEF Past
<1>2. Len(full) \in Nat /\ 0 \in 0 .. (Len(full) - 1) /\ Len(full) = Len(full) - 0
  BY ONLY full \in Seq(Reads), Len(full) > 0
<1>3. \A i \in 1 .. Len(full) : full[i] = full[0 + i]
  OBVIOUS
<1>4. HasRead(c.vals, full, base)
  BY DEF HasRead
<1> QED BY ONLY <1>1, <1>2, <1>3, <1>4, c.group = full, full \in Seq(Reads) DEF Reading

LEMMA ReadType ==
    ASSUME NEW a \in DOMAIN Device, NEW name, NEW i, <<name, i>> \in DOMAIN Device[a],
           name # "SPR"
    PROVE  R(a, name, i) \in Reads
<1>1. <<name, i>> \in Registers /\ <<name, i>>[1] # "SPR"
  BY DEF Registers
<1> QED BY <1>1 DEF R, Reads

LEMMA ReadKnown ==
    ASSUME NEW x, x \in Reads
    PROVE  Known(x)
BY DEF Reads, Known

LEMMA Triples ==
    ASSUME NEW S, NEW x \in S, NEW y \in S, NEW z \in S
    PROVE  <<x, y, z>> \in Seq(S) /\ Len(<<x, y, z>>) = 3
OBVIOUS

LEMMA GroupTypes ==
    ASSUME NEW a \in DOMAIN Device
    PROVE  /\ osd_hostmod_mod_describe(a) \in Seq(Reads)
           /\ IsMemory(a) => MamGroup(Described(a)) \in Seq(Reads)
<1>1. osd_hostmod_mod_describe(a) \in Seq(Reads)
  <2>1. /\ R(a, "VENDOR", 0) \in Reads /\ R(a, "TYPE", 0) \in Reads
        /\ R(a, "VERSION", 0) \in Reads
    BY EveryModule, ReadType DEF Has
  <2> QED BY ONLY <2>1, Triples DEF osd_hostmod_mod_describe
<1>2. ASSUME IsMemory(a) PROVE MamGroup(Described(a)) \in Seq(Reads)
  <2>1. R(a, "AW", 0) \in Reads /\ R(a, "DW", 0) \in Reads /\ R(a, "REGIONS", 0) \in Reads
    BY <1>2, EveryMemory, ReadType DEF Has
  <2>2. Described(a).addr = a
    BY DEF Described
  <2>3. MamGroup(Described(a)) = <<R(a, "AW", 0), R(a, "DW", 0), R(a, "REGIONS", 0)>>
    BY ONLY <2>2 DEF MamGroup
  <2> QED BY ONLY <2>1, <2>3, Triples
<1> QED BY <1>1, <1>2

LEMMA DescriptorGroupType ==
    ASSUME NEW op \in DescOps, NEW a \in DOMAIN Device, TypeOf(a) = Types[op]
    PROVE  DescGroup(op, a) \in Seq(Reads)
<1>1. /\ DOMAIN DescRegs[op] = 1 .. Len(DescRegs[op]) /\ Len(DescRegs[op]) \in Nat
      /\ \A i \in 1 .. Len(DescRegs[op]) : DescRegs[op][i] # "SPR"
  BY DEF DescOps, DescRegs
<1>2. \A i \in 1 .. Len(DescRegs[op]) : R(a, DescRegs[op][i], 0) \in Reads
  BY <1>1, ReadType, Typed DEF DescOps, Has
<1>3. DescGroup(op, a) \in [1 .. Len(DescRegs[op]) -> Reads]
  BY <1>1, <1>2 DEF DescGroup
<1> QED BY <1>1, <1>3, FunctionIsSeq

LEMMA SubnetGroupType ==
    ASSUME NEW s \in Subnet
    PROVE  SubnetRegs(s) \in Seq(Reads)
<1>1. /\ R(Scm(s), "VENDOR_ID", 0) \in Reads /\ R(Scm(s), "DEVICE_ID", 0) \in Reads
      /\ R(Scm(s), "MAX_PKT_LEN", 0) \in Reads
  BY EveryScm, ReadType DEF Has
<1> QED BY ONLY <1>1, Triples DEF SubnetRegs
-----------------------------------------------------------------------------
(* The words of the regions of a memory.                                   *)
LEMMA Divide ==
    ASSUME NEW a \in Nat, NEW b \in Nat \ {0}
    PROVE  \E q \in Nat, r \in 0 .. (b - 1) : a = q * b + r
<1>1. a \div b \in Nat /\ a % b \in 0 .. (b - 1)
  OBVIOUS
<1>2. a = (a \div b) * b + (a % b)
  OBVIOUS
<1> QED BY <1>1, <1>2

LEMMA Products ==
    ASSUME NEW p \in Nat, NEW q \in Nat, NEW b \in Nat
    PROVE  /\ p * b \in Nat /\ q * b \in Nat
           /\ p < q => p * b + b <= q * b
           /\ (p + 1) * b = p * b + b
           /\ p >= q => p * b >= q * b
<1>1. p * b \in Nat
  OBVIOUS
<1>2. q * b \in Nat
  OBVIOUS
<1>3. (p + 1) * b = p * b + b
  OBVIOUS
<1>4. p < q => p * b + b <= q * b
  OBVIOUS
<1>5. p >= q => p * b >= q * b
  OBVIOUS
<1> QED BY ONLY <1>1, <1>2, <1>3, <1>4, <1>5

NameOf(k) == IF k = 0 THEN "BASEADDR" ELSE "MEMSIZE"

(* The word w of the base address (k = 0) or the size (k = 1) of region i. *)
At(i, k) == (2 * (i - 1) + k) * REGION_WORDS

Total(n) == 2 * REGION_WORDS * n

LEMMA AtIs ==
    ASSUME NEW n \in Nat, NEW i \in 1 .. n, NEW k \in {0, 1}
    PROVE  /\ At(i, k) \in Nat /\ At(i, k) + REGION_WORDS <= Total(n)
           /\ At(i, k + 1) = At(i, k) + REGION_WORDS
           /\ At(n, 2) = Total(n) /\ Total(n) \in Nat
<1>1. 2 * (i - 1) + k \in Nat /\ 2 * n \in Nat /\ 2 * (i - 1) + k < 2 * n
  OBVIOUS
<1>2. PICK p \in Nat, q \in Nat : p = 2 * (i - 1) + k /\ q = 2 * n /\ p < q
  BY <1>1
<1>3. /\ p * REGION_WORDS \in Nat /\ p * REGION_WORDS + REGION_WORDS <= q * REGION_WORDS
      /\ (p + 1) * REGION_WORDS = p * REGION_WORDS + REGION_WORDS
      /\ q * REGION_WORDS \in Nat
  BY <1>2, Numbers, Products
<1>4. 2 * REGION_WORDS * n = q * REGION_WORDS
  BY <1>2, Numbers
<1>5. 2 * (i - 1) + (k + 1) = p + 1 /\ 2 * (n - 1) + 2 = q
  BY <1>2
<1> QED BY ONLY <1>2, <1>3, <1>4, <1>5 DEF At, Total

LEMMA AtTotal ==
    ASSUME NEW n \in Nat
    PROVE  Total(n) \in Nat /\ (3 + Total(n)) - 3 = Total(n)
BY Numbers, Products DEF Total

LEMMA RegionAt ==
    ASSUME NEW a, NEW n \in Nat, NEW i \in 1 .. n, NEW k \in {0, 1}, NEW w \in 1 .. REGION_WORDS
    PROVE  /\ At(i, k) + w \in 1 .. Total(n)
           /\ RegionGroup(a, n)[At(i, k) + w] = R(a, NameOf(k), (i - 1) * REGION_WORDS + w - 1)
<1>1. REGION_WORDS \in Nat /\ w \in Nat /\ w >= 1 /\ w <= REGION_WORDS
  BY Numbers
<1>2. PICK m \in Nat : m = At(i, k) /\ m + REGION_WORDS <= Total(n) /\ Total(n) \in Nat
  BY AtIs
<1>3. m + w \in 1 .. Total(n)
  BY ONLY <1>1, <1>2, m \in Nat
<1>4. PICK p \in Nat : p = 2 * (i - 1) + k
  OBVIOUS
<1>5. m + w - 1 = p * REGION_WORDS + (w - 1) /\ w - 1 \in 0 .. (REGION_WORDS - 1)
  BY <1>1, <1>2, <1>4 DEF At
<1>6. (m + w - 1) \div REGION_WORDS = p /\ (m + w - 1) % REGION_WORDS = w - 1
  <2>1. PICK x \in Int, b \in Nat, r \in Int :
            /\ x = m + w - 1 /\ b = REGION_WORDS /\ r = w - 1
            /\ r \in 0 .. (b - 1)
    BY <1>1, <1>5
  <2>2. x = p * b + r
    BY ONLY <1>5, <2>1
  <2>3. x \div b = p /\ x % b = r
    BY ONLY <2>2, <2>1, p \in Nat, b \in Nat
  <2> QED BY ONLY <2>1, <2>3
<1>7. p % 2 = k /\ p \div 2 = i - 1
  BY ONLY <1>4, HalfOf, i \in 1 .. n, n \in Nat, k \in {0, 1}
<1>8. RegionGroup(a, n)[m + w] =
          LET word == (m + w - 1) % REGION_WORDS
              number == (m + w - 1) \div REGION_WORDS
          IN  R(a, IF number % 2 = 0 THEN "BASEADDR" ELSE "MEMSIZE",
                (number \div 2) * REGION_WORDS + word)
  BY ONLY <1>3 DEF RegionGroup, Total
<1>9. RegionGroup(a, n)[m + w] = R(a, NameOf(k), (i - 1) * REGION_WORDS + (w - 1))
  BY ONLY <1>6, <1>7, <1>8 DEF NameOf
<1>10. (i - 1) * REGION_WORDS + (w - 1) = (i - 1) * REGION_WORDS + w - 1
  <2>1. (i - 1) * REGION_WORDS \in Int
    BY <1>1
  <2> QED BY ONLY <2>1, <1>1
<1> QED BY ONLY <1>2, <1>3, <1>9, <1>10

LEMMA RegionIndex ==
    ASSUME NEW n \in Nat, NEW j \in 1 .. Total(n)
    PROVE  \E i \in 1 .. n, k \in {0, 1}, w \in 1 .. REGION_WORDS : j = At(i, k) + w
<1>1. REGION_WORDS \in Nat \ {0} /\ REGION_WORDS \in Nat
  BY Numbers
<1>0. 2 * n \in Nat /\ 2 * REGION_WORDS * n = (2 * n) * REGION_WORDS
      /\ (2 * n) * REGION_WORDS \in Nat
  BY <1>1
<1>2. j - 1 \in Nat /\ j \in Nat /\ j <= (2 * n) * REGION_WORDS
  BY <1>0 DEF Total
<1>3. PICK p \in Nat, r \in 0 .. (REGION_WORDS - 1) : j - 1 = p * REGION_WORDS + r
  BY ONLY <1>1, <1>2, Divide
<1>4. p < 2 * n
  <2> SUFFICES ASSUME p >= 2 * n PROVE FALSE
    BY <1>0
  <2>1. p * REGION_WORDS >= (2 * n) * REGION_WORDS /\ p * REGION_WORDS \in Nat
    BY <1>0, <1>1, Products
  <2> QED BY ONLY <1>0, <1>1, <1>2, <1>3, <2>1, r \in 0 .. (REGION_WORDS - 1)
<1>5. PICK q \in Nat, k \in {0, 1} : p = 2 * q + k
  BY Halves
<1>6. q + 1 \in 1 .. n /\ (q + 1) - 1 = q
  BY ONLY <1>4, <1>5, n \in Nat, q \in Nat, k \in {0, 1}
<1>7. r + 1 \in 1 .. REGION_WORDS
  BY ONLY <1>1, r \in 0 .. (REGION_WORDS - 1)
<1>8. At(q + 1, k) = p * REGION_WORDS
  BY ONLY <1>5, <1>6 DEF At
<1>9. j = At(q + 1, k) + (r + 1)
  <2>1. p * REGION_WORDS \in Nat
    BY <1>1
  <2> QED BY ONLY <1>1, <1>2, <1>3, <1>8, <2>1, r \in 0 .. (REGION_WORDS - 1)
<1> QED BY ONLY <1>6, <1>7, <1>9, k \in {0, 1}

LEMMA SeqIs ==
    ASSUME NEW S, NEW q \in Seq(S)
    PROVE  q = [i \in 1 .. Len(q) |-> q[i]] /\ Len(q) \in Nat
OBVIOUS

LEMMA RegionGroupType ==
    ASSUME NEW a \in DOMAIN Device, IsMemory(a)
    PROVE  /\ RegionGroup(a, Regions(a)) \in Seq(Reads)
           /\ Len(RegionGroup(a, Regions(a))) = Total(Regions(a))
           /\ \A j \in 1 .. Total(Regions(a)) : LET x == RegionGroup(a, Regions(a))[j] IN
                 Steady(x.reg) /\ x.addr = a
<1>1. PICK n \in Nat : n = Regions(a)
  BY EveryMemory
<1>2. \A i \in 0 .. (n * REGION_WORDS - 1) :
          <<"BASEADDR", i>> \in DOMAIN Device[a] /\ <<"MEMSIZE", i>> \in DOMAIN Device[a]
  BY <1>1, EveryMemory
<1>3. ASSUME NEW i \in 1 .. n, NEW w \in 1 .. REGION_WORDS
      PROVE  (i - 1) * REGION_WORDS + w - 1 \in 0 .. (n * REGION_WORDS - 1)
  <2>1. REGION_WORDS \in Nat /\ w \in Nat /\ w >= 1 /\ w <= REGION_WORDS /\ i - 1 \in Nat
        /\ i - 1 < n
    BY Numbers
  <2>2. PICK u \in Nat, v \in Nat : u = (i - 1) * REGION_WORDS /\ v = n * REGION_WORDS
                                    /\ u + REGION_WORDS <= v
    BY ONLY <2>1, Products, n \in Nat
  <2> QED BY ONLY <2>1, <2>2
<1>4. ASSUME NEW j \in 1 .. Total(n), NEW x, x = RegionGroup(a, n)[j]
      PROVE  x \in Reads /\ Steady(x.reg) /\ x.addr = a
  <2>1. PICK i \in 1 .. n, k \in {0, 1}, w \in 1 .. REGION_WORDS : j = At(i, k) + w
    BY RegionIndex
  <2>2. PICK m : m = (i - 1) * REGION_WORDS + w - 1 /\ m \in 0 .. (n * REGION_WORDS - 1)
    BY <1>3
  <2>3. x = R(a, NameOf(k), m)
    BY <1>4, <2>1, <2>2, RegionAt
  <2>4. <<NameOf(k), m>> \in DOMAIN Device[a] /\ NameOf(k) \in {"BASEADDR", "MEMSIZE"}
    BY <1>2, <2>2 DEF NameOf
  <2>5. x \in Reads
    BY <2>3, <2>4, ReadType
  <2>6. x.reg = <<NameOf(k), m>> /\ x.addr = a
    BY <2>3 DEF R
  <2> QED BY <2>4, <2>5, <2>6 DEF Steady
<1>5. Total(n) \in Nat
  BY Numbers, Products DEF Total
<1>6. RegionGroup(a, n) \in [1 .. Total(n) -> Reads]
  <2>1. \A j \in 1 .. Total(n) : RegionGroup(a, n)[j] \in Reads
    BY <1>4
  <2>2. RegionGroup(a, n) = [j \in 1 .. Total(n) |-> RegionGroup(a, n)[j]]
    BY DEF RegionGroup, Total
  <2> QED BY ONLY <2>1, <2>2
<1>7. RegionGroup(a, n) \in Seq(Reads) /\ Len(RegionGroup(a, n)) = Total(n)
  BY ONLY <1>5, <1>6, FunctionIsSeq
<1> QED BY <1>1, <1>4, <1>7

(* What the descriptor of a memory makes of the words.                     *)
Part(vals, i, k) ==
    IF Len(vals) < 3 + At(i, k + 1) THEN 0
    ELSE RegionValue(SubSeq(vals, 3 + At(i, k) + 1, 3 + At(i, k + 1)))

LEMMA RegionsForm ==
    ASSUME NEW vals
    PROVE  RegionsOf(vals) = [i \in 1 .. vals[3] |->
               [baseaddr |-> Part(vals, i, 0), memsize |-> Part(vals, i, 1)]]
BY DEF RegionsOf, Part, At

LEMMA SubSeqForm ==
    ASSUME NEW s \in Seq(Int), NEW p \in Nat, NEW m \in Nat, p + m <= Len(s)
    PROVE  SubSeq(s, p + 1, p + m) = [w \in 1 .. m |-> s[p + w]]
<1>1. SubSeq(s, p + 1, p + m) \in Seq(Int) /\ Len(SubSeq(s, p + 1, p + m)) = m
  OBVIOUS
<1>2. \A w \in 1 .. m : SubSeq(s, p + 1, p + m)[w] = s[p + w]
  OBVIOUS
<1>3. SubSeq(s, p + 1, p + m) = [w \in 1 .. m |-> SubSeq(s, p + 1, p + m)[w]]
  BY ONLY <1>1, SeqIs
<1> QED BY ONLY <1>2, <1>3

(* All words of a memory have been read: the descriptor has its regions.   *)
LEMMA RegionsRight ==
    ASSUME NEW a \in DOMAIN Device, IsMemory(a),
           NEW vals \in Seq(Int), Len(vals) = 3 + Total(Regions(a)), vals[3] = Regions(a),
           HasRead(vals, RegionGroup(a, Regions(a)), 3)
    PROVE  RegionsOf(vals) = MemoryMap[a]
<1>1. PICK n \in Nat : n = Regions(a)
  BY EveryMemory
<1>2. /\ MemoryMap[a] = [i \in 1 .. n |->
            [baseaddr |-> RegionValue(RegionWords(a, "BASEADDR", i - 1)),
             memsize |-> RegionValue(RegionWords(a, "MEMSIZE", i - 1))]]
  BY <1>1, EveryMemory
<1>3. REGION_WORDS \in Nat
  BY Numbers
<1>4. ASSUME NEW j \in 1 .. Total(n) PROVE vals[3 + j] = Val(RegionGroup(a, n)[j])
  <2>1. Steady(RegionGroup(a, n)[j].reg)
    BY <1>1, RegionGroupType
  <2>2. Len(vals) - 3 = Total(n)
    BY <1>1, AtTotal
  <2> QED BY ONLY <1>1, <2>1, <2>2, HasRead(vals, RegionGroup(a, Regions(a)), 3),
               j \in 1 .. Total(n) DEF HasRead
<1>5. ASSUME NEW i \in 1 .. n, NEW k \in {0, 1}
      PROVE  Part(vals, i, k) = RegionValue(RegionWords(a, NameOf(k), i - 1))
  <2>1. PICK p \in Nat : /\ p = At(i, k) /\ p + REGION_WORDS <= Total(n) /\ Total(n) \in Nat
                         /\ At(i, k + 1) = p + REGION_WORDS
    BY AtIs
  <2>2. /\ ~(Len(vals) < 3 + At(i, k + 1))
        /\ 3 + At(i, k + 1) = (3 + p) + REGION_WORDS
        /\ 3 + p \in Nat /\ (3 + p) + REGION_WORDS <= Len(vals)
    <3>1. PICK t \in Nat, q \in Nat : t = Total(n) /\ q = At(i, k + 1) /\ q = p + REGION_WORDS
      BY <1>3, <2>1
    <3>2. Len(vals) = 3 + t /\ p + REGION_WORDS <= t
      BY ONLY <1>1, <2>1, <3>1, Len(vals) = 3 + Total(Regions(a))
    <3> QED BY ONLY <1>3, <3>1, <3>2, p \in Nat, SMTT(40)
  <2>3. SubSeq(vals, (3 + p) + 1, (3 + p) + REGION_WORDS)
            = [w \in 1 .. REGION_WORDS |-> vals[(3 + p) + w]]
    BY ONLY <1>3, <2>2, SubSeqForm, vals \in Seq(Int)
  <2>4. ASSUME NEW w \in 1 .. REGION_WORDS
        PROVE  vals[(3 + p) + w] = Device[a][<<NameOf(k), (i - 1) * REGION_WORDS + w - 1>>]
    <3>1. /\ p + w \in 1 .. Total(n)
          /\ RegionGroup(a, n)[p + w] = R(a, NameOf(k), (i - 1) * REGION_WORDS + w - 1)
      BY <2>1, RegionAt, ZenonT(60)
    <3>2. vals[3 + (p + w)] = Val(RegionGroup(a, n)[p + w])
      BY ONLY <1>4, <3>1
    <3>3. (3 + p) + w = 3 + (p + w)
      BY <1>3
    <3> QED BY ONLY <3>1, <3>2, <3>3 DEF Val, R
  <2>5. SubSeq(vals, (3 + p) + 1, (3 + p) + REGION_WORDS) = RegionWords(a, NameOf(k), i - 1)
    BY ONLY <2>3, <2>4 DEF RegionWords
  <2> QED BY ONLY <2>1, <2>2, <2>5 DEF Part
<1>6. \A i \in 1 .. n : /\ Part(vals, i, 0) = RegionValue(RegionWords(a, "BASEADDR", i - 1))
                        /\ Part(vals, i, 1) = RegionValue(RegionWords(a, "MEMSIZE", i - 1))
  BY <1>5 DEF NameOf
<1>7. RegionsOf(vals) = [i \in 1 .. n |->
          [baseaddr |-> Part(vals, i, 0), memsize |-> Part(vals, i, 1)]]
  BY <1>1, RegionsForm
<1> QED BY ONLY <1>2, <1>6, <1>7

(* A word is missing: the size of the last region is taken for zero.       *)
LEMMA RegionsWrong ==
    ASSUME NEW a \in DOMAIN Device, IsMemory(a),
           NEW vals, Len(vals) < 3 + Total(Regions(a)), vals[3] = Regions(a),
           Regions(a) > 0
    PROVE  RegionsOf(vals) # MemoryMap[a]
<1>0. PICK n \in Nat : n = Regions(a)
  BY EveryMemory
<1>1. n = Regions(a) /\ n \in 1 .. n
  BY <1>0
<1>2. At(n, 2) = Total(n)
  BY <1>1, AtIs
<1>3. Part(vals, n, 1) = 0
  <2>1. Len(vals) < 3 + At(n, 1 + 1)
    BY <1>1, <1>2
  <2> QED BY ONLY <2>1 DEF Part
<1>4. RegionsOf(vals) = [i \in 1 .. n |->
          [baseaddr |-> Part(vals, i, 0), memsize |-> Part(vals, i, 1)]]
  BY <1>1, RegionsForm
<1>5. RegionsOf(vals)[n].memsize = 0
  BY ONLY <1>1, <1>3, <1>4
<1>6. MemoryMap[a][n].memsize # 0
  BY <1>1, EveryMemory
<1> QED BY ONLY <1>5, <1>6
-----------------------------------------------------------------------------
(* The loops over modules and memories.                                    *)
LEMMA LeastExists ==
    ASSUME NEW S, S \subseteq Nat, S # {}
    PROVE  \E m \in S : \A k \in S : m <= k
<1>1. IsWellFoundedOn(OpToRel(<, Nat), Nat)
  BY NatLessThanWellFounded
<1> DEFINE Less == OpToRel(<, Nat)
<1>2. Less = {ss \in Nat \X Nat : ss[1] < ss[2]}
  BY DEF OpToRel
<1>3. IsWellFoundedOn(Less, Nat)
  BY ONLY <1>1
<1> HIDE DEF Less
<1>4. \E m \in S : \A k \in S : ~(<<k, m>> \in Less)
  BY ONLY <1>3, WFMin, S \subseteq Nat, S # {}
<1>5. PICK m \in S : \A k \in S : ~(<<k, m>> \in Less)
  BY ONLY <1>4
<1>6. \A k \in S : ~(k < m)
  BY ONLY <1>2, <1>5, S \subseteq Nat
<1> QED BY ONLY <1>5, <1>6, S \subseteq Nat

LEMMA MinIs ==
    ASSUME NEW S, S \subseteq Nat, S # {}
    PROVE  Min(S) \in S /\ \A k \in S : Min(S) <= k
BY LeastExists DEF Min

LEMMA Elements ==
    ASSUME NEW S, NEW s \in Seq(S), NEW i \in DOMAIN s
    PROVE  s[i] \in S
OBVIOUS

LEMMA EmptyValues == <<>> \in Seq(Int) /\ Len(<<>>) = 0
OBVIOUS

LEMMA NoMemory == ~is_supported_mam(NoModule)
BY DEF is_supported_mam, NoModule, Types, VENDOR_OSD

Fields == {"op", "arg", "flags", "stage", "group", "at", "vals", "mods", "mems",
           "found", "partial", "rv"}

LEMMA CallFields == DOMAIN NoCall = Fields
BY DEF NoCall, Fields

LEMMA ScmZero == Scm(0) = 0 /\ \A l \in Nat : osd_diaddr_build(0, l) = l
BY Numbers DEF Scm, osd_diaddr_build

LEMMA ScmOther ==
    ASSUME NEW s \in Subnet, s # 0
    PROVE  Scm(s) >= Number(s) /\ Scm(s) \in Nat /\ Number(s) \in Nat
<1>1. s \in Nat /\ s >= 1 /\ LOCALS \in Nat /\ Number(s) \in 1 .. LOCALS
  BY Addresses, Numbers, EveryScm
<1>2. s * LOCALS >= 1 * LOCALS /\ s * LOCALS \in Nat
  BY ONLY <1>1, Products
<1>3. Scm(s) = s * LOCALS
  BY <1>1, <1>2 DEF Scm, osd_diaddr_build
<1> QED BY <1>1, <1>2, <1>3

LEMMA ModulesType ==
    ASSUME NEW c, NEW k, FirstModules(c, k)
    PROVE  /\ c.arg \in Subnet /\ Number(c.arg) \in Nat /\ Len(c.mods) = Number(c.arg)
           /\ DOMAIN c.mods = 1 .. Number(c.arg)
           /\ c.arg # 0 => \A i \in 1 .. Number(c.arg) : c.mods[i] = NoModule
<1>1. /\ c.arg \in Subnet /\ c.mods \in Seq([addr : Nat, vals : Seq(Int)])
      /\ Len(c.mods) = Number(c.arg)
      /\ c.arg # 0 => \A i \in 1 .. Number(c.arg) : c.mods[i] = NoModule
  BY DEF FirstModules
<1>2. Len(c.mods) \in Nat /\ DOMAIN c.mods = 1 .. Len(c.mods)
  BY ONLY <1>1
<1> QED BY ONLY <1>1, <1>2

(* The loop has come to the end of the memories.                           *)
LEMMA LastMemory ==
    ASSUME NEW c, NEW up, DOMAIN c = DOMAIN NoCall, c.vals \in Seq(Int),
           c.op = "find_memories",
           c.arg = 0 => FirstMemories(c, Number(0)),
           c.arg # 0 => ~c.partial, c.arg \in Subnet
    PROVE  CallInv(Return(c, TRUE), up)
<1> DEFINE d == Return(c, TRUE)
<1>1. DOMAIN c = Fields
  BY CallFields
<1>2. /\ DOMAIN d = Fields /\ d.op = "find_memories" /\ d.vals = c.vals /\ d.arg = c.arg
      /\ d.rv = Result(c) /\ d.found = TRUE /\ d.mems = c.mems
  BY <1>1 DEF Return, Fields
<1>0. d = Return(c, TRUE)
  OBVIOUS
<1> HIDE DEF d
<1>3. /\ d.rv \in Results /\ d.rv # "" /\ (d.rv = "OK" => ~c.partial)
      /\ (d.rv = "PARTIAL_RESULT" => c.partial)
  BY <1>2 DEF Result, Results
<1>4. ASSUME d.rv = "OK", d.arg = 0
      PROVE  /\ {d.mems[i].addr : i \in DOMAIN d.mems}
                   = {a \in DOMAIN Device : a < LOCALS /\ IsMemory(a)}
             /\ \A i \in DOMAIN d.mems : RegionsOf(d.mems[i].vals) = MemoryMap[d.mems[i].addr]
  <2>1. FirstMemories(c, Number(0)) /\ ~c.partial /\ 0 \in Subnet
    BY <1>2, <1>3, <1>4
  <2>2. /\ {d.mems[i].addr : i \in DOMAIN d.mems} = {a \in 0 .. (Number(0) - 1) : IsMemory(a)}
        /\ \A i \in DOMAIN d.mems : Right(d.mems[i])
    BY ONLY <1>2, <2>1 DEF FirstMemories
  <2>3. {a \in 0 .. (Number(0) - 1) : IsMemory(a)}
            = {a \in DOMAIN Device : a < LOCALS /\ IsMemory(a)}
    BY ONLY <2>1, Consecutive
  <2> QED BY ONLY <2>2, <2>3 DEF Right
<1>5. ASSUME d.rv = "PARTIAL_RESULT"
      PROVE  \E i \in DOMAIN d.mems :
                \/ Len(d.mems[i].vals) < 3
                \/ RegionsOf(d.mems[i].vals) # MemoryMap[d.mems[i].addr]
  <2>1. FirstMemories(c, Number(0)) /\ c.partial
    BY <1>3, <1>5
  <2>4. PICK i \in DOMAIN d.mems : ~Right(d.mems[i])
    BY ONLY <1>2, <2>1 DEF FirstMemories
  <2>5. d.mems \in Seq([addr : Nat, vals : Seq(Int)])
    BY ONLY <1>2, <2>1 DEF FirstMemories
  <2>6. d.mems[i] \in [addr : Nat, vals : Seq(Int)]
    BY ONLY <2>5, Elements, i \in DOMAIN d.mems
  <2>7. d.mems[i].vals \in Seq(Int)
    BY ONLY <2>6
  <2>2. ~Right(d.mems[i]) /\ Len(d.mems[i].vals) \in Nat
    BY ONLY <2>4, <2>7
  <2>3. \/ Len(d.mems[i].vals) < 3
        \/ RegionsOf(d.mems[i].vals) # MemoryMap[d.mems[i].addr]
    BY ONLY <2>2 DEF Right
  <2> QED BY ONLY <2>3, i \in DOMAIN d.mems
<1>6. MemoriesOf(d)
  BY ONLY <1>2, <1>4, <1>5 DEF MemoriesOf
<1>7. ModulesOf(d) /\ DescOf(d)
  BY ONLY <1>2 DEF ModulesOf, DescOf, DescOps, DescRegs
<1> QED BY ONLY <1>0, <1>2, <1>3, <1>6, <1>7, CallFields, c.vals \in Seq(Int) DEF CallInv

(* No memory is passed over.                                               *)
NoneIn(c, p, q) ==
    \A i \in 1 .. Number(0) : i > p /\ i <= q => ~is_supported_mam(c.mods[i])

LEMMA BetweenMemories ==
    ASSUME NEW c, NEW p \in Nat, NEW q \in Nat, AllDescribed(c),
           p <= q, q <= Number(0), Number(0) \in Nat, NoneIn(c, p, q),
           FirstMemories(c, p)
    PROVE  FirstMemories(c, q)
<1>1. ASSUME NEW a \in Nat, p <= a, a < q PROVE ~IsMemory(a)
  <2>1. a + 1 \in 1 .. Number(0) /\ a + 1 > p /\ a + 1 <= q /\ (a + 1) - 1 = a
    BY ONLY <1>1, p \in Nat, q \in Nat, Number(0) \in Nat, q <= Number(0)
  <2>2. c.mods[a + 1] = Described(a)
    BY ONLY <2>1, AllDescribed(c) DEF AllDescribed
  <2>3. ~is_supported_mam(c.mods[a + 1])
    BY ONLY <2>1, NoneIn(c, p, q) DEF NoneIn
  <2> QED BY ONLY <2>2, <2>3 DEF IsMemory
<1>2. \A a \in 0 .. (q - 1) : ~(a \in 0 .. (p - 1)) => a \in Nat /\ p <= a /\ a < q
  BY ONLY p \in Nat, q \in Nat
<1>3. \A a \in 0 .. (p - 1) : a \in 0 .. (q - 1)
  BY ONLY p \in Nat, q \in Nat, p <= q
<1>4. {a \in 0 .. (p - 1) : IsMemory(a)} = {a \in 0 .. (q - 1) : IsMemory(a)}
  BY ONLY <1>1, <1>2, <1>3
<1> QED BY ONLY <1>4, FirstMemories(c, p) DEF FirstMemories

LEMMA NextMemoryCall ==
    ASSUME NEW c, NEW up, DOMAIN c = DOMAIN NoCall, c.vals \in Seq(Int),
           c.op = "find_memories", c.rv = "", FirstModules(c, Number(c.arg)),
           NEW at \in Nat, at = c.at, at >= 1, at <= Number(c.arg) + 1,
           c.arg = 0 => AllDescribed(c) /\ FirstMemories(c, at - 1),
           c.arg # 0 => ~c.partial
    PROVE  CallInv(NextMemory(c), up)
<1> DEFINE mams == {i \in DOMAIN c.mods : i >= c.at /\ is_supported_mam(c.mods[i])}
           d == NextMemory(c)
<1>0. DOMAIN c = Fields
  BY CallFields
<1>1. PICK n \in Nat : /\ n = Number(c.arg) /\ c.arg \in Subnet /\ DOMAIN c.mods = 1 .. n
                       /\ c.arg # 0 => \A i \in 1 .. n : c.mods[i] = NoModule
  BY ModulesType
<1>2. at = c.at /\ at >= 1 /\ at <= n + 1 /\ at - 1 \in Nat /\ at - 1 <= n
  <2>1. n = Number(c.arg)
    BY ONLY <1>1
  <2> QED BY ONLY <2>1, at \in Nat, at >= 1, at <= Number(c.arg) + 1, at = c.at, n \in Nat
<1>3. c.arg = 0 => AllDescribed(c) /\ FirstMemories(c, at - 1)
  OBVIOUS
<1>4. CASE mams = {}
  <2>1. d = Return(c, TRUE)
    BY ONLY <1>4 DEF NextMemory
  <2>2. ASSUME c.arg = 0 PROVE FirstMemories(c, Number(0))
    <3>0. n = Number(0) /\ n <= n
      BY ONLY <1>1, <2>2, n \in Nat
    <3>1. ASSUME NEW i \in 1 .. n, i > at - 1, i <= n PROVE ~is_supported_mam(c.mods[i])
      <4>1. i >= at
        BY ONLY i \in 1 .. n, <3>1, at \in Nat
      <4> QED BY ONLY <1>1, <1>2, <1>4, <4>1, i \in 1 .. n
    <3>2. NoneIn(c, at - 1, n)
      BY ONLY <3>0, <3>1 DEF NoneIn
    <3>3. FirstMemories(c, n)
      BY ONLY <1>2, <1>3, <2>2, <3>0, <3>2, BetweenMemories, n \in Nat
    <3> QED BY ONLY <3>0, <3>3
  <2>3. CallInv(Return(c, TRUE), up)
    BY <1>1, <2>2, LastMemory
  <2> QED BY ONLY <2>1, <2>3
<1>5. CASE mams # {}
  <2>1. mams \subseteq Nat
    BY ONLY <1>1
  <2>2. Min(mams) \in mams /\ \A k \in mams : Min(mams) <= k
    BY ONLY <1>5, <2>1, MinIs
  <2>3. PICK j \in Nat : j = Min(mams) /\ j \in mams /\ \A k \in mams : j <= k
    BY ONLY <2>1, <2>2
  <2>4. /\ j \in 1 .. n /\ j >= at /\ is_supported_mam(c.mods[j])
        /\ j - 1 \in Nat /\ j - 1 <= n /\ at - 1 <= j - 1
    <3>1. j \in 1 .. n /\ j >= at /\ is_supported_mam(c.mods[j])
      BY ONLY <1>1, <1>2, <2>3
    <3> QED BY ONLY <3>1, at \in Nat, n \in Nat, j \in Nat
  <2>5. c.arg = 0 /\ 0 \in Subnet /\ n = Number(0)
    BY ONLY <1>1, <2>4, NoMemory
  <2>6. c.mods[j] = Described(j - 1) /\ IsMemory(j - 1)
    BY ONLY <1>3, <2>4, <2>5 DEF IsMemory, AllDescribed
  <2>7. d = [c EXCEPT !.stage = "mam", !.group = MamGroup(c.mods[j]), !.vals = <<>>, !.at = j + 1]
    BY ONLY <1>5, <2>3 DEF NextMemory
  <2>8. /\ DOMAIN d = Fields /\ d.op = "find_memories" /\ d.vals = <<>> /\ d.arg = 0
        /\ d.rv = "" /\ d.mems = c.mems /\ d.partial = c.partial /\ d.mods = c.mods
        /\ d.stage = "mam" /\ d.group = MamGroup(Described(j - 1)) /\ d.at = j + 1
    <3>1. c.op = "find_memories" /\ c.rv = ""
      OBVIOUS
    <3> QED BY ONLY <1>0, <2>5, <2>6, <2>7, <3>1, ZenonT(60) DEF Fields
  <2>15. d = NextMemory(c)
    OBVIOUS
  <2> HIDE DEF d
  <2>9. FirstModules(d, Number(0)) /\ AllDescribed(d)
    <3>1. FirstModules(c, Number(0)) /\ AllDescribed(c)
      BY <2>5
    <3> QED BY ONLY <2>5, <2>8, <3>1 DEF FirstModules, AllDescribed
  <2>10. FirstMemories(d, j - 1)
    <3>1. ASSUME NEW i \in 1 .. n, i > at - 1, i <= j - 1
          PROVE  ~is_supported_mam(c.mods[i])
      <4>1. i >= at /\ ~(j <= i)
        BY ONLY <3>1, i \in 1 .. n, at \in Nat, j \in Nat
      <4> QED BY ONLY <1>1, <1>2, <2>3, <4>1, i \in 1 .. n
    <3>3. NoneIn(c, at - 1, j - 1)
      BY ONLY <2>5, <3>1 DEF NoneIn
    <3>2. FirstMemories(c, j - 1)
      BY ONLY <1>2, <1>3, <2>4, <2>5, <3>3, BetweenMemories, n \in Nat
    <3> QED BY ONLY <2>8, <3>2 DEF FirstMemories
  <2>11. j - 1 \in DOMAIN Device
    <3>1. j - 1 \in 0 .. (Number(0) - 1)
      BY ONLY <2>4, <2>5, n \in Nat
    <3> QED BY ONLY <2>5, <3>1, Consecutive
  <2>12. Reading(d, MamGroup(Described(j - 1)), 0)
    <3>1. MamGroup(Described(j - 1)) \in Seq(Reads) /\ Len(MamGroup(Described(j - 1))) > 0
      BY ONLY <2>6, <2>11, GroupTypes, MemoryGroup
    <3>2. Len(d.vals) = 0
      BY ONLY <2>8
    <3> QED BY ONLY <2>8, <3>1, <3>2, ReadStart
  <2>13. ReadingMemory(d)
    <3>1. d.at - 2 = j - 1 /\ d.at \in 2 .. (Number(0) + 1)
      <4>1. d.at = j + 1
        BY ONLY <2>8
      <4>2. j >= 1 /\ j <= Number(0) /\ Number(0) \in Nat
        BY ONLY <2>4, <2>5, n \in Nat
      <4> QED BY ONLY <4>1, <4>2, j \in Nat
    <3> QED BY ONLY <2>6, <2>8, <2>9, <2>10, <2>12, <3>1 DEF ReadingMemory
  <2>14. d.vals \in Seq(Int)
    BY ONLY <2>8, EmptyValues
  <2> QED BY ONLY <2>8, <2>13, <2>14, <2>15, CallFields DEF CallInv, Underway
<1> QED BY ONLY <1>4, <1>5

LEMMA EmptyMemories ==
    <<>> \in Seq([addr : Nat, vals : Seq(Int)]) /\ DOMAIN <<>> = {}
OBVIOUS

LEMMA NoMemories ==
    ASSUME NEW c, c.mems = <<>>, ~c.partial
    PROVE  FirstMemories(c, 0)
<1>1. \A a : a \notin 0 .. (0 - 1)
  OBVIOUS
<1>2. {a \in 0 .. (0 - 1) : IsMemory(a)} = {}
  BY ONLY <1>1
<1>3. {c.mems[i].addr : i \in DOMAIN c.mems} = {}
  BY ONLY EmptyMemories, c.mems = <<>>
<1> QED BY ONLY <1>2, <1>3, EmptyMemories, c.mems = <<>>, ~c.partial DEF FirstMemories

(* The loop over the modules, with its first at modules described.         *)
LEMMA NextModuleCall ==
    ASSUME NEW c, NEW up, DOMAIN c = DOMAIN NoCall, c.vals \in Seq(Int),
           c.op \in {"get_modules", "find_memories"}, c.rv = "", c.stage = "describe",
           c.mems = <<>>, NEW at \in Nat, at = c.at, at <= Number(c.arg),
           FirstModules(c, at), c.arg # 0 => ~c.partial
    PROVE  CallInv(NextModule(c), up)
<1> DEFINE left == {l \in Enumerated(c.arg, Len(c.mods)) : l >= c.at}
           d == NextModule(c)
<1>0. DOMAIN c = Fields /\ c.rv = "" /\ c.vals \in Seq(Int) /\ c.mems = <<>> /\ c.at = at
      /\ c.stage = "describe"
  BY CallFields
<1>1. PICK n \in Nat : /\ n = Number(c.arg) /\ c.arg \in Subnet /\ Len(c.mods) = n
                       /\ c.arg # 0 => \A i \in 1 .. n : c.mods[i] = NoModule
  BY ModulesType
<1>2. left = {l \in Scm(c.arg) .. (n - 1) : l >= at}
  BY ONLY <1>0, <1>1 DEF Enumerated
<1>3. c.arg # 0 => left = {}
  <2> SUFFICES ASSUME c.arg # 0, NEW l \in left PROVE FALSE
    OBVIOUS
  <2>1. Scm(c.arg) \in Nat /\ Scm(c.arg) >= n
    BY ONLY <1>1, ScmOther, c.arg # 0
  <2>2. l \in Scm(c.arg) .. (n - 1)
    BY ONLY <1>2, l \in left
  <2> QED BY ONLY <2>1, <2>2, n \in Nat
<1>4. c.arg = 0 => left = {l \in 0 .. (n - 1) : l >= at}
  BY ONLY <1>2, ScmZero
<1>5. at <= n
  BY ONLY <1>1, at <= Number(c.arg)
<1>6. CASE left # {}
  <2>0. d = [c EXCEPT !.group = osd_hostmod_mod_describe(osd_diaddr_build(c.arg, Min(left))),
                      !.vals = <<>>, !.at = Min(left) + 1]
    BY ONLY <1>6 DEF NextModule
  <2> HIDE DEF left
  <2>1. c.arg = 0 /\ left = {l \in 0 .. (n - 1) : l >= at} /\ n = Number(0) /\ 0 \in Subnet
    BY ONLY <1>1, <1>3, <1>4, <1>6
  <2>2. left \subseteq Nat
    BY ONLY <2>1, n \in Nat
  <2>3. PICK m \in Nat : m = Min(left) /\ m \in left /\ \A k \in left : m <= k
    BY ONLY <1>6, <2>2, MinIs
  <2>4. m >= at /\ m <= n - 1
    BY ONLY <2>1, <2>3, n \in Nat
  <2>5. at \in left
    BY ONLY <2>1, <2>4, n \in Nat, at \in Nat, m \in Nat
  <2>6. m = at /\ at + 1 \in 1 .. n /\ (at + 1) - 1 = at /\ at \in 0 .. (n - 1)
    BY ONLY <2>3, <2>4, <2>5, n \in Nat, at \in Nat
  <2>7. d = [c EXCEPT !.group = osd_hostmod_mod_describe(at), !.vals = <<>>, !.at = at + 1]
    <3>2. osd_diaddr_build(c.arg, Min(left)) = at /\ Min(left) = at
      BY ONLY <2>1, <2>3, <2>6, ScmZero
    <3> QED BY ONLY <2>0, <3>2
  <2>8. /\ DOMAIN d = Fields /\ d.op = c.op /\ d.vals = <<>> /\ d.arg = 0 /\ d.rv = ""
        /\ d.mems = <<>> /\ d.partial = c.partial /\ d.mods = c.mods
        /\ d.stage = "describe" /\ d.group = osd_hostmod_mod_describe(at) /\ d.at = at + 1
    BY ONLY <1>0, <2>1, <2>7 DEF Fields
  <2>9. d = NextModule(c)
    OBVIOUS
  <2> HIDE DEF d
  <2>10. FirstModules(d, at)
    BY ONLY <2>1, <2>8, FirstModules(c, at) DEF FirstModules
  <2>11. at \in DOMAIN Device
    BY ONLY <2>1, <2>6, Consecutive
  <2>12. Reading(d, osd_hostmod_mod_describe(at), 0)
    <3>1. osd_hostmod_mod_describe(at) \in Seq(Reads) /\ Len(osd_hostmod_mod_describe(at)) > 0
      BY ONLY <2>11, GroupTypes, DescribeGroup
    <3> QED BY ONLY <2>8, <3>1, EmptyValues, ReadStart
  <2>13. DescribingModules(d)
    <3>1. d.at = at + 1
      BY ONLY <2>8
    <3>2. d.at - 1 = at /\ d.at \in 1 .. Number(0)
      BY ONLY <2>1, <2>6, <3>1
    <3> QED BY ONLY <2>8, <2>10, <2>12, <3>2 DEF DescribingModules
  <2>14. Underway(d, up)
    <3>1. c.op \in {"get_modules", "find_memories"}
      OBVIOUS
    <3> QED BY ONLY <2>8, <2>13, <3>1 DEF Underway
  <2> QED BY ONLY <2>8, <2>9, <2>14, CallFields, EmptyValues DEF CallInv
<1>7. CASE left = {} /\ c.op = "find_memories" /\ ~c.partial
  <2> DEFINE e == [c EXCEPT !.at = 1]
  <2>1. d = NextMemory(e)
    BY ONLY <1>7 DEF NextModule
  <2>2. /\ DOMAIN e = Fields /\ e.op = "find_memories" /\ e.vals = c.vals /\ e.arg = c.arg
        /\ e.rv = "" /\ e.mems = <<>> /\ e.partial = c.partial /\ e.mods = c.mods /\ e.at = 1
    BY ONLY <1>0, <1>7 DEF Fields
  <2> HIDE DEF e
  <2>3. c.arg = 0 => at = n
    <3>1. ASSUME c.arg = 0, at # n PROVE FALSE
      <4>1. at \in left
        BY ONLY <1>4, <1>5, <3>1, at \in Nat, n \in Nat
      <4> QED BY ONLY <1>7, <4>1
    <3> QED BY ONLY <3>1
  <2>4. FirstModules(e, Number(c.arg))
    <3>1. FirstModules(c, Number(c.arg))
      <4>1. CASE c.arg = 0
        BY ONLY <1>1, <2>3, <4>1, FirstModules(c, at)
      <4>2. CASE c.arg # 0
        BY ONLY <1>1, <4>2, FirstModules(c, at) DEF FirstModules
      <4> QED BY ONLY <4>1, <4>2
    <3> QED BY ONLY <2>2, <3>1 DEF FirstModules
  <2>5. ASSUME c.arg = 0 PROVE AllDescribed(e) /\ FirstMemories(e, 0)
    <3>1. AllDescribed(e)
      <4>1. ASSUME NEW i \in 1 .. Number(0) PROVE e.mods[i] = Described(i - 1)
        <5>1. e.arg = 0 /\ i <= Number(0) /\ ~e.partial
          <6>1. e.arg = 0 /\ ~e.partial
            BY ONLY <1>7, <2>2, <2>5
          <6>2. Number(0) = n
            BY ONLY <1>1, <2>5
          <6>3. i <= Number(0)
            BY ONLY <6>2, n \in Nat, i \in 1 .. Number(0)
          <6> QED BY ONLY <6>1, <6>3
        <5> QED BY ONLY <2>4, <2>5, <5>1, i \in 1 .. Number(0) DEF FirstModules
      <4> QED BY ONLY <4>1 DEF AllDescribed
    <3>2. FirstMemories(e, 0)
      <4> QED BY ONLY <1>7, <2>2, NoMemories
    <3> QED BY ONLY <3>1, <3>2
  <2>6. 1 \in Nat /\ 1 >= 1 /\ 1 <= Number(c.arg) + 1 /\ 1 - 1 = 0
    BY ONLY <1>1, n \in Nat
  <2>7. CallInv(NextMemory(e), up)
    BY ONLY <1>0, <1>7, <2>2, <2>4, <2>5, <2>6, NextMemoryCall, CallFields
  <2> QED BY ONLY <2>1, <2>7
<1>8. CASE left = {} /\ ~(c.op = "find_memories" /\ ~c.partial)
  <2>1. d = Return(c, c.op = "get_modules")
    BY ONLY <1>8 DEF NextModule
  <2>2. /\ DOMAIN d = Fields /\ d.op = c.op /\ d.vals = c.vals /\ d.arg = c.arg
        /\ d.rv = Result(c) /\ d.found = (c.op = "get_modules") /\ d.mods = c.mods
        /\ d.partial = c.partial
    BY ONLY <1>0, <2>1 DEF Fields, Return
  <2>9. d = NextModule(c)
    OBVIOUS
  <2> HIDE DEF d
  <2>3. /\ d.rv \in Results /\ d.rv # "" /\ (d.rv = "OK" => ~c.partial)
        /\ (d.rv = "PARTIAL_RESULT" => c.partial)
    BY ONLY <2>2 DEF Result, Results
  <2>4. c.arg = 0 => at = n
    <3>1. ASSUME c.arg = 0, at # n PROVE FALSE
      <4>1. at \in left
        BY ONLY <1>4, <1>5, <3>1, at \in Nat, n \in Nat
      <4> QED BY ONLY <1>8, <4>1
    <3> QED BY ONLY <3>1
  <2>5. ModulesOf(d)
    <3>1. ASSUME NEW l \in 0 .. (n - 1)
          PROVE  IF c.arg # 0 THEN c.mods[l + 1] = NoModule
                 ELSE c.mods[l + 1] = Described(l) \/ (c.partial /\ c.mods[l + 1] = Unknown(l))
      <4>1. l + 1 \in 1 .. n /\ (l + 1) - 1 = l /\ l + 1 <= n
        BY ONLY n \in Nat, l \in 0 .. (n - 1)
      <4>2. c.arg = 0 => l + 1 <= at
        BY ONLY <2>4, <4>1
      <4> QED BY ONLY <1>1, <4>1, <4>2, FirstModules(c, at) DEF FirstModules
    <3>2. c.partial => d.rv # "OK"
      BY ONLY <2>3
    <3> QED BY ONLY <1>1, <2>2, <3>1, <3>2 DEF ModulesOf
  <2>6. MemoriesOf(d)
    <3>1. ASSUME d.op = "find_memories" PROVE d.rv = "PARTIAL_RESULT" /\ ~d.found
      BY ONLY <1>8, <2>2, <2>3, <3>1 DEF Result
    <3> QED BY ONLY <3>1 DEF MemoriesOf
  <2>7. DescOf(d)
    <3>1. d.op \in {"get_modules", "find_memories"}
      BY ONLY <2>2, c.op \in {"get_modules", "find_memories"}
    <3> QED BY ONLY <3>1 DEF DescOf, DescOps, DescRegs
  <2>8. d.vals \in Seq(Int)
    BY ONLY <1>0, <2>2
  <2> QED BY ONLY <2>2, <2>3, <2>5, <2>6, <2>7, <2>8, <2>9, CallFields DEF CallInv
<1> QED BY ONLY <1>6, <1>7, <1>8
-----------------------------------------------------------------------------
(* An access of a call is done: its group goes on, or is complete.         *)
Done(c, v) == [c EXCEPT !.group = Tail(@), !.vals = Append(@, v)]

After(c, x, v) == IF Len(c.group) > 1 THEN Done(c, v) ELSE GroupDone(Done(c, v), x)

LEMMA DoneFields ==
    ASSUME NEW c, NEW v, DOMAIN c = DOMAIN NoCall
    PROVE  /\ DOMAIN Done(c, v) = Fields /\ Done(c, v).vals = Append(c.vals, v)
           /\ Done(c, v).group = Tail(c.group)
           /\ Done(c, v).op = c.op /\ Done(c, v).arg = c.arg /\ Done(c, v).flags = c.flags
           /\ Done(c, v).stage = c.stage /\ Done(c, v).at = c.at /\ Done(c, v).mods = c.mods
           /\ Done(c, v).mems = c.mems /\ Done(c, v).found = c.found
           /\ Done(c, v).partial = c.partial /\ Done(c, v).rv = c.rv
<1>1. DOMAIN c = Fields
  BY CallFields
<1> QED BY ONLY <1>1 DEF Done, Fields

(* Calls that have ended without a result.                                 *)
LEMMA Failed ==
    ASSUME NEW d, NEW up, DOMAIN d = Fields, d.vals \in Seq(Int),
           d.rv \in {"ERR", "WRONG_MODULE"}
    PROVE  CallInv(d, up)
BY CallFields DEF CallInv, Results, ModulesOf, MemoriesOf, DescOf

LEMMA Succeeded ==
    ASSUME NEW d, NEW up, DOMAIN d = Fields, d.vals \in Seq(Int), d.rv = "OK",
           d.op \in {"setbit", "cpureg", "subnetinfo"}
    PROVE  CallInv(d, up)
<1>1. d.op \notin DescOps
  BY DEF DescOps, DescRegs
<1> QED BY <1>1, CallFields DEF CallInv, Results, ModulesOf, MemoriesOf, DescOf

(* Types of what a call keeps of modules and memories.                     *)
LEMMA NoModuleType == NoModule \in [addr : Nat, vals : Seq(Int)]
BY DEF NoModule

LEMMA UnknownType ==
    ASSUME NEW a \in Nat
    PROVE  Unknown(a) \in [addr : Nat, vals : Seq(Int)]
BY DEF Unknown

LEMMA ModuleAdded ==
    ASSUME NEW c, NEW k \in Nat, FirstModules(c, k), c.arg = 0, k + 1 <= Number(0),
           NEW m, m \in [addr : Nat, vals : Seq(Int)],
           NEW d, d.arg = 0, d.mods = [c.mods EXCEPT ![k + 1] = m], c.partial => d.partial,
           m = Described(k) \/ (d.partial /\ m = Unknown(k))
    PROVE  FirstModules(d, k + 1)
<1>1. PICK n \in Nat : n = Number(0) /\ 0 \in Subnet /\ DOMAIN c.mods = 1 .. n
  BY ModulesType
<1>2. k + 1 \in 1 .. n /\ (k + 1) - 1 = k
  BY <1>1
<1>3. /\ c.mods \in Seq([addr : Nat, vals : Seq(Int)]) /\ Len(c.mods) = n
      /\ \A i \in 1 .. n :
            IF i <= k
            THEN c.mods[i] = Described(i - 1) \/ (c.partial /\ c.mods[i] = Unknown(i - 1))
            ELSE c.mods[i] = NoModule
  BY ONLY <1>1, FirstModules(c, k), c.arg = 0 DEF FirstModules
<1>4. d.mods \in Seq([addr : Nat, vals : Seq(Int)]) /\ Len(d.mods) = n
  BY ONLY <1>2, <1>3, m \in [addr : Nat, vals : Seq(Int)],
          d.mods = [c.mods EXCEPT ![k + 1] = m]
<1>5. ASSUME NEW i \in 1 .. n
      PROVE  IF i <= k + 1
             THEN d.mods[i] = Described(i - 1) \/ (d.partial /\ d.mods[i] = Unknown(i - 1))
             ELSE d.mods[i] = NoModule
  <2>1. CASE i = k + 1
    <3>1. d.mods[i] = m /\ i - 1 = k /\ i <= k + 1
      BY ONLY <1>1, <1>2, <2>1, d.mods = [c.mods EXCEPT ![k + 1] = m], k \in Nat
    <3> QED BY ONLY <3>1, m = Described(k) \/ (d.partial /\ m = Unknown(k))
  <2>2. CASE i # k + 1
    <3>1. d.mods[i] = c.mods[i]
      BY ONLY <1>1, <2>2, d.mods = [c.mods EXCEPT ![k + 1] = m]
    <3>2. i <= k + 1 <=> i <= k
      BY ONLY <2>2, i \in 1 .. n, k \in Nat, n \in Nat
    <3> QED BY ONLY <1>3, <3>1, <3>2, c.partial => d.partial, i \in 1 .. n
  <2> QED BY ONLY <2>1, <2>2
<1> QED BY ONLY <1>1, <1>4, <1>5, d.arg = 0 DEF FirstModules

LEMMA Appended ==
    ASSUME NEW S, NEW s \in Seq(S), NEW m \in S
    PROVE  /\ Append(s, m) \in Seq(S) /\ DOMAIN s = 1 .. Len(s) /\ Len(s) \in Nat
           /\ DOMAIN Append(s, m) = 1 .. (Len(s) + 1)
           /\ Append(s, m)[Len(s) + 1] = m /\ Len(s) + 1 \in 1 .. (Len(s) + 1)
           /\ \A i \in 1 .. Len(s) : Append(s, m)[i] = s[i] /\ i \in 1 .. (Len(s) + 1)
           /\ \A i \in 1 .. (Len(s) + 1) : i \in 1 .. Len(s) \/ i = Len(s) + 1
OBVIOUS

LEMMA MemoryAdded ==
    ASSUME NEW c, NEW a \in Nat, FirstMemories(c, a), IsMemory(a),
           NEW m, m \in [addr : Nat, vals : Seq(Int)], m.addr = a,
           NEW d, d.mems = Append(c.mems, m),
           \/ Right(m) /\ d.partial = c.partial
           \/ ~Right(m) /\ d.partial
    PROVE  FirstMemories(d, a + 1)
<1> DEFINE n == Len(c.mems)
<1>1. /\ c.mems \in Seq([addr : Nat, vals : Seq(Int)])
      /\ {c.mems[i].addr : i \in DOMAIN c.mems} = {b \in 0 .. (a - 1) : IsMemory(b)}
      /\ ~c.partial => \A i \in DOMAIN c.mems : Right(c.mems[i])
      /\ c.partial => \E i \in DOMAIN c.mems : ~Right(c.mems[i])
  BY ONLY FirstMemories(c, a) DEF FirstMemories
<1>2. /\ d.mems \in Seq([addr : Nat, vals : Seq(Int)]) /\ DOMAIN c.mems = 1 .. n
      /\ n \in Nat /\ DOMAIN d.mems = 1 .. (n + 1)
      /\ d.mems[n + 1] = m /\ n + 1 \in 1 .. (n + 1)
      /\ \A i \in 1 .. n : d.mems[i] = c.mems[i] /\ i \in 1 .. (n + 1)
      /\ \A i \in 1 .. (n + 1) : i \in 1 .. n \/ i = n + 1
  BY ONLY <1>1, Appended, m \in [addr : Nat, vals : Seq(Int)], d.mems = Append(c.mems, m), SMTT(40)
<1> HIDE DEF n
<1>3. \A b : b \in 0 .. ((a + 1) - 1) <=> b \in 0 .. (a - 1) \/ b = a
  BY ONLY a \in Nat
<1>4. {d.mems[i].addr : i \in DOMAIN d.mems}
          = {c.mems[i].addr : i \in DOMAIN c.mems} \cup {a}
  BY ONLY <1>2, m.addr = a
<1>5. {d.mems[i].addr : i \in DOMAIN d.mems} = {b \in 0 .. ((a + 1) - 1) : IsMemory(b)}
  BY ONLY <1>1, <1>3, <1>4, IsMemory(a)
<1>6. ASSUME ~d.partial, NEW i \in DOMAIN d.mems PROVE Right(d.mems[i])
  <2>1. Right(m) /\ ~c.partial
    BY <1>6
  <2> QED BY ONLY <1>1, <1>2, <2>1, i \in DOMAIN d.mems
<1>7. ASSUME d.partial PROVE \E i \in DOMAIN d.mems : ~Right(d.mems[i])
  <2>1. CASE Right(m)
    <3>1. c.partial
      BY <1>7, <2>1
    <3> QED BY ONLY <1>1, <1>2, <3>1
  <2>2. CASE ~Right(m)
    BY ONLY <1>2, <2>2
  <2> QED BY ONLY <2>1, <2>2
<1> QED BY ONLY <1>2, <1>5, <1>6, <1>7 DEF FirstMemories
-----------------------------------------------------------------------------
(* What a call is after an access that has succeeded.                      *)

(* The group of a call that reads registers goes on, or has been read.     *)
LEMMA ReadGoesOn ==
    ASSUME NEW c, DOMAIN c = DOMAIN NoCall, c.vals \in Seq(Int),
           NEW full, NEW base \in Nat, Len(full) \in Nat, Reading(c, full, base),
           NEW v \in Int, Answers(Head(c.group), v)
    PROVE  /\ Done(c, v).vals \in Seq(Int) /\ Len(Done(c, v).vals) \in Nat
           /\ Len(Done(c, v).vals) = Len(c.vals) + 1
           /\ \A i \in 1 .. Len(c.vals) : Done(c, v).vals[i] = c.vals[i]
           /\ HasRead(Done(c, v).vals, full, base)
           /\ Len(c.group) > 1 => Reading(Done(c, v), full, base)
           /\ ~(Len(c.group) > 1) => Len(Done(c, v).vals) = base + Len(full)
           /\ Head(c.group) \in Reads
<1>1. Done(c, v).vals = Append(c.vals, v) /\ Done(c, v).group = Tail(c.group)
  BY DoneFields
<1>2. /\ Done(c, v).vals \in Seq(Int) /\ Len(Done(c, v).vals) = Len(c.vals) + 1
      /\ \A i \in 1 .. Len(c.vals) : Done(c, v).vals[i] = c.vals[i]
      /\ HasRead(Done(c, v).vals, full, base)
      /\ Len(c.group) > 1 => Reading(Done(c, v), full, base)
      /\ ~(Len(c.group) > 1) => Len(Done(c, v).vals) = base + Len(full)
  <2>1. PICK d : d = Done(c, v)
    OBVIOUS
  <2>2. d.vals = Append(c.vals, v) /\ d.group = Tail(c.group)
    BY ONLY <1>1, <2>1
  <2>3. /\ c.vals \in Seq(Int) /\ Len(full) \in Nat /\ Reading(c, full, base)
        /\ Answers(Head(c.group), v)
    OBVIOUS
  <2>4. /\ d.vals \in Seq(Int) /\ Len(d.vals) = Len(c.vals) + 1
        /\ \A i \in 1 .. Len(c.vals) : d.vals[i] = c.vals[i]
        /\ HasRead(d.vals, full, base)
        /\ Len(c.group) > 1 => Reading(d, full, base)
        /\ ~(Len(c.group) > 1) => Len(d.vals) = base + Len(full)
    <3>1. Len(full) \in Nat
      BY ONLY <2>3
    <3>2. Reading(c, full, base)
      BY ONLY <2>3
    <3>3. Answers(Head(c.group), v)
      BY ONLY <2>3
    <3>4. c.vals \in Seq(Int)
      BY ONLY <2>3
    <3>5. d.vals \in Seq(Int)
      BY ONLY <2>2, <3>1, <3>2, <3>3, <3>4, ReadOn, base \in Nat, v \in Int
    <3>6. Len(d.vals) = Len(c.vals) + 1
      BY ONLY <2>2, <3>1, <3>2, <3>3, <3>4, ReadOn, base \in Nat, v \in Int
    <3>7. \A i \in 1 .. Len(c.vals) : d.vals[i] = c.vals[i]
      BY ONLY <2>2, <3>1, <3>2, <3>3, <3>4, ReadOn, base \in Nat, v \in Int
    <3>8. HasRead(d.vals, full, base)
      BY ONLY <2>2, <3>1, <3>2, <3>3, <3>4, ReadOn, base \in Nat, v \in Int
    <3>9. Len(c.group) > 1 => Reading(d, full, base)
      BY ONLY <2>2, <3>1, <3>2, <3>3, <3>4, ReadOn, base \in Nat, v \in Int
    <3>10. ~(Len(c.group) > 1) => Len(d.vals) = base + Len(full)
      BY ONLY <2>2, <3>1, <3>2, <3>3, <3>4, ReadOn, base \in Nat, v \in Int
    <3> QED BY ONLY <3>5, <3>6, <3>7, <3>8, <3>9, <3>10
  <2> QED BY ONLY <2>1, <2>4
<1>3. Past(c, base) + 1 \in 1 .. Len(full) /\ Head(c.group) = full[Past(c, base) + 1]
      /\ Len(c.group) \in Nat /\ Len(c.group) >= 1
  BY ReadHead
<1>4. Head(c.group) \in Reads
  <2>1. c.group \in Seq(Reads)
    BY DEF Reading
  <2> QED BY ONLY <1>3, <2>1
<1>5. Len(Done(c, v).vals) \in Nat
  BY ONLY <1>2
<1> QED BY ONLY <1>2, <1>3, <1>4, <1>5

LEMMA SubnetDone ==
    ASSUME NEW c, NEW up, DOMAIN c = DOMAIN NoCall, c.vals \in Seq(Int), c.rv = "",
           c.stage = "", c.op = "subnetinfo", NEW s \in Subnet, Reading(c, SubnetRegs(s), 0),
           NEW v \in Int, NEW x, x = Head(c.group), Answers(x, v)
    PROVE  CallInv(After(c, x, v), up)
<1> DEFINE d == Done(c, v)
<1>1. DOMAIN d = Fields /\ d.op = "subnetinfo" /\ d.stage = "" /\ d.rv = ""
  BY DoneFields
<1>2. Len(SubnetRegs(s)) \in Nat
  BY ONLY SubnetGroup, s \in Subnet
<1>3. d.vals \in Seq(Int) /\ (Len(c.group) > 1 => Reading(d, SubnetRegs(s), 0))
  BY <1>2, ReadGoesOn
<1>0. d = Done(c, v)
  OBVIOUS
<1> HIDE DEF d
<1>4. CASE Len(c.group) > 1
  <2>1. CallInv(d, up)
    BY <1>1, <1>3, <1>4, CallFields DEF CallInv, Underway
  <2> QED BY ONLY <1>0, <1>4, <2>1 DEF After
<1>5. CASE ~(Len(c.group) > 1)
  <2> DEFINE e == [d EXCEPT !.rv = "OK"]
  <2>1. GroupDone(d, x) = e
    BY ONLY <1>1 DEF GroupDone
  <2>2. DOMAIN e = Fields /\ e.op = "subnetinfo" /\ e.rv = "OK" /\ e.vals = d.vals
    BY ONLY <1>1 DEF Fields
  <2>3. CallInv(e, up)
    BY ONLY <1>3, <2>2, Succeeded
  <2> QED BY ONLY <1>0, <1>5, <2>1, <2>3 DEF After
<1> QED BY <1>4, <1>5

LEMMA CountDone ==
    ASSUME NEW c, NEW up, DOMAIN c = DOMAIN NoCall, c.vals \in Seq(Int), c.rv = "",
           c.op \in {"get_modules", "find_memories"}, c.stage = "count", Counting(c),
           NEW v \in Int, NEW x, x = Head(c.group), Answers(x, v)
    PROVE  CallInv(After(c, x, v), up)
<1> DEFINE d == Done(c, v)
           e == [d EXCEPT !.stage = "describe",
                          !.mods = [i \in 1 .. d.vals[1] |-> NoModule]]
<1>1. /\ c.arg \in Subnet /\ c.vals = <<>> /\ c.group = <<R(Scm(c.arg), "NUM_MOD", 0)>>
      /\ c.at = 0 /\ c.mems = <<>> /\ ~c.partial
  BY DEF Counting
<1>2. PICK n \in Nat : n = Number(c.arg)
  <2>1. Number(c.arg) \in 1 .. LOCALS
    BY ONLY <1>1, EveryScm
  <2> QED BY ONLY <2>1
<1>3. x = R(Scm(c.arg), "NUM_MOD", 0) /\ Len(c.group) = 1
  BY ONLY <1>1, x = Head(c.group)
<1>4. v = n
  <2>1. Steady(x.reg) /\ Val(x) = n
    <3>1. Val(x) = n
      BY ONLY <1>1, <1>2, <1>3, CountGroup
    <3>2. x.reg = <<"NUM_MOD", 0>>
      BY ONLY <1>3 DEF R
    <3> QED BY ONLY <1>1, <3>1, <3>2, CountGroup
  <2> QED BY ONLY <2>1, Answers(x, v) DEF Answers
<1>5. /\ DOMAIN d = Fields /\ d.vals = <<v>> /\ d.op = c.op /\ d.arg = c.arg /\ d.stage = "count"
      /\ d.at = 0 /\ d.mems = <<>> /\ ~d.partial /\ d.rv = ""
  <2>1. Append(c.vals, v) = <<v>>
    BY ONLY <1>1, v \in Int
  <2>2. DOMAIN c = DOMAIN NoCall /\ c.stage = "count" /\ c.rv = ""
    OBVIOUS
  <2>3. /\ DOMAIN d = Fields /\ d.vals = Append(c.vals, v) /\ d.op = c.op /\ d.arg = c.arg
        /\ d.stage = c.stage /\ d.at = c.at /\ d.mems = c.mems /\ d.partial = c.partial
        /\ d.rv = c.rv
    BY ONLY <2>2, DoneFields
  <2> QED BY ONLY <1>1, <2>1, <2>2, <2>3
<1>0. d = Done(c, v) /\ d.vals[1] = n
  <2>2. d.vals = <<v>>
    BY ONLY <1>5
  <2>1. d.vals[1] = v
    BY ONLY <2>2
  <2> QED BY ONLY <1>4, <2>1
<1> HIDE DEF d
<1>6. /\ DOMAIN e = Fields /\ e.vals = <<v>> /\ e.op = c.op /\ e.arg = c.arg
      /\ e.stage = "describe" /\ e.at = 0 /\ e.mems = <<>> /\ ~e.partial /\ e.rv = ""
      /\ e.mods = [i \in 1 .. n |-> NoModule]
  BY ONLY <1>0, <1>5 DEF Fields
<1>7. GroupDone(d, x) = NextModule(e)
  BY ONLY <1>5 DEF GroupDone
<1> HIDE DEF e
<1>8. FirstModules(e, 0)
  <2>1. e.mods \in [1 .. n -> [addr : Nat, vals : Seq(Int)]]
    BY ONLY <1>6, NoModuleType
  <2>2. e.mods \in Seq([addr : Nat, vals : Seq(Int)]) /\ Len(e.mods) = n
    BY ONLY <2>1, FunctionIsSeq, n \in Nat
  <2>3. ASSUME NEW i \in 1 .. n PROVE ~(i <= 0) /\ e.mods[i] = NoModule
    <3>1. ~(i <= 0)
      BY ONLY i \in 1 .. n, n \in Nat
    <3>2. e.mods[i] = NoModule
      BY ONLY <1>6, i \in 1 .. n
    <3> QED BY ONLY <3>1, <3>2
  <2> QED BY ONLY <1>1, <1>2, <1>6, <2>2, <2>3 DEF FirstModules
<1>9. 0 <= Number(e.arg) /\ e.vals \in Seq(Int)
  <2>1. 0 <= Number(e.arg)
    <3>1. Number(e.arg) = n
      BY ONLY <1>2, <1>6
    <3> QED BY ONLY <3>1, n \in Nat
  <2>2. <<v>> \in Seq(Int)
    BY ONLY v \in Int
  <2> QED BY ONLY <1>6, <2>1, <2>2
<1>10. CallInv(NextModule(e), up)
  <2>1. e.op \in {"get_modules", "find_memories"}
    BY <1>6
  <2> QED BY ONLY <1>6, <1>8, <1>9, <2>1, NextModuleCall, CallFields, 0 \in Nat
<1> QED BY ONLY <1>0, <1>3, <1>7, <1>10 DEF After

(* A module has been described, or could not be.                           *)
LEMMA ModuleDescribed ==
    ASSUME NEW d, NEW up, DOMAIN d = Fields, d.vals \in Seq(Int), d.rv = "",
           d.op \in {"get_modules", "find_memories"}, d.stage = "describe",
           d.arg = 0, d.mems = <<>>, NEW a \in Nat, d.at = a + 1, a + 1 <= Number(0),
           FirstModules(d, a),
           NEW m, NEW p,
           \/ m = Described(a) /\ p = d.partial
           \/ m = Unknown(a) /\ p = TRUE
    PROVE  CallInv(NextModule([d EXCEPT !.partial = p, !.mods[a + 1] = m]), up)
<1> DEFINE e == [d EXCEPT !.partial = p, !.mods[a + 1] = m]
<1>1. /\ DOMAIN e = Fields /\ e.vals = d.vals /\ e.op = d.op /\ e.arg = 0 /\ e.at = a + 1
      /\ e.stage = "describe" /\ e.mems = <<>> /\ e.partial = p /\ e.rv = ""
      /\ e.mods = [d.mods EXCEPT ![a + 1] = m]
  BY DEF Fields
<1> HIDE DEF e
<1>2. m \in [addr : Nat, vals : Seq(Int)]
  <2>1. 0 \in Subnet
    BY DEF FirstModules
  <2>2. Number(0) \in Nat /\ (a \in 0 .. (Number(0) - 1) => a \in DOMAIN Device)
    BY ONLY <2>1, Consecutive
  <2>3. a \in DOMAIN Device
    BY ONLY <2>2, a \in Nat, a + 1 <= Number(0)
  <2>4. /\ Described(a) \in [addr : Nat, vals : Seq(Int)]
        /\ Unknown(a) \in [addr : Nat, vals : Seq(Int)]
    BY ONLY <2>3, DescribedType, UnknownType, a \in Nat
  <2> QED BY <2>4
<1>3. FirstModules(e, a + 1)
  <2>1. /\ d.partial => e.partial
        /\ m = Described(a) \/ (e.partial /\ m = Unknown(a))
    BY <1>1
  <2> QED BY ONLY <1>1, <1>2, <2>1, ModuleAdded, a \in Nat, FirstModules(d, a), d.arg = 0,
               a + 1 <= Number(0)
<1>4. CallInv(NextModule(e), up)
  <2>1. a + 1 \in Nat
    BY ONLY a \in Nat
  <2>2. a + 1 <= Number(e.arg)
    BY ONLY <1>1, a + 1 <= Number(0)
  <2>3. e.op \in {"get_modules", "find_memories"} /\ e.rv = "" /\ e.vals \in Seq(Int)
    BY <1>1
  <2>4. PICK at \in Nat : at = a + 1
    BY ONLY <2>1
  <2> QED BY ONLY <1>1, <1>3, <2>2, <2>3, <2>4, NextModuleCall, CallFields
<1> QED BY ONLY <1>4 DEF e

LEMMA AtModule ==
    ASSUME NEW c, DescribingModules(c)
    PROVE  \E a \in Nat : /\ c.at = a + 1 /\ a + 1 <= Number(0) /\ a \in DOMAIN Device
                          /\ c.arg = 0 /\ c.mems = <<>> /\ FirstModules(c, a)
                          /\ Reading(c, osd_hostmod_mod_describe(a), 0)
<1>1. /\ c.arg = 0 /\ c.mems = <<>> /\ c.at \in 1 .. Number(0)
      /\ FirstModules(c, c.at - 1)
      /\ Reading(c, osd_hostmod_mod_describe(c.at - 1), 0)
  BY ONLY DescribingModules(c) DEF DescribingModules
<1>2. 0 \in Subnet
  BY ONLY <1>1 DEF FirstModules
<1>3. PICK n \in Nat : n = Number(0) /\ \A a \in 0 .. (n - 1) : a \in DOMAIN Device
  BY ONLY <1>2, Consecutive
<1>4. PICK a \in Nat : a = c.at - 1 /\ c.at = a + 1 /\ a + 1 <= n /\ a \in 0 .. (n - 1)
  BY ONLY <1>1, <1>3, n \in Nat
<1> QED BY ONLY <1>1, <1>3, <1>4, a \in Nat

LEMMA DescribeDone ==
    ASSUME NEW c, NEW up, DOMAIN c = DOMAIN NoCall, c.vals \in Seq(Int), c.rv = "",
           c.op \in {"get_modules", "find_memories"}, c.stage = "describe",
           DescribingModules(c),
           NEW v \in Int, NEW x, x = Head(c.group), Answers(x, v)
    PROVE  CallInv(After(c, x, v), up)
<1> DEFINE d == Done(c, v)
<1>1. PICK a \in Nat : /\ c.at = a + 1 /\ a + 1 <= Number(0) /\ a \in DOMAIN Device
                       /\ c.arg = 0 /\ c.mems = <<>> /\ FirstModules(c, a)
                       /\ Reading(c, osd_hostmod_mod_describe(a), 0)
  BY AtModule
<1>2. /\ Len(osd_hostmod_mod_describe(a)) = 3
      /\ \A i \in 1 .. 3 : osd_hostmod_mod_describe(a)[i].addr = a
  BY <1>1, DescribeGroup
<1>3. /\ d.vals \in Seq(Int) /\ HasRead(d.vals, osd_hostmod_mod_describe(a), 0)
      /\ Len(c.group) > 1 => Reading(d, osd_hostmod_mod_describe(a), 0)
      /\ ~(Len(c.group) > 1) => Len(d.vals) = 3
      /\ \E i \in 1 .. 3 : x = osd_hostmod_mod_describe(a)[i]
  <2>1. PICK full : full = osd_hostmod_mod_describe(a)
    OBVIOUS
  <2>2. Len(full) = 3 /\ Len(full) \in Nat /\ Reading(c, full, 0)
    BY ONLY <1>1, <1>2, <2>1
  <2>3. /\ DOMAIN c = DOMAIN NoCall /\ c.vals \in Seq(Int)
        /\ Answers(Head(c.group), v)
    OBVIOUS
  <2>4. /\ d.vals \in Seq(Int) /\ HasRead(d.vals, full, 0)
        /\ Len(c.group) > 1 => Reading(d, full, 0)
        /\ ~(Len(c.group) > 1) => Len(d.vals) = 0 + Len(full)
        /\ \E i \in 1 .. Len(full) : Head(c.group) = full[i]
    <3>1. Len(full) \in Nat
      BY ONLY <2>2, <2>3
    <3>2. Reading(c, full, 0)
      BY ONLY <2>2, <2>3
    <3>3. Answers(Head(c.group), v)
      BY ONLY <2>2, <2>3
    <3>4. c.vals \in Seq(Int)
      BY ONLY <2>2, <2>3
    <3>5. DOMAIN c = DOMAIN NoCall
      BY ONLY <2>2, <2>3
    <3>6. d.vals \in Seq(Int)
      BY ONLY <3>1, <3>2, <3>3, <3>4, <3>5, ReadGoesOn, v \in Int, 0 \in Nat
    <3>7. HasRead(d.vals, full, 0)
      BY ONLY <3>1, <3>2, <3>3, <3>4, <3>5, ReadGoesOn, v \in Int, 0 \in Nat
    <3>8. Len(c.group) > 1 => Reading(d, full, 0)
      BY ONLY <3>1, <3>2, <3>3, <3>4, <3>5, ReadGoesOn, v \in Int, 0 \in Nat
    <3>9. ~(Len(c.group) > 1) => Len(d.vals) = 0 + Len(full)
      BY ONLY <3>1, <3>2, <3>3, <3>4, <3>5, ReadGoesOn, v \in Int, 0 \in Nat
    <3>11. Past(c, 0) + 1 \in 1 .. Len(full) /\ Head(c.group) = full[Past(c, 0) + 1]
      BY ONLY <3>1, <3>2, <3>4, ReadHead, 0 \in Nat
    <3>10. \E i \in 1 .. Len(full) : Head(c.group) = full[i]
      BY ONLY <3>11
    <3> QED BY ONLY <3>6, <3>7, <3>8, <3>9, <3>10
  <2>5. 0 + Len(full) = 3
    BY ONLY <2>2
  <2> QED BY ONLY <2>1, <2>2, <2>4, <2>5, x = Head(c.group)
<1>4. /\ DOMAIN d = Fields /\ d.op = c.op /\ d.arg = 0 /\ d.stage = "describe"
      /\ d.at = a + 1 /\ d.mems = <<>> /\ d.partial = c.partial /\ d.rv = "" /\ d.mods = c.mods
  BY <1>1, DoneFields
<1>0. d = Done(c, v)
  OBVIOUS
<1> HIDE DEF d
<1>5. FirstModules(d, a)
  BY ONLY <1>1, <1>4 DEF FirstModules
<1>6. CASE Len(c.group) > 1
  <2>1. (a + 1) - 1 = a /\ a + 1 \in 1 .. Number(0)
    <3>1. Number(0) \in Nat
      BY <1>1, Consecutive DEF FirstModules
    <3> QED BY ONLY <1>1, <3>1, a \in Nat
  <2>2. DescribingModules(d)
    BY ONLY <1>3, <1>4, <1>5, <1>6, <2>1 DEF DescribingModules
  <2>3. CallInv(d, up)
    BY <1>3, <1>4, <2>2, CallFields DEF CallInv, Underway
  <2> QED BY ONLY <1>0, <1>6, <2>3 DEF After
<1>7. CASE ~(Len(c.group) > 1)
  <2>1. d.vals = Described(a).vals
    BY <1>1, <1>3, <1>7, DescribedIs
  <2>2. x.addr = a /\ [addr |-> a, vals |-> d.vals] = Described(a)
    BY <1>2, <1>3, <2>1 DEF Described
  <2>3. GroupDone(d, x) = NextModule([d EXCEPT !.mods[a + 1] = Described(a)])
    BY ONLY <1>4, <2>2 DEF GroupDone
  <2>4. [d EXCEPT !.mods[a + 1] = Described(a)]
            = [d EXCEPT !.partial = d.partial, !.mods[a + 1] = Described(a)]
    BY ONLY <1>4 DEF Fields
  <2>5. CallInv(NextModule([d EXCEPT !.partial = d.partial, !.mods[a + 1] = Described(a)]), up)
    <3>1. d.op \in {"get_modules", "find_memories"}
      BY <1>4
    <3> QED BY ONLY <1>1, <1>3, <1>4, <1>5, <3>1, ModuleDescribed, a \in Nat
  <2> QED BY ONLY <1>0, <1>7, <2>3, <2>4, <2>5 DEF After
<1> QED BY <1>6, <1>7

LEMMA DescribeFailed ==
    ASSUME NEW c, NEW up, DOMAIN c = DOMAIN NoCall, c.vals \in Seq(Int), c.rv = "",
           c.op \in {"get_modules", "find_memories"}, c.stage = "describe",
           DescribingModules(c), NEW x, x = Head(c.group)
    PROVE  CallInv(GroupFailed(c, x), up)
<1>1. PICK a \in Nat : /\ c.at = a + 1 /\ a + 1 <= Number(0) /\ a \in DOMAIN Device
                       /\ c.arg = 0 /\ c.mems = <<>> /\ FirstModules(c, a)
                       /\ Reading(c, osd_hostmod_mod_describe(a), 0)
  BY AtModule
<1>2. x.addr = a
  <2>1. /\ Len(osd_hostmod_mod_describe(a)) = 3
        /\ \A i \in 1 .. 3 : osd_hostmod_mod_describe(a)[i].addr = a
    BY <1>1, DescribeGroup
  <2>2. Len(osd_hostmod_mod_describe(a)) \in Nat /\ 0 \in Nat
    BY ONLY <2>1
  <2>4. c.vals \in Seq(Int) /\ x = Head(c.group)
    OBVIOUS
  <2>3. /\ Past(c, 0) + 1 \in 1 .. Len(osd_hostmod_mod_describe(a))
        /\ x = osd_hostmod_mod_describe(a)[Past(c, 0) + 1]
    BY ONLY <1>1, <2>2, <2>4, ReadHead
  <2> QED BY ONLY <2>1, <2>3
<1>3. GroupFailed(c, x) = NextModule([c EXCEPT !.partial = TRUE, !.mods[a + 1] = Unknown(a)])
  BY <1>2 DEF GroupFailed, Unknown
<1>4. CallInv(NextModule([c EXCEPT !.partial = TRUE, !.mods[a + 1] = Unknown(a)]), up)
  BY <1>1, CallFields, ModuleDescribed
<1> QED BY ONLY <1>3, <1>4

(* A memory has been described, or could not be.                           *)
LEMMA MemoryDescribed ==
    ASSUME NEW d, NEW up, DOMAIN d = Fields, d.vals \in Seq(Int), d.rv = "",
           d.op = "find_memories", d.arg = 0, NEW a \in Nat, d.at = a + 2, a + 1 <= Number(0),
           FirstModules(d, Number(0)), AllDescribed(d), IsMemory(a), FirstMemories(d, a),
           NEW m, m \in [addr : Nat, vals : Seq(Int)], m.addr = a, NEW p,
           \/ Right(m) /\ p = d.partial
           \/ ~Right(m) /\ p = TRUE
    PROVE  CallInv(NextMemory([d EXCEPT !.partial = p, !.mems = Append(@, m)]), up)
<1> DEFINE e == [d EXCEPT !.partial = p, !.mems = Append(@, m)]
<1>1. /\ DOMAIN e = Fields /\ e.vals = d.vals /\ e.op = "find_memories" /\ e.arg = 0
      /\ e.at = a + 2 /\ e.partial = p /\ e.rv = "" /\ e.mods = d.mods
      /\ e.mems = Append(d.mems, m)
  BY DEF Fields
<1> HIDE DEF e
<1>2. PICK n \in Nat : n = Number(0) /\ 0 \in Subnet
  BY ModulesType
<1>3. FirstMemories(e, a + 1)
  <2>1. \/ Right(m) /\ e.partial = d.partial
        \/ ~Right(m) /\ e.partial
    BY <1>1
  <2>2. m \in [addr : Nat, vals : Seq(Int)] /\ m.addr = a
    OBVIOUS
  <2> QED BY ONLY <1>1, <2>1, <2>2, MemoryAdded, a \in Nat, FirstMemories(d, a), IsMemory(a)
<1>4. AllDescribed(e)
  BY ONLY <1>1, AllDescribed(d) DEF AllDescribed
<1>5. FirstModules(e, Number(e.arg))
  <2>1. d.mods \in Seq([addr : Nat, vals : Seq(Int)]) /\ Len(d.mods) = n
    BY ONLY <1>2, FirstModules(d, Number(0)), d.arg = 0 DEF FirstModules
  <2>2. ASSUME NEW i \in 1 .. n PROVE i <= n /\ e.mods[i] = Described(i - 1)
    <3>1. e.mods[i] = Described(i - 1)
      BY ONLY <1>2, <1>4, i \in 1 .. n DEF AllDescribed
    <3>2. i <= n
      BY ONLY i \in 1 .. n, n \in Nat
    <3> QED BY ONLY <3>1, <3>2
  <2> QED BY ONLY <1>1, <1>2, <2>1, <2>2 DEF FirstModules
<1>6. PICK at \in Nat : at = a + 2 /\ at >= 1 /\ at - 1 = a + 1 /\ at <= Number(e.arg) + 1
  <2>1. Number(e.arg) = n /\ a + 1 <= n
    BY ONLY <1>1, <1>2, a + 1 <= Number(0)
  <2>2. a + 2 \in Nat /\ a + 2 >= 1 /\ (a + 2) - 1 = a + 1 /\ a + 2 <= n + 1
    BY ONLY <2>1, a \in Nat, n \in Nat
  <2> QED BY ONLY <2>1, <2>2
<1>7. CallInv(NextMemory(e), up)
  <2>1. e.arg = 0 => AllDescribed(e) /\ FirstMemories(e, at - 1)
    BY ONLY <1>3, <1>4, <1>6
  <2>2. at = e.at /\ e.vals \in Seq(Int) /\ DOMAIN e = DOMAIN NoCall /\ e.arg # 0 => ~e.partial
    BY <1>1, <1>6, CallFields
  <2>3. DOMAIN e = DOMAIN NoCall
    BY ONLY <1>1, CallFields
  <2>4. e.vals \in Seq(Int)
    BY <1>1
  <2>5. at = e.at /\ (e.arg # 0 => ~e.partial)
    BY ONLY <1>1, <1>6
  <2> QED BY ONLY <1>1, <1>5, <1>6, <2>1, <2>3, <2>4, <2>5, NextMemoryCall, at \in Nat
<1> QED BY ONLY <1>7 DEF e

LEMMA AtMemory ==
    ASSUME NEW c, ReadingMemory(c)
    PROVE  \E a \in Nat :
              /\ c.at = a + 2 /\ a + 1 <= Number(0) /\ a \in DOMAIN Device
              /\ c.op = "find_memories" /\ c.arg = 0 /\ FirstModules(c, Number(0))
              /\ AllDescribed(c) /\ IsMemory(a) /\ FirstMemories(c, a)
              /\ \/ Reading(c, MamGroup(Described(a)), 0)
                 \/ /\ Regions(a) > 0 /\ Len(c.vals) >= 3 /\ c.vals[3] = Regions(a)
                    /\ Reading(c, RegionGroup(a, Regions(a)), 3)
<1>1. PICK a : a = c.at - 2
  OBVIOUS
<1>2. /\ c.op = "find_memories" /\ c.arg = 0 /\ c.at \in 2 .. (Number(0) + 1)
      /\ FirstModules(c, Number(0)) /\ AllDescribed(c) /\ IsMemory(a)
      /\ FirstMemories(c, a)
      /\ \/ Reading(c, MamGroup(Described(a)), 0)
         \/ /\ Regions(a) > 0 /\ Len(c.vals) >= 3 /\ c.vals[3] = Regions(a)
            /\ Reading(c, RegionGroup(a, Regions(a)), 3)
  BY ONLY <1>1, ReadingMemory(c) DEF ReadingMemory
<1>3. 0 \in Subnet
  BY ONLY <1>2 DEF FirstModules
<1>4. PICK n \in Nat : n = Number(0) /\ \A b \in 0 .. (n - 1) : b \in DOMAIN Device
  BY ONLY <1>3, Consecutive
<1>5. a \in Nat /\ c.at = a + 2 /\ a + 1 <= n /\ a \in 0 .. (n - 1)
  BY ONLY <1>1, <1>2, <1>4, n \in Nat
<1> QED BY ONLY <1>2, <1>4, <1>5

(* Where the accesses of the group of a memory go.                         *)
LEMMA MemoryHead ==
    ASSUME NEW c, c.vals \in Seq(Int), NEW a \in DOMAIN Device, IsMemory(a),
           \/ Reading(c, MamGroup(Described(a)), 0)
           \/ Reading(c, RegionGroup(a, Regions(a)), 3)
    PROVE  Head(c.group).addr = a
<1>1. CASE Reading(c, MamGroup(Described(a)), 0)
  <2>1. PICK full : full = MamGroup(Described(a))
    OBVIOUS
  <2>2. Len(full) = 3 /\ \A i \in 1 .. 3 : full[i].addr = a
    BY ONLY <2>1, MemoryGroup, a \in DOMAIN Device, IsMemory(a)
  <2>3. Len(full) \in Nat /\ Reading(c, full, 0)
    BY ONLY <1>1, <2>1, <2>2
  <2>4. Past(c, 0) + 1 \in 1 .. Len(full) /\ Head(c.group) = full[Past(c, 0) + 1]
    BY ONLY <2>3, ReadHead, 0 \in Nat, c.vals \in Seq(Int)
  <2> QED BY ONLY <2>2, <2>4
<1>2. CASE Reading(c, RegionGroup(a, Regions(a)), 3)
  <2>1. PICK full : full = RegionGroup(a, Regions(a))
    OBVIOUS
  <2>2. full \in Seq(Reads) /\ Len(full) = Total(Regions(a))
        /\ \A i \in 1 .. Total(Regions(a)) : full[i].addr = a
    BY ONLY <2>1, RegionGroupType, a \in DOMAIN Device, IsMemory(a)
  <2>3. Len(full) \in Nat /\ Reading(c, full, 3)
    BY ONLY <1>2, <2>1, <2>2
  <2>4. Past(c, 3) + 1 \in 1 .. Len(full) /\ Head(c.group) = full[Past(c, 3) + 1]
    BY ONLY <2>3, ReadHead, 3 \in Nat, c.vals \in Seq(Int)
  <2> QED BY ONLY <2>2, <2>4
<1> QED BY <1>1, <1>2

LEMMA MemoryDone ==
    ASSUME NEW c, NEW up, DOMAIN c = DOMAIN NoCall, c.vals \in Seq(Int), c.rv = "",
           c.stage = "mam", ReadingMemory(c),
           NEW v \in Int, NEW x, x = Head(c.group), Answers(x, v)
    PROVE  CallInv(After(c, x, v), up)
<1> DEFINE d == Done(c, v)
<1>1. PICK a \in Nat :
          /\ c.at = a + 2 /\ a + 1 <= Number(0) /\ a \in DOMAIN Device
          /\ c.op = "find_memories" /\ c.arg = 0 /\ FirstModules(c, Number(0))
          /\ AllDescribed(c) /\ IsMemory(a) /\ FirstMemories(c, a)
          /\ \/ Reading(c, MamGroup(Described(a)), 0)
             \/ /\ Regions(a) > 0 /\ Len(c.vals) >= 3 /\ c.vals[3] = Regions(a)
                /\ Reading(c, RegionGroup(a, Regions(a)), 3)
  BY AtMemory
<1>2. x.addr = a
  BY ONLY <1>1, MemoryHead, x = Head(c.group), c.vals \in Seq(Int)
<1>3. /\ DOMAIN d = Fields /\ d.op = "find_memories" /\ d.arg = 0 /\ d.stage = "mam"
      /\ d.at = a + 2 /\ d.mems = c.mems /\ d.partial = c.partial /\ d.rv = "" /\ d.mods = c.mods
  <2>1. DOMAIN c = DOMAIN NoCall /\ c.rv = "" /\ c.stage = "mam"
    OBVIOUS
  <2>2. /\ DOMAIN d = Fields /\ d.op = c.op /\ d.arg = c.arg /\ d.stage = c.stage
        /\ d.at = c.at /\ d.mems = c.mems /\ d.partial = c.partial /\ d.rv = c.rv /\ d.mods = c.mods
    BY ONLY <2>1, DoneFields
  <2> QED BY ONLY <1>1, <2>1, <2>2
<1>4. d = Done(c, v) /\ d.vals \in Seq(Int) /\ DOMAIN c = DOMAIN NoCall /\ c.vals \in Seq(Int)
      /\ Answers(Head(c.group), v)
  <2>1. d.vals = Append(c.vals, v)
    BY ONLY DoneFields, DOMAIN c = DOMAIN NoCall
  <2>2. Append(c.vals, v) \in Seq(Int)
    BY ONLY c.vals \in Seq(Int), v \in Int
  <2> QED BY <2>1, <2>2
<1> HIDE DEF d
<1>5. FirstModules(d, Number(0)) /\ AllDescribed(d) /\ FirstMemories(d, a)
  BY ONLY <1>1, <1>3 DEF FirstModules, AllDescribed, FirstMemories
<1>6. PICK n \in Nat : n = Regions(a)
  BY ONLY <1>1, EveryMemory
<1>7. ASSUME \/ Reading(d, MamGroup(Described(a)), 0)
             \/ /\ Regions(a) > 0 /\ Len(d.vals) >= 3 /\ d.vals[3] = Regions(a)
                /\ Reading(d, RegionGroup(a, Regions(a)), 3)
      PROVE  CallInv(d, up)
  <2>1. PICK k \in Nat : k = Number(0)
    BY ONLY <1>1, ModulesType
  <2>2. d.at - 2 = a /\ d.at \in 2 .. (Number(0) + 1)
    <3>1. (a + 2) - 2 = a /\ a + 2 \in 2 .. (k + 1)
      BY ONLY <1>1, <2>1, a \in Nat, k \in Nat
    <3> QED BY ONLY <1>3, <2>1, <3>1
  <2>3. ReadingMemory(d)
    BY ONLY <1>1, <1>3, <1>5, <1>7, <2>2 DEF ReadingMemory
  <2> QED BY ONLY <1>3, <1>4, <2>3, CallFields DEF CallInv, Underway
<1>8. ASSUME d.vals[3] = n, Len(d.vals) = 3 + Total(n), NEW full,
             full = RegionGroup(a, n), HasRead(d.vals, full, 3)
      PROVE  CallInv(NextMemory([d EXCEPT !.mems = Append(@, [addr |-> x.addr, vals |-> d.vals])]), up)
  <2>1. RegionsOf(d.vals) = MemoryMap[a]
    BY ONLY <1>1, <1>4, <1>6, <1>8, RegionsRight
  <2>2. PICK m : m = [addr |-> x.addr, vals |-> d.vals]
    OBVIOUS
  <2>3. m \in [addr : Nat, vals : Seq(Int)] /\ m.addr = a /\ m.vals = d.vals
    BY ONLY <1>2, <1>4, <2>2, a \in Nat
  <2>4. PICK t \in Nat : t = Total(n)
    BY ONLY AtTotal, n \in Nat
  <2>5. Len(d.vals) >= 3
    BY ONLY <1>8, <2>4, t \in Nat
  <2>6. Right(m)
    BY ONLY <2>1, <2>3, <2>5 DEF Right
  <2>7. CallInv(NextMemory([d EXCEPT !.partial = d.partial, !.mems = Append(@, m)]), up)
    BY ONLY <1>1, <1>3, <1>4, <1>5, <2>3, <2>6, MemoryDescribed, a \in Nat
  <2>8. [d EXCEPT !.partial = d.partial, !.mems = Append(@, m)] = [d EXCEPT !.mems = Append(@, m)]
    BY ONLY <1>3 DEF Fields
  <2> QED BY ONLY <2>2, <2>7, <2>8
<1>9. CASE Reading(c, MamGroup(Described(a)), 0)
  <2>1. PICK full : full = MamGroup(Described(a))
    OBVIOUS
  <2>2. Len(full) = 3 /\ Val(full[3]) = n /\ Steady(full[3].reg)
    BY ONLY <1>1, <1>6, <2>1, MemoryGroup
  <2>3. Len(full) \in Nat /\ Reading(c, full, 0)
    BY ONLY <1>9, <2>1, <2>2
  <2>4. HasRead(d.vals, full, 0)
    BY ONLY <1>4, <2>3, ReadGoesOn, v \in Int, 0 \in Nat
  <2>5. Len(c.group) > 1 => Reading(d, full, 0)
    BY ONLY <1>4, <2>3, ReadGoesOn, v \in Int, 0 \in Nat
  <2>6. ~(Len(c.group) > 1) => Len(d.vals) = 0 + Len(full)
    BY ONLY <1>4, <2>3, ReadGoesOn, v \in Int, 0 \in Nat
  <2>7. CASE Len(c.group) > 1
    <3>1. CallInv(d, up)
      BY ONLY <1>7, <2>1, <2>5, <2>7
    <3> QED BY ONLY <1>4, <2>7, <3>1 DEF After
  <2>8. CASE ~(Len(c.group) > 1)
    <3>1. Len(d.vals) = 3
      BY ONLY <2>2, <2>6, <2>8
    <3>2. d.vals[3] = n
      <4>1. 3 \in 1 .. (Len(d.vals) - 0) /\ 0 + 3 = 3
        BY ONLY <3>1
      <4> QED BY ONLY <2>2, <2>4, <4>1 DEF HasRead
    <3>3. CASE n > 0
      <4> DEFINE e == [d EXCEPT !.group = RegionGroup(x.addr, d.vals[3])]
      <4>1. GroupDone(d, x) = e
        BY ONLY <1>3, <3>1, <3>2, <3>3 DEF GroupDone
      <4>2. /\ DOMAIN e = Fields /\ e.op = "find_memories" /\ e.arg = 0 /\ e.stage = "mam"
            /\ e.at = a + 2 /\ e.mems = d.mems /\ e.partial = d.partial /\ e.rv = ""
            /\ e.mods = d.mods /\ e.vals = d.vals /\ e.group = RegionGroup(a, n)
        BY ONLY <1>2, <1>3, <3>2 DEF Fields
      <4> HIDE DEF e
      <4>3. FirstModules(e, Number(0)) /\ AllDescribed(e) /\ FirstMemories(e, a)
        BY ONLY <1>3, <1>5, <4>2 DEF FirstModules, AllDescribed, FirstMemories
      <4>4. PICK group : group = RegionGroup(a, n)
        OBVIOUS
      <4>5. group \in Seq(Reads) /\ Len(group) = Total(n)
        BY ONLY <1>1, <1>6, <4>4, RegionGroupType
      <4>6. Total(n) > 0
        BY ONLY <3>3, AtIs, Numbers, n \in Nat DEF Total
      <4>7. Len(group) > 0
        BY ONLY <4>5, <4>6
      <4>8. Reading(e, group, 3)
        BY ONLY <3>1, <4>2, <4>4, <4>5, <4>7, ReadStart, 3 \in Nat
      <4>9. PICK k \in Nat : k = Number(0)
        BY ONLY <1>1, ModulesType
      <4>10. e.at - 2 = a /\ e.at \in 2 .. (Number(0) + 1)
        <5>1. (a + 2) - 2 = a /\ a + 2 \in 2 .. (k + 1)
          BY ONLY <1>1, <4>9, a \in Nat, k \in Nat
        <5> QED BY ONLY <4>2, <4>9, <5>1
      <4>11. Len(e.vals) >= 3 /\ e.vals[3] = Regions(a) /\ Regions(a) > 0
        <5>1. e.vals = d.vals
          BY ONLY <4>2
        <5>2. Len(e.vals) >= 3
          BY ONLY <3>1, <5>1, SMTT(40)
        <5> QED BY ONLY <1>6, <3>2, <3>3, <5>1, <5>2
      <4>12. ReadingMemory(e)
        BY ONLY <1>1, <1>6, <4>2, <4>3, <4>4, <4>8, <4>10, <4>11 DEF ReadingMemory
      <4>13. CallInv(e, up)
        BY ONLY <1>4, <4>2, <4>12, CallFields DEF CallInv, Underway
      <4> QED BY ONLY <1>4, <2>8, <4>1, <4>13 DEF After
    <3>4. CASE ~(n > 0)
      <4>1. n = 0 /\ Total(n) = 0
        BY ONLY <3>4, Numbers, n \in Nat DEF Total
      <4>2. Len(d.vals) = 3 + Total(n)
        BY ONLY <3>1, <4>1
      <4>3. PICK group : group = RegionGroup(a, n)
        OBVIOUS
      <4>4. HasRead(d.vals, group, 3)
        BY ONLY <3>1 DEF HasRead
      <4>5. GroupDone(d, x)
                = NextMemory([d EXCEPT !.mems = Append(@, [addr |-> x.addr, vals |-> d.vals])])
        BY ONLY <1>3, <3>2, <3>4 DEF GroupDone
      <4> QED BY ONLY <1>4, <1>8, <2>8, <3>2, <4>2, <4>3, <4>4, <4>5 DEF After
    <3> QED BY ONLY <3>3, <3>4
  <2> QED BY ONLY <2>7, <2>8
<1>10. CASE /\ Regions(a) > 0 /\ Len(c.vals) >= 3 /\ c.vals[3] = Regions(a)
            /\ Reading(c, RegionGroup(a, Regions(a)), 3)
  <2>1. PICK full : full = RegionGroup(a, Regions(a))
    OBVIOUS
  <2>2. full \in Seq(Reads) /\ Len(full) = Total(n)
    BY ONLY <1>1, <1>6, <2>1, RegionGroupType
  <2>3. Len(full) \in Nat /\ Reading(c, full, 3)
    BY ONLY <1>10, <2>1, <2>2
  <2>4. HasRead(d.vals, full, 3)
    BY ONLY <1>4, <2>3, ReadGoesOn, v \in Int, 3 \in Nat
  <2>5. Len(c.group) > 1 => Reading(d, full, 3)
    BY ONLY <1>4, <2>3, ReadGoesOn, v \in Int, 3 \in Nat
  <2>6. ~(Len(c.group) > 1) => Len(d.vals) = 3 + Len(full)
    BY ONLY <1>4, <2>3, ReadGoesOn, v \in Int, 3 \in Nat, SMTT(40)
  <2>7. Len(d.vals) = Len(c.vals) + 1
    BY ONLY <1>4, <2>3, ReadGoesOn, v \in Int, 3 \in Nat
  <2>8. \A i \in 1 .. Len(c.vals) : d.vals[i] = c.vals[i]
    BY ONLY <1>4, <2>3, ReadGoesOn, v \in Int, 3 \in Nat, SMTT(40)
  <2>9. Len(d.vals) >= 3 /\ Len(d.vals) # 3 /\ d.vals[3] = n /\ n > 0
    <3>1. PICK l \in Nat : l = Len(c.vals) /\ l >= 3
      BY ONLY <1>4, <1>10
    <3>2. 3 \in 1 .. l
      BY ONLY <3>1
    <3> QED BY ONLY <1>6, <1>10, <2>7, <2>8, <3>1, <3>2
  <2>10. CASE Len(c.group) > 1
    <3>1. CallInv(d, up)
      BY ONLY <1>6, <1>7, <2>1, <2>5, <2>9, <2>10
    <3> QED BY ONLY <1>4, <2>10, <3>1 DEF After
  <2>11. CASE ~(Len(c.group) > 1)
    <3>1. Len(d.vals) = 3 + Total(n)
      BY ONLY <2>2, <2>6, <2>11
    <3>2. GroupDone(d, x)
              = NextMemory([d EXCEPT !.mems = Append(@, [addr |-> x.addr, vals |-> d.vals])])
      BY ONLY <1>3, <2>9 DEF GroupDone
    <3> QED BY ONLY <1>4, <1>6, <1>8, <2>1, <2>4, <2>9, <2>11, <3>1, <3>2 DEF After
  <2> QED BY ONLY <2>10, <2>11
<1> QED BY ONLY <1>1, <1>9, <1>10

LEMMA MemoryFailed ==
    ASSUME NEW c, NEW up, DOMAIN c = DOMAIN NoCall, c.vals \in Seq(Int), c.rv = "",
           c.stage = "mam", ReadingMemory(c), NEW x, x = Head(c.group)
    PROVE  CallInv(GroupFailed(c, x), up)
<1>1. PICK a \in Nat :
          /\ c.at = a + 2 /\ a + 1 <= Number(0) /\ a \in DOMAIN Device
          /\ c.op = "find_memories" /\ c.arg = 0 /\ FirstModules(c, Number(0))
          /\ AllDescribed(c) /\ IsMemory(a) /\ FirstMemories(c, a)
          /\ \/ Reading(c, MamGroup(Described(a)), 0)
             \/ /\ Regions(a) > 0 /\ Len(c.vals) >= 3 /\ c.vals[3] = Regions(a)
                /\ Reading(c, RegionGroup(a, Regions(a)), 3)
  BY AtMemory
<1>2. x.addr = a
  BY ONLY <1>1, MemoryHead, x = Head(c.group), c.vals \in Seq(Int)
<1>3. PICK m : m = [addr |-> x.addr, vals |-> c.vals]
  OBVIOUS
<1>4. m \in [addr : Nat, vals : Seq(Int)] /\ m.addr = a /\ m.vals = c.vals
  BY ONLY <1>2, <1>3, a \in Nat, c.vals \in Seq(Int)
<1>5. ~Right(m)
  <2>1. CASE Reading(c, MamGroup(Described(a)), 0)
    <3>1. PICK full : full = MamGroup(Described(a))
      OBVIOUS
    <3>2. Len(full) = 3
      BY ONLY <1>1, <3>1, MemoryGroup
    <3>3. Past(c, 0) \in 0 .. (3 - 1)
      BY ONLY <2>1, <3>1, <3>2 DEF Reading
    <3>4. ~(Len(c.vals) >= 3)
      <4>1. PICK l \in Nat : l = Len(c.vals)
        BY ONLY c.vals \in Seq(Int)
      <4>2. Past(c, 0) = l - 0
        BY ONLY <4>1 DEF Past
      <4>3. PICK q \in 0 .. (3 - 1) : q = Past(c, 0)
        BY ONLY <3>3
      <4>4. q = l - 0
        BY ONLY <4>2, <4>3
      <4>5. l <= 2
        BY ONLY <4>4, q \in 0 .. (3 - 1), l \in Nat
      <4> QED BY ONLY <4>1, <4>5
    <3> QED BY ONLY <1>4, <3>4 DEF Right
  <2>2. CASE /\ Regions(a) > 0 /\ Len(c.vals) >= 3 /\ c.vals[3] = Regions(a)
             /\ Reading(c, RegionGroup(a, Regions(a)), 3)
    <3>1. PICK full : full = RegionGroup(a, Regions(a))
      OBVIOUS
    <3>2. full \in Seq(Reads) /\ Len(full) = Total(Regions(a))
      BY ONLY <1>1, <3>1, RegionGroupType
    <3>3. Past(c, 3) \in 0 .. (Len(full) - 1)
      BY ONLY <2>2, <3>1 DEF Reading
    <3>4. Len(c.vals) < 3 + Len(full)
      BY ONLY <3>2, <3>3, c.vals \in Seq(Int) DEF Past
    <3>5. RegionsOf(c.vals) # MemoryMap[a]
      BY ONLY <1>1, <2>2, <3>2, <3>4, RegionsWrong
    <3> QED BY ONLY <1>4, <3>5 DEF Right
  <2> QED BY ONLY <1>1, <2>1, <2>2
<1>6. GroupFailed(c, x) = NextMemory([c EXCEPT !.partial = TRUE, !.mems = Append(@, m)])
  BY ONLY <1>3, c.stage = "mam" DEF GroupFailed
<1>7. CallInv(NextMemory([c EXCEPT !.partial = TRUE, !.mems = Append(@, m)]), up)
  <2>1. DOMAIN c = Fields /\ c.vals \in Seq(Int) /\ c.rv = ""
    BY CallFields
  <2> QED BY ONLY <1>1, <1>4, <1>5, <2>1, MemoryDescribed, a \in Nat
<1> QED BY ONLY <1>6, <1>7

LEMMA TypeDone ==
    ASSUME NEW c, NEW up, DOMAIN c = DOMAIN NoCall, c.vals \in Seq(Int), c.rv = "",
           c.stage = "type", CheckingType(c),
           NEW v \in Int, NEW x, x = Head(c.group), Answers(x, v)
    PROVE  CallInv(After(c, x, v), up)
<1> DEFINE d == Done(c, v)
<1>1. PICK a : a = c.arg
  OBVIOUS
<1>2. /\ c.op \in DescOps /\ a \in DOMAIN Device
      /\ Reading(c, osd_hostmod_mod_describe(a), 0)
  BY ONLY <1>1, CheckingType(c) DEF CheckingType
<1>3. PICK full : full = osd_hostmod_mod_describe(a)
  OBVIOUS
<1>4. Len(full) = 3 /\ Len(full) \in Nat /\ Reading(c, full, 0) /\ 0 + Len(full) = 3
      /\ \A i \in 1 .. 3 : full[i].addr = a
  <2>1. Len(full) = 3 /\ \A i \in 1 .. 3 : full[i].addr = a
    BY ONLY <1>2, <1>3, DescribeGroup
  <2> QED BY ONLY <1>2, <1>3, <2>1
<1>5. x.addr = a
  <2>1. Past(c, 0) + 1 \in 1 .. Len(full) /\ x = full[Past(c, 0) + 1]
    BY ONLY <1>4, ReadHead, 0 \in Nat, c.vals \in Seq(Int), x = Head(c.group)
  <2> QED BY ONLY <1>4, <2>1
<1>6. /\ d = Done(c, v) /\ DOMAIN d = Fields /\ d.op = c.op /\ d.arg = a /\ d.stage = "type"
      /\ d.rv = "" /\ d.vals = Append(c.vals, v) /\ d.vals \in Seq(Int)
      /\ DOMAIN c = DOMAIN NoCall /\ c.vals \in Seq(Int) /\ Answers(Head(c.group), v)
      /\ d.group = Tail(c.group)
  <2>1. DOMAIN c = DOMAIN NoCall /\ c.rv = "" /\ c.stage = "type"
    OBVIOUS
  <2>2. /\ DOMAIN d = Fields /\ d.op = c.op /\ d.arg = c.arg /\ d.stage = c.stage
        /\ d.rv = c.rv /\ d.vals = Append(c.vals, v) /\ d.group = Tail(c.group)
    BY ONLY <2>1, DoneFields
  <2>3. Append(c.vals, v) \in Seq(Int)
    BY ONLY c.vals \in Seq(Int), v \in Int
  <2>4. Answers(Head(c.group), v) /\ c.vals \in Seq(Int)
    BY x = Head(c.group)
  <2> QED BY ONLY <1>1, <2>1, <2>2, <2>3, <2>4
<1> HIDE DEF d
<1>7. HasRead(d.vals, full, 0)
  BY ONLY <1>4, <1>6, ReadGoesOn, v \in Int, 0 \in Nat
<1>8. Len(c.group) > 1 => Reading(d, full, 0)
  BY ONLY <1>4, <1>6, ReadGoesOn, v \in Int, 0 \in Nat
<1>9. ~(Len(c.group) > 1) => Len(d.vals) = 0 + Len(full)
  BY ONLY <1>4, <1>6, ReadGoesOn, v \in Int, 0 \in Nat, ZenonT(60)
<1>10. CASE Len(c.group) > 1
  <2>1. CheckingType(d)
    BY ONLY <1>2, <1>3, <1>6, <1>8, <1>10 DEF CheckingType
  <2>2. CallInv(d, up)
    BY ONLY <1>6, <2>1, CallFields DEF CallInv, Underway
  <2> QED BY ONLY <1>6, <1>10, <2>2 DEF After
<1>11. CASE ~(Len(c.group) > 1)
  <2>1. Len(d.vals) = 3
    BY ONLY <1>4, <1>9, <1>11
  <2>2. d.vals = Described(a).vals
    BY ONLY <1>2, <1>3, <1>6, <1>7, <2>1, DescribedIs
  <2>3. After(c, x, v) = GroupDone(d, x)
    BY ONLY <1>6, <1>11 DEF After
  <2>4. CASE d.vals # <<VENDOR_OSD, Types[d.op], 0>>
    <3> DEFINE e == [d EXCEPT !.rv = "WRONG_MODULE"]
    <3>1. GroupDone(d, x) = e
      BY ONLY <1>6, <2>4 DEF GroupDone
    <3>2. DOMAIN e = Fields /\ e.vals = d.vals /\ e.rv = "WRONG_MODULE"
      BY ONLY <1>6 DEF Fields
    <3>3. CallInv(e, up)
      BY ONLY <1>6, <3>2, Failed
    <3> QED BY ONLY <2>3, <3>1, <3>3
  <2>5. CASE d.vals = <<VENDOR_OSD, Types[d.op], 0>>
    <3>1. TypeOf(a) = Types[d.op]
      <4>1. d.vals[2] = TypeOf(a)
        BY ONLY <2>2 DEF Described
      <4>2. d.vals[2] = Types[d.op]
        BY ONLY <2>5
      <4> QED BY ONLY <4>1, <4>2
    <3>2. CASE DescRegs[d.op] # <<>>
      <4> DEFINE e == [d EXCEPT !.stage = "desc", !.vals = <<>>,
                                !.group = [i \in DOMAIN DescRegs[d.op] |->
                                              R(x.addr, DescRegs[d.op][i], 0)]]
      <4>1. GroupDone(d, x) = e
        BY ONLY <1>6, <2>5, <3>2 DEF GroupDone
      <4>2. PICK group : group = DescGroup(d.op, a)
        OBVIOUS
      <4>3. /\ DOMAIN e = Fields /\ e.op = d.op /\ e.arg = a /\ e.stage = "desc" /\ e.rv = ""
            /\ e.vals = <<>> /\ e.group = group
        BY ONLY <1>5, <1>6, <4>2 DEF Fields, DescGroup
      <4> HIDE DEF e
      <4>4. d.op \in DescOps
        BY ONLY <1>2, <1>6
      <4>5. group \in Seq(Reads) /\ Len(group) = Len(DescRegs[d.op])
            /\ Len(DescRegs[d.op]) \in 0 .. 3
        BY ONLY <1>2, <3>1, <4>2, <4>4, DescriptorGroup, DescriptorGroupType
      <4>6. Len(DescRegs[d.op]) # 0
        BY ONLY <3>2, <4>4 DEF DescOps, DescRegs
      <4>7. Len(group) > 0
        BY ONLY <4>5, <4>6
      <4>8. Reading(e, group, 0)
        BY ONLY <4>3, <4>5, <4>7, EmptyValues, ReadStart, 0 \in Nat
      <4>9. ReadingDesc(e)
        BY ONLY <1>2, <3>1, <4>2, <4>3, <4>4, <4>8 DEF ReadingDesc
      <4>10. CallInv(e, up)
        BY ONLY <4>3, <4>9, CallFields, EmptyValues DEF CallInv, Underway
      <4> QED BY ONLY <2>3, <4>1, <4>10
    <3>3. CASE DescRegs[d.op] = <<>>
      <4> DEFINE e == [d EXCEPT !.rv = "OK"]
      <4>1. GroupDone(d, x) = e
        BY ONLY <1>6, <2>5, <3>3 DEF GroupDone
      <4>2. DOMAIN e = Fields /\ e.op = d.op /\ e.arg = a /\ e.vals = d.vals /\ e.rv = "OK"
        BY ONLY <1>6 DEF Fields
      <4> HIDE DEF e
      <4>3. d.op \notin {"get_modules", "find_memories"}
        BY ONLY <1>2, <1>6 DEF DescOps, DescRegs
      <4>4. DOMAIN DescRegs[e.op] = {}
        BY ONLY <3>3, <4>2, EmptyMemories
      <4>5. DescOf(e)
        BY ONLY <3>1, <4>2, <4>4 DEF DescOf
      <4>6. CallInv(e, up)
        BY ONLY <1>6, <4>2, <4>3, <4>5, CallFields DEF CallInv, Results, ModulesOf, MemoriesOf
      <4> QED BY ONLY <2>3, <4>1, <4>6
    <3> QED BY ONLY <3>2, <3>3
  <2> QED BY ONLY <2>4, <2>5
<1> QED BY ONLY <1>10, <1>11

LEMMA DescDone ==
    ASSUME NEW c, NEW up, DOMAIN c = DOMAIN NoCall, c.vals \in Seq(Int), c.rv = "",
           c.stage = "desc", ReadingDesc(c),
           NEW v \in Int, NEW x, x = Head(c.group), Answers(x, v)
    PROVE  CallInv(After(c, x, v), up)
<1> DEFINE d == Done(c, v)
<1>1. PICK a, op : a = c.arg /\ op = c.op
  OBVIOUS
<1>2. /\ op \in DescOps /\ a \in DOMAIN Device /\ TypeOf(a) = Types[op]
      /\ Reading(c, DescGroup(op, a), 0)
  BY ONLY <1>1, ReadingDesc(c) DEF ReadingDesc
<1>3. PICK full : full = DescGroup(op, a)
  OBVIOUS
<1>4. /\ Len(full) = Len(DescRegs[op]) /\ Len(full) \in Nat /\ Reading(c, full, 0)
      /\ \A i \in 1 .. Len(full) :
            /\ full[i].addr = a /\ full[i].reg = <<DescRegs[op][i], 0>>
            /\ DescRegs[op][i] # "CORE_REG_UPPER" => Steady(full[i].reg)
  <2>1. /\ Len(full) = Len(DescRegs[op]) /\ Len(DescRegs[op]) \in 0 .. 3
        /\ \A i \in 1 .. Len(DescRegs[op]) :
              /\ full[i].addr = a /\ full[i].reg = <<DescRegs[op][i], 0>>
              /\ DescRegs[op][i] # "CORE_REG_UPPER" => Steady(full[i].reg)
    BY ONLY <1>2, <1>3, DescriptorGroup
  <2> QED BY ONLY <1>2, <1>3, <2>1
<1>6. /\ d = Done(c, v) /\ DOMAIN d = Fields /\ d.op = op /\ d.arg = a /\ d.stage = "desc"
      /\ d.rv = "" /\ d.vals = Append(c.vals, v) /\ d.vals \in Seq(Int)
      /\ DOMAIN c = DOMAIN NoCall /\ c.vals \in Seq(Int) /\ Answers(Head(c.group), v)
      /\ d.group = Tail(c.group)
  <2>1. DOMAIN c = DOMAIN NoCall /\ c.rv = "" /\ c.stage = "desc"
    OBVIOUS
  <2>2. /\ DOMAIN d = Fields /\ d.op = c.op /\ d.arg = c.arg /\ d.stage = c.stage
        /\ d.rv = c.rv /\ d.vals = Append(c.vals, v) /\ d.group = Tail(c.group)
    BY ONLY <2>1, DoneFields
  <2>3. Append(c.vals, v) \in Seq(Int)
    BY ONLY c.vals \in Seq(Int), v \in Int
  <2>4. Answers(Head(c.group), v) /\ c.vals \in Seq(Int)
    BY x = Head(c.group)
  <2> QED BY ONLY <1>1, <2>1, <2>2, <2>3, <2>4
<1> HIDE DEF d
<1>7. HasRead(d.vals, full, 0)
  BY ONLY <1>4, <1>6, ReadGoesOn, v \in Int, 0 \in Nat
<1>8. Len(c.group) > 1 => Reading(d, full, 0)
  BY ONLY <1>4, <1>6, ReadGoesOn, v \in Int, 0 \in Nat
<1>9. ~(Len(c.group) > 1) => Len(d.vals) = 0 + Len(full)
  BY ONLY <1>4, <1>6, ReadGoesOn, v \in Int, 0 \in Nat, ZenonT(60)
<1>10. CASE Len(c.group) > 1
  <2>1. ReadingDesc(d)
    BY ONLY <1>2, <1>3, <1>6, <1>8, <1>10 DEF ReadingDesc
  <2>2. CallInv(d, up)
    BY ONLY <1>6, <2>1, CallFields DEF CallInv, Underway
  <2> QED BY ONLY <1>6, <1>10, <2>2 DEF After
<1>11. CASE ~(Len(c.group) > 1)
  <2> DEFINE e == [d EXCEPT !.rv = "OK"]
  <2>1. GroupDone(d, x) = e
    BY ONLY <1>6 DEF GroupDone
  <2>2. DOMAIN e = Fields /\ e.op = op /\ e.arg = a /\ e.vals = d.vals /\ e.rv = "OK"
    BY ONLY <1>6 DEF Fields
  <2> HIDE DEF e
  <2>3. op \notin {"get_modules", "find_memories"}
    BY ONLY <1>2 DEF DescOps, DescRegs
  <2>4. Len(d.vals) = Len(full)
    BY ONLY <1>4, <1>9, <1>11
  <2>5. DOMAIN DescRegs[op] = 1 .. Len(full)
    <3>1. DOMAIN DescRegs[op] = 1 .. Len(DescRegs[op])
      BY ONLY <1>2 DEF DescOps, DescRegs
    <3> QED BY ONLY <1>4, <3>1
  <2>6. ASSUME NEW i \in 1 .. Len(full), DescRegs[op][i] # "CORE_REG_UPPER"
        PROVE  d.vals[i] = Device[a][<<DescRegs[op][i], 0>>]
    <3>1. i \in 1 .. (Len(d.vals) - 0) /\ 0 + i = i
      BY ONLY <1>4, <2>4, i \in 1 .. Len(full)
    <3>2. d.vals[i] = Val(full[i])
      BY ONLY <1>4, <1>7, <2>6, <3>1, i \in 1 .. Len(full) DEF HasRead
    <3> QED BY ONLY <1>4, <3>2, i \in 1 .. Len(full) DEF Val
  <2>7. DescOf(e)
    BY ONLY <1>2, <2>2, <2>5, <2>6 DEF DescOf
  <2>8. CallInv(e, up)
    BY ONLY <1>6, <2>2, <2>3, <2>7, CallFields DEF CallInv, Results, ModulesOf, MemoriesOf
  <2> QED BY ONLY <1>6, <1>11, <2>1, <2>8 DEF After
<1> QED BY ONLY <1>10, <1>11

LEMMA Pair ==
    ASSUME NEW p, NEW q
    PROVE  Head(<<p, q>>) = p /\ Len(<<p, q>>) > 1 /\ Tail(<<p, q>>) = <<q>>
OBVIOUS

LEMMA Single ==
    ASSUME NEW v \in Int
    PROVE  Append(<<>>, v) = <<v>> /\ Len(<<v>>) = 1 /\ <<v>>[1] = v
OBVIOUS

(* The first access reads the register, the second writes it.              *)
LEMMA SetBitDone ==
    ASSUME NEW c, NEW up, DOMAIN c = DOMAIN NoCall, c.vals \in Seq(Int), c.rv = "",
           c.stage = "", c.op = "setbit", SettingBit(c), DevInv,
           NEW x, x = Head(c.group), NEW v \in Int,
           x.kind = "read" => v = dev[x.addr][x.reg]
    PROVE  CallInv(After(c, x, v), up)
<1> DEFINE d == Done(c, v)
<1>1. PICK a \in DOMAIN Device, name \in {"CS", "SYSRST"}, on \in BOOLEAN :
          LET full == osd_hostmod_reg_setbit(a, name, BitOf(name), on) IN
          /\ <<name, 0>> \in DOMAIN Device[a]
          /\ \/ c.group = full /\ c.vals = <<>>
             \/ /\ c.group = <<full[2]>> /\ Len(c.vals) = 1
                /\ Keeps(a, <<name, 0>>, c.vals[1])
  BY ONLY SettingBit(c) DEF SettingBit
<1>2. PICK full : full = osd_hostmod_reg_setbit(a, name, BitOf(name), on)
  OBVIOUS
<1>3. /\ <<name, 0>> \in DOMAIN Device[a]
      /\ \/ c.group = full /\ c.vals = <<>>
         \/ /\ c.group = <<full[2]>> /\ Len(c.vals) = 1
            /\ Keeps(a, <<name, 0>>, c.vals[1])
  BY ONLY <1>1, <1>2
<1>4. full = <<R(a, name, 0), full[2]>>
  BY ONLY <1>2 DEF osd_hostmod_reg_setbit
<1>5. /\ DOMAIN d = Fields /\ d.op = "setbit" /\ d.stage = "" /\ d.rv = ""
      /\ d.vals = Append(c.vals, v) /\ d.group = Tail(c.group) /\ d.vals \in Seq(Int)
  <2>1. DOMAIN c = DOMAIN NoCall /\ c.rv = "" /\ c.stage = "" /\ c.op = "setbit"
    OBVIOUS
  <2>2. /\ DOMAIN d = Fields /\ d.op = c.op /\ d.stage = c.stage
        /\ d.rv = c.rv /\ d.vals = Append(c.vals, v) /\ d.group = Tail(c.group)
    BY ONLY <2>1, DoneFields
  <2>3. Append(c.vals, v) \in Seq(Int)
    BY ONLY c.vals \in Seq(Int), v \in Int
  <2> QED BY ONLY <2>1, <2>2, <2>3
<1>6. d = Done(c, v)
  OBVIOUS
<1> HIDE DEF d
<1>7. CASE c.group = full /\ c.vals = <<>>
  <2>1. x = R(a, name, 0) /\ Len(c.group) > 1 /\ d.group = <<full[2]>>
    <3>1. PICK q, y : q = R(a, name, 0) /\ y = full[2]
      OBVIOUS
    <3>2. c.group = <<q, y>>
      BY ONLY <1>4, <1>7, <3>1
    <3> QED BY ONLY <1>5, <3>1, <3>2, Pair, x = Head(c.group), ZenonT(60)
  <2>2. v = dev[a][<<name, 0>>]
    <3>1. x.kind = "read" /\ x.addr = a /\ x.reg = <<name, 0>>
      BY ONLY <2>1 DEF R
    <3> QED BY ONLY <3>1, x.kind = "read" => v = dev[x.addr][x.reg]
  <2>3. Keeps(a, <<name, 0>>, v)
    BY <1>3, <2>2 DEF DevInv
  <2>4. Len(d.vals) = 1 /\ d.vals[1] = v
    <3>1. d.vals = <<v>>
      BY ONLY <1>5, <1>7, Single, v \in Int
    <3> QED BY ONLY <3>1, Single, v \in Int
  <2>5. SettingBit(d)
    BY ONLY <1>2, <1>3, <2>1, <2>3, <2>4, a \in DOMAIN Device, name \in {"CS", "SYSRST"},
            on \in BOOLEAN DEF SettingBit
  <2>6. CallInv(d, up)
    BY ONLY <1>5, <2>5, CallFields DEF CallInv, Underway
  <2> QED BY ONLY <1>6, <2>1, <2>6 DEF After
<1>8. CASE c.group = <<full[2]>>
  <2> DEFINE e == [d EXCEPT !.rv = "OK"]
  <2>1. ~(Len(c.group) > 1)
    BY ONLY <1>8
  <2>2. GroupDone(d, x) = e
    BY ONLY <1>5 DEF GroupDone
  <2>3. DOMAIN e = Fields /\ e.op = "setbit" /\ e.rv = "OK" /\ e.vals = d.vals
    BY ONLY <1>5 DEF Fields
  <2>4. CallInv(e, up)
    BY ONLY <1>5, <2>3, Succeeded
  <2> QED BY ONLY <1>6, <2>1, <2>2, <2>4 DEF After
<1> QED BY ONLY <1>3, <1>7, <1>8

(* A page that has been written is the one the host knows.                 *)
LEMMA CpuDone ==
    ASSUME NEW c, NEW up, DOMAIN c = DOMAIN NoCall, c.vals \in Seq(Int), c.rv = "",
           c.stage = "", c.op = "cpureg", AccessingCpu(c, up),
           NEW x, x = Head(c.group), NEW v \in Int, NEW up1,
           PageWrite(x) => up1[x.addr] = x.val
    PROVE  CallInv(After(c, x, v), up1)
<1> DEFINE d == Done(c, v)
<1>1. PICK cdm \in CDMs, kind \in {"read", "spr"} :
          \/ c.group = <<W(cdm, "CORE_REG_UPPER", c.arg \div SPR_PAGE),
                         Spr(kind, cdm, c.arg)>>
          \/ c.group = <<Spr(kind, cdm, c.arg)>> /\ up[cdm] = c.arg \div SPR_PAGE
  BY ONLY AccessingCpu(c, up) DEF AccessingCpu
<1>2. c.arg \in Nat /\ c.arg \div SPR_PAGE < WORD
  BY ONLY AccessingCpu(c, up) DEF AccessingCpu
<1>5. /\ DOMAIN d = Fields /\ d.op = "cpureg" /\ d.stage = "" /\ d.rv = "" /\ d.arg = c.arg
      /\ d.vals = Append(c.vals, v) /\ d.group = Tail(c.group) /\ d.vals \in Seq(Int)
  <2>1. DOMAIN c = DOMAIN NoCall /\ c.rv = "" /\ c.stage = "" /\ c.op = "cpureg"
    OBVIOUS
  <2>2. /\ DOMAIN d = Fields /\ d.op = c.op /\ d.stage = c.stage /\ d.arg = c.arg
        /\ d.rv = c.rv /\ d.vals = Append(c.vals, v) /\ d.group = Tail(c.group)
    BY ONLY <2>1, DoneFields
  <2>3. Append(c.vals, v) \in Seq(Int)
    BY ONLY c.vals \in Seq(Int), v \in Int
  <2> QED BY ONLY <2>1, <2>2, <2>3
<1>6. d = Done(c, v)
  OBVIOUS
<1> HIDE DEF d
<1>7. CASE c.group = <<W(cdm, "CORE_REG_UPPER", c.arg \div SPR_PAGE), Spr(kind, cdm, c.arg)>>
  <2>1. /\ x = W(cdm, "CORE_REG_UPPER", c.arg \div SPR_PAGE) /\ Len(c.group) > 1
        /\ d.group = <<Spr(kind, cdm, c.arg)>>
    BY ONLY <1>5, <1>7, Pair, x = Head(c.group)
  <2>2. PageWrite(x) /\ x.addr = cdm /\ x.val = c.arg \div SPR_PAGE
    BY ONLY <2>1 DEF PageWrite, W
  <2>3. up1[cdm] = c.arg \div SPR_PAGE
    BY ONLY <2>2, PageWrite(x) => up1[x.addr] = x.val
  <2>4. AccessingCpu(d, up1)
    BY ONLY <1>2, <1>5, <2>1, <2>3, cdm \in CDMs, kind \in {"read", "spr"} DEF AccessingCpu
  <2>5. CallInv(d, up1)
    BY ONLY <1>5, <2>4, CallFields DEF CallInv, Underway
  <2> QED BY ONLY <1>6, <2>1, <2>5 DEF After
<1>8. CASE c.group = <<Spr(kind, cdm, c.arg)>>
  <2> DEFINE e == [d EXCEPT !.rv = "OK"]
  <2>1. ~(Len(c.group) > 1)
    BY ONLY <1>8
  <2>2. GroupDone(d, x) = e
    BY ONLY <1>5 DEF GroupDone
  <2>3. DOMAIN e = Fields /\ e.op = "cpureg" /\ e.rv = "OK" /\ e.vals = d.vals
    BY ONLY <1>5 DEF Fields
  <2>4. CallInv(e, up1)
    BY ONLY <1>5, <2>3, Succeeded
  <2> QED BY ONLY <1>6, <2>1, <2>2, <2>4 DEF After
<1> QED BY ONLY <1>1, <1>7, <1>8
-----------------------------------------------------------------------------
(* The accesses that calls make.                                           *)
PageAccess(x) ==
    x.addr \in CDMs /\ x.kind = "write" /\ x.reg = Page /\ x.val \in 0 .. (WORD - 1)

SprAccess(x) ==
    /\ x.addr \in CDMs /\ x.kind \in {"read", "spr"}
    /\ x.reg[1] = "SPR" /\ x.reg[2] \in Nat /\ x.reg # Page

BitAccess(c, x) ==
    /\ x.kind = "writebit" /\ x.addr \in DOMAIN Device /\ x.reg \in DOMAIN Device[x.addr]
    /\ x.reg[1] \in {"CS", "SYSRST"} /\ x.reg # Page
    /\ x.mask = BitOf(x.reg[1]) /\ x.on \in BOOLEAN
    /\ Len(c.vals) = 1 /\ Keeps(x.addr, x.reg, c.vals[1])

LEMMA ReadingHead ==
    ASSUME NEW c, c.vals \in Seq(Int), NEW full, NEW base \in Nat, Len(full) \in Nat,
           Reading(c, full, base)
    PROVE  c.group # <<>> /\ Known(Head(c.group))
<1>1. c.group \in Seq(Reads)
  BY ONLY Reading(c, full, base) DEF Reading
<1>2. Len(c.group) \in Nat /\ Len(c.group) >= 1
  BY ONLY ReadHead, c.vals \in Seq(Int), base \in Nat, Len(full) \in Nat,
          Reading(c, full, base)
<1>3. c.group # <<>>
  BY ONLY <1>2, EmptyValues
<1>4. Head(c.group) \in Reads
  BY ONLY <1>1, <1>2
<1> QED BY ONLY <1>3, <1>4, ReadKnown

LEMMA BitHead ==
    ASSUME NEW c, c.vals \in Seq(Int), SettingBit(c)
    PROVE  c.group # <<>> /\ (Known(Head(c.group)) \/ BitAccess(c, Head(c.group)))
<1>1. PICK a \in DOMAIN Device, name \in {"CS", "SYSRST"}, on \in BOOLEAN :
          LET full == osd_hostmod_reg_setbit(a, name, BitOf(name), on) IN
          /\ <<name, 0>> \in DOMAIN Device[a]
          /\ \/ c.group = full /\ c.vals = <<>>
             \/ /\ c.group = <<full[2]>> /\ Len(c.vals) = 1
                /\ Keeps(a, <<name, 0>>, c.vals[1])
  BY ONLY SettingBit(c) DEF SettingBit
<1>2. PICK y : y = [kind |-> "writebit", addr |-> a, reg |-> <<name, 0>>,
                    mask |-> BitOf(name), on |-> on]
  OBVIOUS
<1>3. PICK q : q = R(a, name, 0)
  OBVIOUS
<1>4. osd_hostmod_reg_setbit(a, name, BitOf(name), on) = <<q, y>>
  BY ONLY <1>2, <1>3 DEF osd_hostmod_reg_setbit
<1>5. <<q, y>>[2] = y
  OBVIOUS
<1>6. /\ <<name, 0>> \in DOMAIN Device[a]
      /\ \/ c.group = <<q, y>>
         \/ c.group = <<y>> /\ Len(c.vals) = 1 /\ Keeps(a, <<name, 0>>, c.vals[1])
  BY ONLY <1>1, <1>4, <1>5
<1>7. CASE c.group = <<q, y>>
  <2>1. Head(c.group) = q /\ c.group # <<>>
    BY ONLY <1>7
  <2>2. Known(q)
    BY ONLY <1>3, <1>6, a \in DOMAIN Device, name \in {"CS", "SYSRST"} DEF Known, R
  <2> QED BY ONLY <2>1, <2>2
<1>8. CASE c.group = <<y>> /\ Len(c.vals) = 1 /\ Keeps(a, <<name, 0>>, c.vals[1])
  <2>1. Head(c.group) = y /\ c.group # <<>>
    BY ONLY <1>8
  <2>2. /\ y.kind = "writebit" /\ y.addr = a /\ y.reg = <<name, 0>>
        /\ y.mask = BitOf(name) /\ y.on = on
    BY ONLY <1>2
  <2>3. y.reg[1] = name /\ y.reg # Page
    BY ONLY <2>2, name \in {"CS", "SYSRST"} DEF Page
  <2>4. BitAccess(c, y)
    BY ONLY <1>6, <1>8, <2>2, <2>3, a \in DOMAIN Device, name \in {"CS", "SYSRST"},
            on \in BOOLEAN DEF BitAccess
  <2> QED BY ONLY <2>1, <2>4
<1> QED BY ONLY <1>6, <1>7, <1>8

(* A CPU register number as page and offset.                               *)
LEMMA Divided ==
    ASSUME NEW r \in Nat, NEW b \in Nat \ {0}
    PROVE  r \div b \in Nat /\ r % b \in Nat /\ (r \div b) * b + (r % b) = r
<1>1. r \div b \in Nat /\ r % b \in Nat
  OBVIOUS
<1>2. r = (r \div b) * b + (r % b)
  OBVIOUS
<1> QED BY ONLY <1>1, <1>2

LEMMA PageOf ==
    ASSUME NEW r \in Nat
    PROVE  /\ r \div SPR_PAGE \in Nat /\ r % SPR_PAGE \in Nat
           /\ (r \div SPR_PAGE) * SPR_PAGE + (r % SPR_PAGE) = r
<1>1. SPR_PAGE \in Nat \ {0}
  BY Numbers
<1> QED BY ONLY <1>1, Divided, r \in Nat

LEMMA SprIs ==
    ASSUME NEW cdm \in CDMs, NEW kind \in {"read", "spr"}, NEW r \in Nat
    PROVE  SprAccess(Spr(kind, cdm, r)) /\ Spr(kind, cdm, r).reg[2] = r % SPR_PAGE
           /\ Spr(kind, cdm, r).addr = cdm
<1>1. PICK m \in Nat : m = r % SPR_PAGE
  BY PageOf
<1>2. PICK x : x = Spr(kind, cdm, r)
  OBVIOUS
<1>3. x.kind = kind /\ x.addr = cdm /\ x.reg = <<"SPR", m>>
  BY ONLY <1>1, <1>2 DEF Spr
<1>4. x.reg[1] = "SPR" /\ x.reg[2] = m /\ x.reg # Page
  BY ONLY <1>3 DEF Page
<1> QED BY ONLY <1>1, <1>2, <1>3, <1>4, cdm \in CDMs, kind \in {"read", "spr"}, m \in Nat
        DEF SprAccess

LEMMA CpuHead ==
    ASSUME NEW c, NEW up, AccessingCpu(c, up)
    PROVE  c.group # <<>> /\ (PageAccess(Head(c.group)) \/ SprAccess(Head(c.group)))
<1>1. PICK cdm \in CDMs, kind \in {"read", "spr"} :
          \/ c.group = <<W(cdm, "CORE_REG_UPPER", c.arg \div SPR_PAGE),
                         Spr(kind, cdm, c.arg)>>
          \/ c.group = <<Spr(kind, cdm, c.arg)>> /\ up[cdm] = c.arg \div SPR_PAGE
  BY ONLY AccessingCpu(c, up) DEF AccessingCpu
<1>2. c.arg \in Nat /\ c.arg \div SPR_PAGE < WORD
  BY ONLY AccessingCpu(c, up) DEF AccessingCpu
<1>3. PICK p, s : p = W(cdm, "CORE_REG_UPPER", c.arg \div SPR_PAGE) /\ s = Spr(kind, cdm, c.arg)
  OBVIOUS
<1>4. SprAccess(s)
  BY ONLY <1>2, <1>3, SprIs, cdm \in CDMs, kind \in {"read", "spr"}
<1>5. PageAccess(p)
  <2>1. c.arg \div SPR_PAGE \in 0 .. (WORD - 1)
    <3>1. PICK q \in Nat : q = c.arg \div SPR_PAGE
      BY ONLY <1>2, PageOf
    <3>2. q \in 0 .. (WORD - 1)
      BY ONLY <1>2, <3>1, Numbers, q \in Nat
    <3> QED BY ONLY <3>1, <3>2
  <2>2. /\ p.kind = "write" /\ p.addr = cdm /\ p.reg = Page
        /\ p.val = c.arg \div SPR_PAGE
    BY ONLY <1>3 DEF W, Page
  <2> QED BY ONLY <2>1, <2>2, cdm \in CDMs DEF PageAccess
<1>6. c.group = <<p, s>> \/ c.group = <<s>>
  BY ONLY <1>1, <1>3
<1>7. c.group # <<>> /\ Head(c.group) \in {p, s}
  <2>1. CASE c.group = <<p, s>>
    <3>1. c.group # <<>>
      BY ONLY <2>1
    <3> QED BY ONLY <2>1, <3>1, Pair
  <2>2. CASE c.group = <<s>>
    BY ONLY <2>2
  <2> QED BY ONLY <1>6, <2>1, <2>2
<1> QED BY ONLY <1>4, <1>5, <1>7

(* The next access of a call, by what the call is doing.                   *)
LEMMA NextAccess ==
    ASSUME NEW c, NEW up, c.vals \in Seq(Int), Underway(c, up), NEW x, x = Head(c.group)
    PROVE  /\ c.group # <<>>
           /\ Known(x) \/ PageAccess(x) \/ SprAccess(x) \/ BitAccess(c, x)
           /\ c.op = "setbit" => Known(x) \/ BitAccess(c, x)
           /\ c.op = "cpureg" \/ c.op = "setbit" \/ Known(x)
           /\ c.stage = "desc" /\ x.reg = Page => x.addr \in CDMs
<1>1. CASE c.stage = "" /\ c.op = "setbit" /\ SettingBit(c)
  BY ONLY <1>1, BitHead, c.vals \in Seq(Int), x = Head(c.group)
<1>2. CASE c.stage = "" /\ c.op = "cpureg" /\ AccessingCpu(c, up)
  BY ONLY <1>2, CpuHead, x = Head(c.group)
<1>3. CASE c.stage = "" /\ c.op = "subnetinfo" /\ \E s \in Subnet : Reading(c, SubnetRegs(s), 0)
  <2>1. PICK s \in Subnet : Reading(c, SubnetRegs(s), 0)
    BY ONLY <1>3
  <2>2. Len(SubnetRegs(s)) \in Nat
    BY ONLY SubnetGroup, s \in Subnet
  <2>3. c.group # <<>> /\ Known(x)
    BY ONLY <2>1, <2>2, ReadingHead, 0 \in Nat, c.vals \in Seq(Int), x = Head(c.group)
  <2> QED BY ONLY <1>3, <2>3
<1>4. CASE /\ c.op \in {"get_modules", "find_memories"}
           /\ c.stage = "count" /\ Counting(c)
  <2>1. c.arg \in Subnet /\ c.group = <<R(Scm(c.arg), "NUM_MOD", 0)>>
    BY ONLY <1>4 DEF Counting
  <2>2. c.group # <<>> /\ x = R(Scm(c.arg), "NUM_MOD", 0)
    BY ONLY <2>1, x = Head(c.group)
  <2> QED BY ONLY <1>4, <2>1, <2>2, CountGroup
<1>5. CASE /\ c.op \in {"get_modules", "find_memories"}
           /\ c.stage = "describe" /\ DescribingModules(c)
  <2>1. PICK a \in DOMAIN Device : Reading(c, osd_hostmod_mod_describe(a), 0)
    BY ONLY <1>5, AtModule
  <2>2. Len(osd_hostmod_mod_describe(a)) \in Nat
    BY ONLY DescribeGroup, a \in DOMAIN Device
  <2>3. c.group # <<>> /\ Known(x)
    BY ONLY <2>1, <2>2, ReadingHead, 0 \in Nat, c.vals \in Seq(Int), x = Head(c.group)
  <2> QED BY ONLY <1>5, <2>3
<1>6. CASE c.stage = "mam" /\ ReadingMemory(c)
  <2>1. PICK a \in DOMAIN Device :
            /\ IsMemory(a)
            /\ \/ Reading(c, MamGroup(Described(a)), 0)
               \/ Reading(c, RegionGroup(a, Regions(a)), 3)
    BY ONLY <1>6, AtMemory
  <2>2. Len(MamGroup(Described(a))) \in Nat /\ Len(RegionGroup(a, Regions(a))) \in Nat
    <3>1. RegionGroup(a, Regions(a)) \in Seq(Reads)
      BY ONLY <2>1, RegionGroupType, a \in DOMAIN Device
    <3>2. MamGroup(Described(a)) \in Seq(Reads)
      BY ONLY <2>1, GroupTypes, a \in DOMAIN Device
    <3> QED BY ONLY <3>1, <3>2
  <2>3. c.group # <<>> /\ Known(x)
    BY ONLY <2>1, <2>2, ReadingHead, 0 \in Nat, 3 \in Nat, c.vals \in Seq(Int), x = Head(c.group)
  <2>4. c.op = "find_memories"
    BY ONLY <1>6 DEF ReadingMemory
  <2> QED BY ONLY <1>6, <2>3, <2>4
<1>7. CASE c.stage = "type" /\ CheckingType(c)
  <2>1. c.op \in DescOps /\ c.arg \in DOMAIN Device
        /\ Reading(c, osd_hostmod_mod_describe(c.arg), 0)
    BY ONLY <1>7 DEF CheckingType
  <2>2. Len(osd_hostmod_mod_describe(c.arg)) \in Nat
    BY ONLY <2>1, DescribeGroup
  <2>3. c.group # <<>> /\ Known(x)
    BY ONLY <2>1, <2>2, ReadingHead, 0 \in Nat, c.vals \in Seq(Int), x = Head(c.group)
  <2>4. c.op # "setbit"
    BY ONLY <2>1 DEF DescOps, DescRegs
  <2> QED BY ONLY <1>7, <2>3, <2>4
<1>8. CASE c.stage = "desc" /\ ReadingDesc(c)
  <2>1. PICK a, op : a = c.arg /\ op = c.op
    OBVIOUS
  <2>2. op \in DescOps /\ a \in DOMAIN Device /\ TypeOf(a) = Types[op]
        /\ Reading(c, DescGroup(op, a), 0)
    BY ONLY <1>8, <2>1 DEF ReadingDesc
  <2>3. PICK full : full = DescGroup(op, a)
    OBVIOUS
  <2>4. Len(full) \in Nat /\ Reading(c, full, 0)
        /\ \A i \in 1 .. Len(full) : full[i].addr = a /\ (full[i].reg = Page => op = "CDM")
    <3>1. Len(full) = Len(DescRegs[op]) /\ Len(DescRegs[op]) \in 0 .. 3
          /\ \A i \in 1 .. Len(DescRegs[op]) :
                full[i].addr = a /\ (full[i].reg = Page => op = "CDM")
      BY ONLY <2>2, <2>3, DescriptorGroup
    <3> QED BY ONLY <2>2, <2>3, <3>1
  <2>5. c.group # <<>> /\ Known(x)
    BY ONLY <2>4, ReadingHead, 0 \in Nat, c.vals \in Seq(Int), x = Head(c.group)
  <2>6. Past(c, 0) + 1 \in 1 .. Len(full) /\ x = full[Past(c, 0) + 1]
    BY ONLY <2>4, ReadHead, 0 \in Nat, c.vals \in Seq(Int), x = Head(c.group)
  <2>7. x.addr = a /\ (x.reg = Page => op = "CDM")
    BY ONLY <2>4, <2>6
  <2>8. op = "CDM" => a \in CDMs
    BY ONLY <2>2 DEF CDMs, Types
  <2>9. c.op # "setbit"
    BY ONLY <2>1, <2>2 DEF DescOps, DescRegs
  <2> QED BY ONLY <1>8, <2>5, <2>7, <2>8, <2>9
<1> QED BY ONLY <1>1, <1>2, <1>3, <1>4, <1>5, <1>6, <1>7, <1>8, Underway(c, up) DEF Underway
-----------------------------------------------------------------------------
(* What an access does to the device.                                      *)
LEMMA LastOfOne ==
    ASSUME NEW s, Len(s) = 1
    PROVE  Last(s) = s[1]
BY DEF Last

LEMMA WrittenIs ==
    ASSUME DevInv, NEW a \in DOMAIN Device, NEW r \in DOMAIN Device[a], NEW v,
           dev' = [dev EXCEPT ![a][r] = v], Keeps(a, r, v)
    PROVE  /\ DevInv' /\ dev'[a][r] = v
           /\ \A b \in DOMAIN Device : \A q \in DOMAIN Device[b] :
                 b # a \/ q # r => dev'[b][q] = dev[b][q]
<1>1. /\ DOMAIN dev = DOMAIN Device
      /\ \A b \in DOMAIN Device :
            /\ DOMAIN dev[b] = DOMAIN Device[b]
            /\ \A q \in DOMAIN Device[b] : Keeps(b, q, dev[b][q])
  BY ONLY DevInv DEF DevInv
<1>2. DOMAIN dev' = DOMAIN Device
  BY ONLY <1>1, dev' = [dev EXCEPT ![a][r] = v]
<1>3. dev'[a] = [dev[a] EXCEPT ![r] = v]
  BY ONLY <1>1, dev' = [dev EXCEPT ![a][r] = v], a \in DOMAIN Device
<1>4. \A b \in DOMAIN Device : b # a => dev'[b] = dev[b]
  BY ONLY <1>1, dev' = [dev EXCEPT ![a][r] = v]
<1>5. /\ DOMAIN dev'[a] = DOMAIN Device[a] /\ dev'[a][r] = v
      /\ \A q \in DOMAIN Device[a] : q # r => dev'[a][q] = dev[a][q]
  BY ONLY <1>1, <1>3, a \in DOMAIN Device, r \in DOMAIN Device[a]
<1>6. ASSUME NEW b \in DOMAIN Device
      PROVE  /\ DOMAIN dev'[b] = DOMAIN Device[b]
             /\ \A q \in DOMAIN Device[b] : Keeps(b, q, dev'[b][q])
  <2>1. CASE b = a
    BY ONLY <1>1, <1>5, <2>1, Keeps(a, r, v), b \in DOMAIN Device
  <2>2. CASE b # a
    BY ONLY <1>1, <1>4, <2>2, b \in DOMAIN Device
  <2> QED BY ONLY <2>1, <2>2
<1>7. DevInv'
  BY ONLY <1>2, <1>6 DEF DevInv, Keeps, Steady
<1> QED BY ONLY <1>4, <1>5, <1>7

(* Pages only change by what is written to them.                           *)
PageAfter(x, cdm) == IF PageWrite(x) /\ x.addr = cdm THEN x.val ELSE dev[cdm][Page]

LEMMA ExecutedKeeps ==
    ASSUME DevInv, NEW h \in Host, NEW x,
           Known(x) \/ PageAccess(x) \/ SprAccess(x) \/ BitAccess(client[h], x),
           Executed(h, x)
    PROVE  /\ DevInv'
           /\ \A cdm \in CDMs : dev'[cdm][Page] = PageAfter(x, cdm)
<1>1. CASE Known(x) \/ SprAccess(x)
  <2>1. x.kind \notin {"write", "writebit"}
    BY ONLY <1>1 DEF Known, SprAccess
  <2>2. dev' = dev /\ ~PageWrite(x)
    BY ONLY <2>1, Executed(h, x) DEF Executed, PageWrite
  <2>3. DevInv'
    BY ONLY <2>2, DevInv DEF DevInv, Keeps, Steady
  <2> QED BY ONLY <2>2, <2>3 DEF PageAfter
<1>2. CASE PageAccess(x)
  <2>1. PICK a : a = x.addr
    OBVIOUS
  <2>2. a \in CDMs /\ x.kind = "write" /\ x.reg = Page /\ x.val \in 0 .. (WORD - 1)
    BY ONLY <1>2, <2>1 DEF PageAccess
  <2>3. a \in DOMAIN Device /\ Page \in DOMAIN Device[a]
    BY ONLY <2>2, EveryCdm
  <2>4. NewValue(h, x) = x.val
    BY ONLY <2>2 DEF NewValue
  <2>5. dev' = [dev EXCEPT ![a][Page] = x.val]
    BY ONLY <2>1, <2>2, <2>4, Executed(h, x) DEF Executed
  <2>6. Keeps(a, Page, x.val)
    <3>1. ~Steady(Page) /\ Page[1] \notin {"CS", "SYSRST"}
      BY DEF Steady, Page
    <3> QED BY ONLY <2>2, <3>1 DEF Keeps
  <2>7. /\ DevInv' /\ dev'[a][Page] = x.val
        /\ \A b \in DOMAIN Device : \A q \in DOMAIN Device[b] :
              b # a \/ q # Page => dev'[b][q] = dev[b][q]
    BY ONLY <2>3, <2>5, <2>6, WrittenIs, DevInv
  <2>8. PageWrite(x)
    BY ONLY <2>2 DEF PageWrite, Page
  <2>9. ASSUME NEW cdm \in CDMs PROVE dev'[cdm][Page] = PageAfter(x, cdm)
    <3>1. cdm \in DOMAIN Device /\ Page \in DOMAIN Device[cdm]
      BY ONLY EveryCdm, cdm \in CDMs
    <3> QED BY ONLY <2>1, <2>7, <2>8, <3>1 DEF PageAfter
  <2> QED BY ONLY <2>7, <2>9
<1>3. CASE BitAccess(client[h], x)
  <2>1. PICK a, r, v : a = x.addr /\ r = x.reg /\ v = NewValue(h, x)
    OBVIOUS
  <2>2. /\ x.kind = "writebit" /\ a \in DOMAIN Device /\ r \in DOMAIN Device[a]
        /\ r[1] \in {"CS", "SYSRST"} /\ r # Page /\ x.mask = BitOf(r[1]) /\ x.on \in BOOLEAN
        /\ Len(client[h].vals) = 1 /\ Keeps(a, r, client[h].vals[1])
    BY ONLY <1>3, <2>1 DEF BitAccess
  <2>3. v = SetBit(client[h].vals[1], x.mask, x.on)
    <3>1. Last(client[h].vals) = client[h].vals[1]
      BY ONLY <2>2, LastOfOne
    <3> QED BY ONLY <2>1, <2>2, <3>1 DEF NewValue
  <2>4. dev' = [dev EXCEPT ![a][r] = v]
    BY ONLY <2>1, <2>2, Executed(h, x) DEF Executed
  <2>5. Keeps(a, r, v)
    <3>1. PICK w : w = client[h].vals[1]
      OBVIOUS
    <3>2. w \in 0 .. (WORD - 1)
          /\ Rest(w, BitOf(r[1])) = Rest(Device[a][r], BitOf(r[1]))
      BY ONLY <2>2, <3>1 DEF Keeps
    <3>3. BitOf(r[1]) \in {1, 2}
      BY DEF BitOf
    <3>4. v \in 0 .. (WORD - 1) /\ Rest(v, BitOf(r[1])) = Rest(w, BitOf(r[1]))
      BY ONLY <2>2, <2>3, <3>1, <3>2, <3>3, BitSet
    <3>5. ~Steady(r)
      BY ONLY <2>2 DEF Steady
    <3> QED BY ONLY <3>2, <3>4, <3>5 DEF Keeps
  <2>6. /\ DevInv' /\ dev'[a][r] = v
        /\ \A b \in DOMAIN Device : \A q \in DOMAIN Device[b] :
              b # a \/ q # r => dev'[b][q] = dev[b][q]
    <3>1. a \in DOMAIN Device /\ r \in DOMAIN Device[a]
      BY ONLY <2>2
    <3> QED BY ONLY <2>4, <2>5, <3>1, WrittenIs, DevInv
  <2>7. ~PageWrite(x)
    BY ONLY <2>2 DEF PageWrite
  <2>8. ASSUME NEW cdm \in CDMs PROVE dev'[cdm][Page] = PageAfter(x, cdm)
    <3>1. cdm \in DOMAIN Device /\ Page \in DOMAIN Device[cdm]
      BY ONLY EveryCdm, cdm \in CDMs
    <3> QED BY ONLY <2>2, <2>6, <2>7, <3>1 DEF PageAfter
  <2> QED BY ONLY <2>6, <2>8
<1> QED BY <1>1, <1>2, <1>3

(* What the device answers is a number, and what a register held.          *)
LEMMA AnswerType ==
    ASSUME DevInv, NEW c, NEW x,
           Known(x) \/ PageAccess(x) \/ SprAccess(x) \/ BitAccess(c, x)
    PROVE  /\ Answered(x) \in Int
           /\ Known(x) => Answered(x) = dev[x.addr][x.reg] /\ Answers(x, Answered(x))
                          /\ Answered(x) \in Nat
           /\ SprAccess(x) => Answered(x) = dev[x.addr][Page] * SPR_PAGE + x.reg[2]
<1>1. \A cdm \in CDMs : dev[cdm][Page] \in 0 .. (WORD - 1)
  BY EveryCdm DEF DevInv, Keeps
<1>2. SPR_PAGE \in Nat /\ WORD \in Nat
  BY Numbers
<1>3. CASE Known(x)
  <2>1. Answered(x) = dev[x.addr][x.reg] /\ Answered(x) \in 0 .. (WORD - 1)
        /\ Answered(x) \in Int /\ Answers(x, Answered(x))
    BY <1>3, KnownAnswer
  <2>2. Answered(x) \in Nat
    BY ONLY <1>2, <2>1
  <2>3. ~SprAccess(x)
    BY <1>3 DEF Known, SprAccess
  <2> QED BY ONLY <2>1, <2>2, <2>3
<1>4. CASE PageAccess(x)
  <2>1. x.reg[1] # "SPR" /\ x.addr \in CDMs /\ x.reg = Page /\ x.kind = "write"
    BY ONLY <1>4 DEF PageAccess, Page
  <2>2. Answered(x) = dev[x.addr][Page]
    BY ONLY <2>1 DEF Answered
  <2>3. ~Known(x) /\ ~SprAccess(x)
    BY ONLY <2>1 DEF Known, SprAccess
  <2> QED BY ONLY <1>1, <1>2, <2>1, <2>2, <2>3
<1>5. CASE SprAccess(x)
  <2>1. x.reg[1] = "SPR" /\ x.addr \in CDMs /\ x.reg[2] \in Nat
    BY ONLY <1>5 DEF SprAccess
  <2>2. Answered(x) = dev[x.addr][Page] * SPR_PAGE + x.reg[2]
    BY ONLY <2>1 DEF Answered, Page
  <2>3. PICK p \in Nat, i \in Nat, b \in Nat :
            p = dev[x.addr][Page] /\ i = x.reg[2] /\ b = SPR_PAGE
    BY ONLY <1>1, <1>2, <2>1
  <2>4. p * b \in Nat
    BY ONLY Products, p \in Nat, b \in Nat
  <2>5. p * b + i \in Int
    BY ONLY <2>4, i \in Nat
  <2>6. ~Known(x)
    BY ONLY <2>1 DEF Known
  <2> QED BY ONLY <2>2, <2>3, <2>5, <2>6
<1>6. CASE BitAccess(c, x)
  <2>1. /\ x.addr \in DOMAIN Device /\ x.reg \in DOMAIN Device[x.addr]
        /\ x.reg[1] \in {"CS", "SYSRST"} /\ x.kind = "writebit"
    BY ONLY <1>6 DEF BitAccess
  <2>2. Answered(x) = dev[x.addr][x.reg]
    BY ONLY <2>1 DEF Answered
  <2>3. dev[x.addr][x.reg] \in 0 .. (WORD - 1)
    BY ONLY <2>1, DevInv DEF DevInv, Keeps
  <2>4. ~Known(x) /\ ~SprAccess(x)
    BY ONLY <2>1 DEF Known, SprAccess
  <2> QED BY ONLY <1>2, <2>2, <2>3, <2>4
<1> QED BY <1>3, <1>4, <1>5, <1>6
-----------------------------------------------------------------------------
(* A call goes on, or ends, as it should.                                  *)
LEMMA Going ==
    ASSUME NEW c, NEW up, CallInv(c, up), c.rv = ""
    PROVE  DOMAIN c = DOMAIN NoCall /\ c.vals \in Seq(Int) /\ Underway(c, up)
BY DEF CallInv, Results

LEMMA CallGoesOn ==
    ASSUME DevInv, NEW c, NEW up, CallInv(c, up), c.rv = "", NEW x, x = Head(c.group),
           NEW up1, PageWrite(x) => up1[x.addr] = x.val
    PROVE  CallInv(After(c, x, Answered(x)), up1)
<1>1. DOMAIN c = DOMAIN NoCall /\ c.vals \in Seq(Int) /\ Underway(c, up)
  BY ONLY Going, CallInv(c, up), c.rv = ""
<1>2. /\ Known(x) \/ PageAccess(x) \/ SprAccess(x) \/ BitAccess(c, x)
      /\ c.op = "setbit" => Known(x) \/ BitAccess(c, x)
      /\ c.op = "cpureg" \/ c.op = "setbit" \/ Known(x)
  BY ONLY <1>1, NextAccess, x = Head(c.group)
<1>3. PICK v : v = Answered(x)
  OBVIOUS
<1>4. /\ v \in Int /\ (Known(x) => v = dev[x.addr][x.reg] /\ Answers(x, v))
  BY ONLY <1>2, <1>3, AnswerType, DevInv
<1>5. CASE c.stage = "" /\ c.op = "setbit" /\ SettingBit(c)
  <2>1. x.kind = "read" => v = dev[x.addr][x.reg]
    <3>1. BitAccess(c, x) => x.kind # "read"
      BY ONLY TRUE DEF BitAccess
    <3> QED BY ONLY <1>2, <1>4, <1>5, <3>1
  <2> QED BY ONLY <1>1, <1>3, <1>4, <1>5, <2>1, SetBitDone, DevInv, c.rv = "", x = Head(c.group)
<1>6. CASE c.stage = "" /\ c.op = "cpureg" /\ AccessingCpu(c, up)
  BY ONLY <1>1, <1>3, <1>4, <1>6, CpuDone, c.rv = "", x = Head(c.group),
          PageWrite(x) => up1[x.addr] = x.val
<1>7. CASE c.stage = "" /\ c.op = "subnetinfo" /\ \E s \in Subnet : Reading(c, SubnetRegs(s), 0)
  BY ONLY <1>1, <1>2, <1>3, <1>4, <1>7, SubnetDone, c.rv = "", x = Head(c.group)
<1>8. CASE /\ c.op \in {"get_modules", "find_memories"}
           /\ c.stage = "count" /\ Counting(c)
  <2>1. Known(x)
    BY ONLY <1>2, <1>8
  <2> QED BY ONLY <1>1, <1>3, <1>4, <1>8, <2>1, CountDone, c.rv = "", x = Head(c.group)
<1>9. CASE /\ c.op \in {"get_modules", "find_memories"}
           /\ c.stage = "describe" /\ DescribingModules(c)
  <2>1. Known(x)
    BY ONLY <1>2, <1>9
  <2> QED BY ONLY <1>1, <1>3, <1>4, <1>9, <2>1, DescribeDone, c.rv = "", x = Head(c.group)
<1>10. CASE c.stage = "mam" /\ ReadingMemory(c)
  <2>1. Known(x)
    BY ONLY <1>2, <1>10 DEF ReadingMemory
  <2> QED BY ONLY <1>1, <1>3, <1>4, <1>10, <2>1, MemoryDone, c.rv = "", x = Head(c.group)
<1>11. CASE c.stage = "type" /\ CheckingType(c)
  <2>1. c.op \in DescOps
    BY ONLY <1>11 DEF CheckingType
  <2>2. Known(x)
    BY ONLY <1>2, <2>1 DEF DescOps, DescRegs
  <2> QED BY ONLY <1>1, <1>3, <1>4, <1>11, <2>2, TypeDone, c.rv = "", x = Head(c.group)
<1>12. CASE c.stage = "desc" /\ ReadingDesc(c)
  <2>1. c.op \in DescOps
    BY ONLY <1>12 DEF ReadingDesc
  <2>2. Known(x)
    BY ONLY <1>2, <2>1 DEF DescOps, DescRegs
  <2> QED BY ONLY <1>1, <1>3, <1>4, <1>12, <2>2, DescDone, c.rv = "", x = Head(c.group)
<1> QED BY ONLY <1>1, <1>5, <1>6, <1>7, <1>8, <1>9, <1>10, <1>11, <1>12 DEF Underway

LEMMA CallFails ==
    ASSUME NEW c, NEW up, CallInv(c, up), c.rv = "", NEW x, x = Head(c.group)
    PROVE  CallInv(GroupFailed(c, x), up)
<1>1. DOMAIN c = DOMAIN NoCall /\ c.vals \in Seq(Int) /\ Underway(c, up)
  BY ONLY Going, CallInv(c, up), c.rv = ""
<1>2. DOMAIN c = Fields
  BY ONLY <1>1, CallFields
<1>3. CASE c.stage = "describe"
  <2>1. c.op \in {"get_modules", "find_memories"} /\ DescribingModules(c)
    BY ONLY <1>1, <1>3 DEF Underway
  <2> QED BY ONLY <1>1, <1>3, <2>1, DescribeFailed, c.rv = "", x = Head(c.group)
<1>4. CASE c.stage = "mam"
  <2>1. ReadingMemory(c)
    BY ONLY <1>1, <1>4 DEF Underway
  <2> QED BY ONLY <1>1, <1>4, <2>1, MemoryFailed, c.rv = "", x = Head(c.group)
<1>5. CASE c.stage = "type"
  <2> DEFINE e == [c EXCEPT !.rv = "WRONG_MODULE", !.group = <<>>]
  <2>1. GroupFailed(c, x) = e
    BY ONLY <1>5 DEF GroupFailed
  <2>2. DOMAIN e = Fields /\ e.rv = "WRONG_MODULE" /\ e.vals = c.vals
    BY ONLY <1>2 DEF Fields
  <2> HIDE DEF e
  <2>3. CallInv(e, up)
    BY ONLY <1>1, <2>2, Failed
  <2> QED BY ONLY <2>1, <2>3
<1>6. CASE c.stage \notin {"describe", "mam", "type"}
  <2> DEFINE e == [c EXCEPT !.rv = "ERR", !.group = <<>>]
  <2>1. GroupFailed(c, x) = e
    BY ONLY <1>6 DEF GroupFailed
  <2>2. DOMAIN e = Fields /\ e.rv = "ERR" /\ e.vals = c.vals
    BY ONLY <1>2 DEF Fields
  <2> HIDE DEF e
  <2>3. CallInv(e, up)
    BY ONLY <1>1, <2>2, Failed
  <2> QED BY ONLY <2>1, <2>3
<1> QED BY ONLY <1>3, <1>4, <1>5, <1>6

(* RegisterReached for one host.                                           *)
Reached(c, dis) == c.op = "cpureg" /\ c.rv = "OK" /\ dis = {} => Last(c.vals) = c.arg

LEMMA LastAppended ==
    ASSUME NEW s \in Seq(Int), NEW v \in Int
    PROVE  Last(Append(s, v)) = v
BY DEF Last

(* The next call of the same operation: fields that the loops leave alone. *)
LEMMA SameOp ==
    ASSUME NEW c, DOMAIN c = Fields
    PROVE  NextMemory(c).op = c.op /\ NextModule(c).op = c.op
<1>1. ASSUME NEW d, DOMAIN d = Fields PROVE NextMemory(d).op = d.op
  <2>1. PICK m, g : m = Min({i \in DOMAIN d.mods : i >= d.at /\ is_supported_mam(d.mods[i])})
                    /\ g = MamGroup(d.mods[m])
    OBVIOUS
  <2>2. \/ NextMemory(d) = Return(d, TRUE)
        \/ NextMemory(d) = [d EXCEPT !.stage = "mam", !.group = g,
                                     !.vals = <<>>, !.at = m + 1]
    BY ONLY <2>1 DEF NextMemory
  <2>3. Return(d, TRUE).op = d.op
    BY ONLY <1>1 DEF Return, Fields
  <2>4. [d EXCEPT !.stage = "mam", !.group = g, !.vals = <<>>, !.at = m + 1].op = d.op
    BY ONLY <1>1 DEF Fields
  <2> QED BY ONLY <2>2, <2>3, <2>4
<1>2. NextModule(c).op = c.op
  <2> DEFINE left == {l \in Enumerated(c.arg, Len(c.mods)) : l >= c.at}
             e == [c EXCEPT !.at = 1]
             r == Return(c, c.op = "get_modules")
  <2>1. PICK m, g : m = Min(left)
                    /\ g = osd_hostmod_mod_describe(osd_diaddr_build(c.arg, m))
    OBVIOUS
  <2>2. \/ NextModule(c) = [c EXCEPT !.group = g, !.vals = <<>>, !.at = m + 1]
        \/ NextModule(c) = NextMemory(e)
        \/ NextModule(c) = r
    BY ONLY <2>1 DEF NextModule
  <2>3. DOMAIN e = Fields /\ e.op = c.op /\ r.op = c.op
    BY ONLY DOMAIN c = Fields DEF Return, Fields
  <2>4. [c EXCEPT !.group = g, !.vals = <<>>, !.at = m + 1].op = c.op
    BY ONLY DOMAIN c = Fields DEF Fields
  <2> HIDE DEF e, r
  <2>5. NextMemory(e).op = e.op
    BY ONLY <1>1, <2>3
  <2> QED BY ONLY <2>2, <2>3, <2>4, <2>5
<1> QED BY ONLY <1>1, <1>2, DOMAIN c = Fields

LEMMA CpuUnderway ==
    ASSUME NEW c, NEW up, Underway(c, up), c.op = "cpureg"
    PROVE  c.stage = "" /\ AccessingCpu(c, up)
<1>1. /\ c.stage = "mam" /\ ReadingMemory(c) => c.op = "find_memories"
      /\ c.stage = "type" /\ CheckingType(c) => c.op \in DescOps
      /\ c.stage = "desc" /\ ReadingDesc(c) => c.op \in DescOps
  BY ONLY TRUE DEF ReadingMemory, CheckingType, ReadingDesc
<1>2. "cpureg" \notin DescOps
  BY ONLY TRUE DEF DescOps, DescRegs
<1> QED BY ONLY <1>1, <1>2, Underway(c, up), c.op = "cpureg" DEF Underway

LEMMA AfterOp ==
    ASSUME NEW c, DOMAIN c = Fields, NEW x, NEW v
    PROVE  After(c, x, v).op = c.op
<1> DEFINE d == Done(c, v)
<1>1. DOMAIN d = Fields /\ d.op = c.op
  BY ONLY DoneFields, CallFields, DOMAIN c = Fields
<1>0. d = Done(c, v)
  OBVIOUS
<1> HIDE DEF d
<1>2. GroupDone(d, x).op = d.op
  <2> DEFINE e1 == [d EXCEPT !.stage = "describe", !.mods = [i \in 1 .. d.vals[1] |-> NoModule]]
             e2 == [d EXCEPT !.mods[x.addr + 1] = [addr |-> x.addr, vals |-> d.vals]]
             e3 == [d EXCEPT !.group = RegionGroup(x.addr, d.vals[3])]
             e4 == [d EXCEPT !.mems = Append(@, [addr |-> x.addr, vals |-> d.vals])]
             e5 == [d EXCEPT !.stage = "desc", !.vals = <<>>,
                             !.group = [i \in DOMAIN DescRegs[d.op] |->
                                           R(x.addr, DescRegs[d.op][i], 0)]]
             e6 == [d EXCEPT !.rv = "WRONG_MODULE"]
             e7 == [d EXCEPT !.rv = "OK"]
  <2>1. GroupDone(d, x) \in {NextModule(e1), NextModule(e2), e3, NextMemory(e4), e5, e6, e7}
    BY ONLY TRUE DEF GroupDone
  <2>2. /\ DOMAIN e1 = Fields /\ e1.op = d.op
        /\ DOMAIN e2 = Fields /\ e2.op = d.op
        /\ DOMAIN e4 = Fields /\ e4.op = d.op
    BY ONLY <1>1 DEF Fields
  <2>3. e3.op = d.op /\ e5.op = d.op /\ e6.op = d.op /\ e7.op = d.op
    BY ONLY <1>1 DEF Fields
  <2> HIDE DEF e1, e2, e3, e4, e5, e6, e7
  <2>4. NextModule(e1).op = d.op /\ NextModule(e2).op = d.op /\ NextMemory(e4).op = d.op
    BY ONLY <2>2, SameOp
  <2> QED BY ONLY <2>1, <2>3, <2>4
<1> QED BY ONLY <1>0, <1>1, <1>2 DEF After

LEMMA CpuReached ==
    ASSUME DevInv, NEW c, NEW up, CallInv(c, up), c.rv = "", NEW x, x = Head(c.group),
           NEW dis,
           dis = {} => \A cdm \in CDMs : up[cdm] # Unset => dev[cdm][Page] = up[cdm]
    PROVE  Reached(After(c, x, Answered(x)), dis)
<1>1. DOMAIN c = Fields /\ DOMAIN c = DOMAIN NoCall /\ c.vals \in Seq(Int) /\ Underway(c, up)
  BY ONLY Going, CallInv(c, up), c.rv = "", CallFields
<1>2. CASE c.op # "cpureg"
  <2>1. After(c, x, Answered(x)).op # "cpureg"
    BY ONLY <1>1, <1>2, AfterOp
  <2> QED BY ONLY <2>1 DEF Reached
<1>3. CASE c.op = "cpureg"
  <2>1. c.stage = "" /\ AccessingCpu(c, up)
    BY ONLY <1>1, <1>3, CpuUnderway
  <2>2. PICK cdm \in CDMs, kind \in {"read", "spr"} :
          \/ c.group = <<W(cdm, "CORE_REG_UPPER", c.arg \div SPR_PAGE),
                         Spr(kind, cdm, c.arg)>>
          \/ c.group = <<Spr(kind, cdm, c.arg)>> /\ up[cdm] = c.arg \div SPR_PAGE
    BY ONLY <2>1 DEF AccessingCpu
  <2>3. c.arg \in Nat
    BY ONLY <2>1 DEF AccessingCpu
  <2>4. PICK v : v = Answered(x)
    OBVIOUS
  <2>5. PICK d : d = Done(c, v)
    OBVIOUS
  <2>6. /\ DOMAIN d = Fields /\ d.op = c.op /\ d.stage = c.stage /\ d.arg = c.arg
        /\ d.rv = c.rv /\ d.vals = Append(c.vals, v) /\ d.group = Tail(c.group)
    BY ONLY <1>1, <2>5, DoneFields
  <2>7. CASE c.group = <<W(cdm, "CORE_REG_UPPER", c.arg \div SPR_PAGE), Spr(kind, cdm, c.arg)>>
    <3>1. Len(c.group) > 1
      BY ONLY <2>7, Pair
    <3>2. After(c, x, v) = d
      BY ONLY <2>5, <3>1 DEF After
    <3> QED BY ONLY <2>4, <2>6, <3>2, c.rv = "" DEF Reached
  <2>8. CASE c.group = <<Spr(kind, cdm, c.arg)>> /\ up[cdm] = c.arg \div SPR_PAGE
    <3> DEFINE e == [d EXCEPT !.rv = "OK"]
    <3>1. ~(Len(c.group) > 1) /\ x = Spr(kind, cdm, c.arg)
      BY ONLY <2>8, x = Head(c.group)
    <3>2. GroupDone(d, x) = e
      BY ONLY <2>1, <2>6 DEF GroupDone
    <3>3. e.vals = Append(c.vals, v) /\ e.arg = c.arg
      BY ONLY <2>6 DEF Fields
    <3>4. After(c, x, v) = e
      BY ONLY <2>5, <3>1, <3>2 DEF After
    <3> HIDE DEF e
    <3>5. ASSUME dis = {} PROVE v = c.arg
      <4>1. SprAccess(x) /\ x.reg[2] = c.arg % SPR_PAGE /\ x.addr = cdm
        BY ONLY <2>3, <3>1, SprIs, cdm \in CDMs, kind \in {"read", "spr"}
      <4>2. v = dev[cdm][Page] * SPR_PAGE + (c.arg % SPR_PAGE)
        <5>1. Answered(x) = dev[x.addr][Page] * SPR_PAGE + x.reg[2]
          BY ONLY <4>1, AnswerType, DevInv
        <5> QED BY ONLY <2>4, <4>1, <5>1
      <4>3. (c.arg \div SPR_PAGE) * SPR_PAGE + (c.arg % SPR_PAGE) = c.arg
            /\ c.arg \div SPR_PAGE \in Nat
        BY ONLY <2>3, PageOf
      <4>4. up[cdm] # Unset
        BY ONLY <2>8, <4>3 DEF Unset
      <4>5. dev[cdm][Page] = c.arg \div SPR_PAGE
        BY ONLY <2>8, <3>5, <4>4, cdm \in CDMs,
                dis = {} => \A k \in CDMs : up[k] # Unset => dev[k][Page] = up[k]
      <4> QED BY ONLY <4>2, <4>3, <4>5
    <3>6. v \in Int
      <4>1. SprAccess(x)
        BY ONLY <2>3, <3>1, SprIs, cdm \in CDMs, kind \in {"read", "spr"}
      <4> QED BY ONLY <2>4, <4>1, AnswerType, DevInv
    <3>7. Last(e.vals) = v
      BY ONLY <1>1, <3>3, <3>6, LastAppended
    <3> QED BY ONLY <2>4, <3>3, <3>4, <3>5, <3>7 DEF Reached
  <2> QED BY ONLY <2>2, <2>7, <2>8
<1> QED BY ONLY <1>2, <1>3

LEMMA FailedReached ==
    ASSUME NEW c, NEW up, CallInv(c, up), c.rv = "", NEW x, NEW dis
    PROVE  Reached(GroupFailed(c, x), dis)
<1>1. DOMAIN c = Fields /\ Underway(c, up)
  BY ONLY Going, CallInv(c, up), c.rv = "", CallFields
<1>2. CASE c.stage = "describe"
  <2> DEFINE e == [c EXCEPT !.partial = TRUE,
                            !.mods[x.addr + 1] = [addr |-> x.addr, vals |-> <<0, 0, 0>>]]
  <2>1. c.op # "cpureg"
    BY ONLY <1>1, <1>2, CpuUnderway
  <2>2. GroupFailed(c, x) = NextModule(e)
    BY ONLY <1>2 DEF GroupFailed
  <2>3. DOMAIN e = Fields /\ e.op = c.op
    BY ONLY <1>1 DEF Fields
  <2> HIDE DEF e
  <2>4. NextModule(e).op = c.op
    BY ONLY <2>3, SameOp
  <2> QED BY ONLY <2>1, <2>2, <2>4 DEF Reached
<1>3. CASE c.stage = "mam"
  <2> DEFINE e == [c EXCEPT !.partial = TRUE,
                            !.mems = Append(@, [addr |-> x.addr, vals |-> c.vals])]
  <2>1. c.op # "cpureg"
    BY ONLY <1>1, <1>3, CpuUnderway
  <2>2. GroupFailed(c, x) = NextMemory(e)
    BY ONLY <1>3 DEF GroupFailed
  <2>3. DOMAIN e = Fields /\ e.op = c.op
    BY ONLY <1>1 DEF Fields
  <2> HIDE DEF e
  <2>4. NextMemory(e).op = c.op
    BY ONLY <2>3, SameOp
  <2> QED BY ONLY <2>1, <2>2, <2>4 DEF Reached
<1>4. CASE c.stage \notin {"describe", "mam"}
  <2>1. PICK r : r \in {"ERR", "WRONG_MODULE"}
                 /\ GroupFailed(c, x) = [c EXCEPT !.rv = r, !.group = <<>>]
    BY ONLY <1>4 DEF GroupFailed
  <2>2. GroupFailed(c, x).rv = r
    BY ONLY <1>1, <2>1 DEF Fields
  <2> QED BY ONLY <2>1, <2>2 DEF Reached
<1> QED BY ONLY <1>2, <1>3, <1>4
-----------------------------------------------------------------------------
(* The accesses keep the invariant.                                        *)
LEMMA PageGoesOn ==
    ASSUME NEW c, NEW up, CallInv(c, up), c.rv = "", NEW x, x = Head(c.group),
           PageWrite(x) \/ c.stage = "desc", NEW v
    PROVE  After(c, x, v).op # "cpureg" \/ After(c, x, v).rv = ""
<1>1. DOMAIN c = Fields /\ DOMAIN c = DOMAIN NoCall /\ c.vals \in Seq(Int) /\ Underway(c, up)
  BY ONLY Going, CallInv(c, up), c.rv = "", CallFields
<1>2. CASE c.op # "cpureg"
  BY ONLY <1>1, <1>2, AfterOp
<1>3. CASE c.op = "cpureg"
  <2>1. c.stage = "" /\ AccessingCpu(c, up) /\ PageWrite(x)
    BY ONLY <1>1, <1>3, CpuUnderway, PageWrite(x) \/ c.stage = "desc"
  <2>2. PICK cdm \in CDMs, kind \in {"read", "spr"} :
          \/ c.group = <<W(cdm, "CORE_REG_UPPER", c.arg \div SPR_PAGE),
                         Spr(kind, cdm, c.arg)>>
          \/ c.group = <<Spr(kind, cdm, c.arg)>> /\ up[cdm] = c.arg \div SPR_PAGE
    BY ONLY <2>1 DEF AccessingCpu
  <2>3. CASE c.group = <<Spr(kind, cdm, c.arg)>>
    <3>1. x = Spr(kind, cdm, c.arg)
      BY ONLY <2>3, x = Head(c.group)
    <3>2. x.kind = kind
      BY ONLY <3>1 DEF Spr
    <3> QED BY ONLY <2>1, <3>2, kind \in {"read", "spr"} DEF PageWrite
  <2>4. CASE c.group = <<W(cdm, "CORE_REG_UPPER", c.arg \div SPR_PAGE), Spr(kind, cdm, c.arg)>>
    <3>1. Len(c.group) > 1
      BY ONLY <2>4, Pair
    <3>2. Done(c, v).rv = ""
      BY ONLY <1>1, DoneFields, c.rv = ""
    <3> QED BY ONLY <3>1, <3>2 DEF After
  <2> QED BY ONLY <2>2, <2>3, <2>4
<1> QED BY ONLY <1>2, <1>3

LEMMA ClientsAfter ==
    ASSUME DOMAIN client = Host, NEW h \in Host, NEW d, client' = [client EXCEPT ![h] = d]
    PROVE  DOMAIN client' = Host /\ client'[h] = d
           /\ \A g \in Host : g # h => client'[g] = client[g]
OBVIOUS

LEMMA UpperAfter ==
    ASSUME upper \in [Host -> [CDMs -> Nat \cup {Unset}]], NEW h \in Host, NEW a \in CDMs,
           NEW w \in Nat, upper' = [upper EXCEPT ![h][a] = w]
    PROVE  /\ upper' \in [Host -> [CDMs -> Nat \cup {Unset}]]
           /\ upper'[h][a] = w
           /\ \A cdm \in CDMs : cdm # a => upper'[h][cdm] = upper[h][cdm]
           /\ \A g \in Host : g # h => upper'[g] = upper[g]
OBVIOUS

LEMMA PageWritten ==
    ASSUME NEW c, NEW x, PageWrite(x),
           Known(x) \/ PageAccess(x) \/ SprAccess(x) \/ BitAccess(c, x)
    PROVE  x.addr \in CDMs /\ x.val \in Nat /\ PageAccess(x)
<1>1. x.kind = "write"
  BY DEF PageWrite
<1>2. PageAccess(x)
  BY <1>1 DEF Known, SprAccess, BitAccess
<1>3. x.addr \in CDMs /\ x.val \in 0 .. (WORD - 1)
  BY ONLY <1>2 DEF PageAccess
<1>4. x.val \in Nat
  BY ONLY <1>3, Numbers
<1> QED BY ONLY <1>2, <1>3, <1>4

LEMMA AccessOKInv ==
    ASSUME Inv, NEW h \in Host, AccessOK(h)
    PROVE  Inv'
<1>1. PICK c, x : c = client[h] /\ x = Head(c.group)
  OBVIOUS
<1>2. PICK v : v = Answered(x)
  BY SMTT(40)
<1>3. /\ c.rv = "" /\ Executed(h, x)
      /\ client' = [client EXCEPT ![h] = After(c, x, v)]
      /\ upper' = CASE PageWrite(x) -> [upper EXCEPT ![h][x.addr] = x.val]
                    [] c.stage = "desc" /\ x.reg = Page -> [upper EXCEPT ![h][x.addr] = v]
                    [] OTHER -> upper
      /\ disturbed' = [g \in Host |->
            IF upper'[g] # upper[g] THEN disturbed[g] \ {x.addr}
            ELSE IF PageWrite(x) /\ g # h THEN disturbed[g] \cup {x.addr}
            ELSE disturbed[g]]
      /\ ncalls' = ncalls /\ nfails' = nfails
  BY ONLY <1>1, <1>2, AccessOK(h) DEF AccessOK, After, Done, Busy, Page
<1>4. /\ DevInv /\ PageInv /\ BoundInv /\ DOMAIN client = Host
      /\ CallInv(c, upper[h]) /\ \A g \in Host : CallInv(client[g], upper[g])
      /\ \A g \in Host : Reached(client[g], disturbed[g])
  BY ONLY <1>1, Inv, h \in Host DEF Inv, RegisterReached, Reached
<1>5. c.vals \in Seq(Int) /\ Underway(c, upper[h])
  BY ONLY <1>3, <1>4, Going
<1>6. /\ Known(x) \/ PageAccess(x) \/ SprAccess(x) \/ BitAccess(c, x)
      /\ c.op = "cpureg" \/ c.op = "setbit" \/ Known(x)
      /\ c.stage = "desc" /\ x.reg = Page => x.addr \in CDMs
  BY ONLY <1>1, <1>5, NextAccess
<1>7. DevInv' /\ \A cdm \in CDMs : dev'[cdm][Page] = PageAfter(x, cdm)
  BY ONLY <1>1, <1>3, <1>4, <1>6, ExecutedKeeps, h \in Host
<1>8. upper \in [Host -> [CDMs -> Nat \cup {Unset}]] /\ disturbed \in [Host -> SUBSET CDMs]
      /\ \A g \in Host : \A cdm \in CDMs \ disturbed[g] :
            upper[g][cdm] # Unset => dev[cdm][Page] = upper[g][cdm]
  BY ONLY <1>4 DEF PageInv
<1>9. \/ upper' = upper /\ ~PageWrite(x)
      \/ \E w \in Nat : /\ x.addr \in CDMs /\ upper' = [upper EXCEPT ![h][x.addr] = w]
                        /\ w = dev'[x.addr][Page] /\ (PageWrite(x) => w = x.val)
                        /\ PageWrite(x) \/ c.stage = "desc"
  <2>1. CASE PageWrite(x)
    <3>1. x.addr \in CDMs /\ x.val \in Nat
      BY ONLY <1>6, <2>1, PageWritten
    <3>2. upper' = [upper EXCEPT ![h][x.addr] = x.val]
      <4>1. ~(c.stage = "desc" /\ x.reg = Page) \/ ~Known(x)
        BY ONLY <2>1 DEF PageWrite, Known
      <4>2. ~(c.stage = "desc")
        <5>1. ~Known(x)
          BY ONLY <2>1 DEF PageWrite, Known
        <5>2. c.op = "cpureg" \/ c.op = "setbit"
          BY ONLY <1>6, <5>1
        <5>3. c.stage = "desc" => c.op \in DescOps
          BY ONLY <1>5 DEF Underway, ReadingDesc
        <5> QED BY ONLY <5>2, <5>3 DEF DescOps, DescRegs
      <4> QED BY ONLY <1>3, <2>1, <4>2
    <3>3. dev'[x.addr][Page] = x.val
      BY ONLY <1>7, <2>1, <3>1 DEF PageAfter
    <3> QED BY ONLY <2>1, <3>1, <3>2, <3>3
  <2>2. CASE ~PageWrite(x) /\ c.stage = "desc" /\ x.reg = Page
    <3>1. x.addr \in CDMs
      BY ONLY <1>6, <2>2
    <3>2. upper' = [upper EXCEPT ![h][x.addr] = v]
      BY ONLY <1>3, <2>2
    <3>3. Known(x)
      <4>1. c.op \in DescOps
        BY ONLY <1>5, <2>2 DEF Underway, ReadingDesc
      <4> QED BY ONLY <1>6, <4>1 DEF DescOps, DescRegs
    <3>4. v = dev[x.addr][Page] /\ v \in Nat
      BY ONLY <1>2, <1>4, <2>2, <3>3, AnswerType
    <3>5. dev'[x.addr][Page] = v
      BY ONLY <1>7, <2>2, <3>1, <3>4 DEF PageAfter
    <3> QED BY ONLY <2>2, <3>1, <3>2, <3>4, <3>5
  <2>3. CASE ~PageWrite(x) /\ ~(c.stage = "desc" /\ x.reg = Page)
    BY ONLY <1>3, <2>3
  <2> QED BY ONLY <2>1, <2>2, <2>3
<1>10. /\ upper' \in [Host -> [CDMs -> Nat \cup {Unset}]]
       /\ \A g \in Host : g # h => upper'[g] = upper[g]
       /\ \/ upper' = upper /\ ~PageWrite(x)
          \/ /\ x.addr \in CDMs /\ upper'[h][x.addr] = dev'[x.addr][Page]
             /\ PageWrite(x) => upper'[h][x.addr] = x.val
             /\ \A cdm \in CDMs : cdm # x.addr => upper'[h][cdm] = upper[h][cdm]
             /\ PageWrite(x) \/ c.stage = "desc"
  <2>1. CASE upper' = upper /\ ~PageWrite(x)
    BY ONLY <1>8, <2>1
  <2>2. CASE \E w \in Nat : /\ x.addr \in CDMs /\ upper' = [upper EXCEPT ![h][x.addr] = w]
                            /\ w = dev'[x.addr][Page] /\ (PageWrite(x) => w = x.val)
                            /\ PageWrite(x) \/ c.stage = "desc"
    <3>1. PICK w \in Nat : /\ x.addr \in CDMs /\ upper' = [upper EXCEPT ![h][x.addr] = w]
                           /\ w = dev'[x.addr][Page] /\ (PageWrite(x) => w = x.val)
                           /\ PageWrite(x) \/ c.stage = "desc"
      BY ONLY <2>2
    <3>2. PICK a \in CDMs : a = x.addr
      BY ONLY <3>1
    <3>3. /\ upper' \in [Host -> [CDMs -> Nat \cup {Unset}]]
          /\ upper'[h][a] = w
          /\ \A cdm \in CDMs : cdm # a => upper'[h][cdm] = upper[h][cdm]
          /\ \A g \in Host : g # h => upper'[g] = upper[g]
      BY ONLY <1>8, <3>1, <3>2, UpperAfter, h \in Host
    <3> QED BY ONLY <3>1, <3>2, <3>3
  <2> QED BY ONLY <1>9, <2>1, <2>2
<1>11. \A g \in Host :
          /\ upper'[g] # upper[g] => g = h /\ disturbed'[g] = disturbed[g] \ {x.addr}
          /\ upper'[g] = upper[g] /\ PageWrite(x) /\ g # h
                => disturbed'[g] = disturbed[g] \cup {x.addr}
          /\ upper'[g] = upper[g] /\ ~(PageWrite(x) /\ g # h) => disturbed'[g] = disturbed[g]
  BY ONLY <1>3, <1>10
<1>12. disturbed' \in [Host -> SUBSET CDMs]
  <2>1. PageWrite(x) => x.addr \in CDMs
    BY ONLY <1>6, PageWritten
  <2>2. ASSUME NEW g \in Host PROVE disturbed'[g] \in SUBSET CDMs
    <3>1. disturbed[g] \subseteq CDMs
      BY ONLY <1>8, g \in Host
    <3> QED BY ONLY <1>11, <2>1, <3>1, g \in Host
  <2>3. disturbed' = [g \in Host |-> disturbed'[g]]
    BY ONLY <1>3
  <2> QED BY ONLY <2>2, <2>3
<1>13. PageInv'
  <2>1. ASSUME NEW g \in Host, NEW cdm \in CDMs, cdm \notin disturbed'[g], upper'[g][cdm] # Unset
        PROVE  dev'[cdm][Page] = upper'[g][cdm]
    <3>1. CASE upper' = upper /\ ~PageWrite(x)
      <4>1. dev'[cdm][Page] = dev[cdm][Page]
        BY ONLY <1>7, <3>1, cdm \in CDMs DEF PageAfter
      <4>2. cdm \notin disturbed[g]
        BY ONLY <1>11, <2>1, <3>1, g \in Host
      <4> QED BY ONLY <1>8, <2>1, <3>1, <4>1, <4>2, g \in Host, cdm \in CDMs
    <3>2. CASE g = h /\ ~(upper' = upper /\ ~PageWrite(x))
      <4>1. CASE cdm = x.addr
        BY ONLY <1>10, <3>2, <4>1
      <4>2. CASE cdm # x.addr
        <5>1. cdm \notin disturbed[g] /\ upper'[g][cdm] = upper[g][cdm]
          BY ONLY <1>10, <1>11, <2>1, <3>2, <4>2, g \in Host, cdm \in CDMs
        <5>2. dev'[cdm][Page] = dev[cdm][Page]
          BY ONLY <1>7, <4>2, cdm \in CDMs DEF PageAfter
        <5> QED BY ONLY <1>8, <2>1, <5>1, <5>2, g \in Host, cdm \in CDMs
      <4> QED BY ONLY <4>1, <4>2
    <3>3. CASE g # h
      <4>1. upper'[g] = upper[g]
        BY ONLY <1>10, <3>3, g \in Host
      <4>2. cdm \notin disturbed[g] /\ (PageWrite(x) => cdm # x.addr)
        BY ONLY <1>11, <2>1, <3>3, <4>1, g \in Host
      <4>3. dev'[cdm][Page] = dev[cdm][Page]
        BY ONLY <1>7, <4>2, cdm \in CDMs DEF PageAfter
      <4> QED BY ONLY <1>8, <2>1, <4>1, <4>2, <4>3, g \in Host, cdm \in CDMs
    <3> QED BY ONLY <3>1, <3>2, <3>3
  <2> QED BY ONLY <1>10, <1>12, <2>1 DEF PageInv
<1>14. /\ DOMAIN client' = Host /\ client'[h] = After(c, x, v)
       /\ \A g \in Host : g # h => client'[g] = client[g]
  BY ONLY <1>3, <1>4, ClientsAfter, h \in Host
<1>15. \A g \in Host : CallInv(client'[g], upper'[g])
  <2>1. CallInv(After(c, x, Answered(x)), upper'[h])
    <3>1. PageWrite(x) => upper'[h][x.addr] = x.val
      BY ONLY <1>10
    <3> QED BY ONLY <1>1, <1>3, <1>4, <3>1, CallGoesOn
  <2> QED BY ONLY <1>2, <1>4, <1>10, <1>14, <2>1, SMTT(40)
<1>16. \A g \in Host : Reached(client'[g], disturbed'[g])
  <2>1. CASE upper'[h] = upper[h]
    <3>1. disturbed[h] = {} =>
            \A cdm \in CDMs : upper[h][cdm] # Unset => dev[cdm][Page] = upper[h][cdm]
      BY ONLY <1>8, h \in Host
    <3>2. Reached(After(c, x, Answered(x)), disturbed[h])
      BY ONLY <1>1, <1>3, <1>4, <3>1, CpuReached
    <3>3. disturbed'[h] = disturbed[h]
      BY ONLY <1>11, <2>1, h \in Host
    <3> QED BY ONLY <1>2, <1>4, <1>10, <1>11, <1>14, <3>2, <3>3 DEF Reached
  <2>2. CASE upper'[h] # upper[h]
    <3>1. PageWrite(x) \/ c.stage = "desc"
      BY ONLY <1>10, <2>2
    <3>2. After(c, x, v).op # "cpureg" \/ After(c, x, v).rv = ""
      BY ONLY <1>1, <1>3, <1>4, <3>1, PageGoesOn
    <3>3. Reached(client'[h], disturbed'[h])
      BY ONLY <1>14, <3>2 DEF Reached
    <3>4. ASSUME NEW g \in Host, g # h PROVE Reached(client'[g], disturbed'[g])
      <4>1. disturbed'[g] = {} => disturbed[g] = {}
        BY ONLY <1>10, <1>11, <3>4
      <4> QED BY ONLY <1>4, <1>14, <3>4, <4>1 DEF Reached
    <3> QED BY ONLY <3>3, <3>4
  <2> QED BY ONLY <2>1, <2>2
<1>17. BoundInv'
  BY ONLY <1>3, <1>4 DEF BoundInv
<1> QED BY ONLY <1>7, <1>13, <1>14, <1>15, <1>16, <1>17 DEF Inv, RegisterReached, Reached

LEMMA AccessFailsInv ==
    ASSUME Inv, NEW h \in Host, AccessFails(h)
    PROVE  Inv'
<1>1. PICK c, x : c = client[h] /\ x = Head(c.group)
  OBVIOUS
<1>2. /\ c.rv = "" /\ nfails < MaxFails /\ nfails' = nfails + 1
      /\ client' = [client EXCEPT ![h] = GroupFailed(c, x)]
      /\ \/ dev' = dev /\ disturbed' = disturbed
         \/ /\ Executed(h, x)
            /\ disturbed' = IF PageWrite(x)
                            THEN [g \in Host |-> disturbed[g] \cup {x.addr}]
                            ELSE disturbed
      /\ upper' = upper /\ ncalls' = ncalls
  BY ONLY <1>1, AccessFails(h) DEF AccessFails, Busy
<1>3. /\ DevInv /\ PageInv /\ BoundInv /\ DOMAIN client = Host
      /\ CallInv(c, upper[h]) /\ \A g \in Host : CallInv(client[g], upper[g])
      /\ \A g \in Host : Reached(client[g], disturbed[g])
  BY ONLY <1>1, Inv, h \in Host DEF Inv, RegisterReached, Reached
<1>4. c.vals \in Seq(Int) /\ Underway(c, upper[h])
  BY ONLY <1>2, <1>3, Going
<1>5. Known(x) \/ PageAccess(x) \/ SprAccess(x) \/ BitAccess(c, x)
  BY ONLY <1>1, <1>4, NextAccess
<1>6. upper \in [Host -> [CDMs -> Nat \cup {Unset}]] /\ disturbed \in [Host -> SUBSET CDMs]
      /\ \A g \in Host : \A cdm \in CDMs \ disturbed[g] :
            upper[g][cdm] # Unset => dev[cdm][Page] = upper[g][cdm]
  BY ONLY <1>3 DEF PageInv
<1>7. /\ DevInv' /\ disturbed' \in [Host -> SUBSET CDMs]
      /\ \A g \in Host : disturbed[g] \subseteq disturbed'[g]
      /\ \A g \in Host : \A cdm \in CDMs \ disturbed'[g] : dev'[cdm][Page] = dev[cdm][Page]
  <2>1. CASE dev' = dev /\ disturbed' = disturbed
    <3>1. DevInv'
      BY ONLY <1>3, <2>1 DEF DevInv, Keeps, Steady
    <3> QED BY ONLY <1>6, <2>1, <3>1
  <2>2. CASE /\ Executed(h, x)
             /\ disturbed' = IF PageWrite(x)
                             THEN [g \in Host |-> disturbed[g] \cup {x.addr}]
                             ELSE disturbed
    <3>1. DevInv' /\ \A cdm \in CDMs : dev'[cdm][Page] = PageAfter(x, cdm)
      BY ONLY <1>1, <1>3, <1>5, <2>2, ExecutedKeeps, h \in Host
    <3>2. CASE PageWrite(x)
      <4>1. x.addr \in CDMs
        BY ONLY <1>5, <3>2, PageWritten
      <4>2. disturbed' = [g \in Host |-> disturbed[g] \cup {x.addr}]
        BY ONLY <2>2, <3>2
      <4>3. disturbed' \in [Host -> SUBSET CDMs]
        BY ONLY <1>6, <4>1, <4>2
      <4>4. \A g \in Host : disturbed[g] \subseteq disturbed'[g] /\ x.addr \in disturbed'[g]
        BY ONLY <4>2
      <4>5. ASSUME NEW g \in Host, NEW cdm \in CDMs \ disturbed'[g]
            PROVE  dev'[cdm][Page] = dev[cdm][Page]
        <5>1. cdm # x.addr
          BY ONLY <4>4, g \in Host, cdm \in CDMs \ disturbed'[g]
        <5> QED BY ONLY <3>1, <5>1, cdm \in CDMs \ disturbed'[g] DEF PageAfter
      <4> QED BY ONLY <3>1, <4>3, <4>4, <4>5
    <3>3. CASE ~PageWrite(x)
      <4>1. disturbed' = disturbed
        BY ONLY <2>2, <3>3
      <4>2. \A cdm \in CDMs : dev'[cdm][Page] = dev[cdm][Page]
        BY ONLY <3>1, <3>3 DEF PageAfter
      <4> QED BY ONLY <1>6, <3>1, <4>1, <4>2
    <3> QED BY ONLY <3>2, <3>3
  <2> QED BY ONLY <1>2, <2>1, <2>2
<1>8. PageInv'
  <2>1. ASSUME NEW g \in Host, NEW cdm \in CDMs \ disturbed'[g], upper'[g][cdm] # Unset
        PROVE  dev'[cdm][Page] = upper'[g][cdm]
    <3>1. cdm \in CDMs \ disturbed[g] /\ dev'[cdm][Page] = dev[cdm][Page]
      BY ONLY <1>7, g \in Host, cdm \in CDMs \ disturbed'[g]
    <3> QED BY ONLY <1>2, <1>6, <2>1, <3>1, g \in Host
  <2> QED BY ONLY <1>2, <1>6, <1>7, <2>1 DEF PageInv
<1>9. /\ DOMAIN client' = Host /\ client'[h] = GroupFailed(c, x)
      /\ \A g \in Host : g # h => client'[g] = client[g]
  BY ONLY <1>2, <1>3, ClientsAfter, h \in Host
<1>10. \A g \in Host : CallInv(client'[g], upper'[g])
  <2>1. CallInv(GroupFailed(c, x), upper[h])
    BY ONLY <1>1, <1>2, <1>3, CallFails
  <2> QED BY ONLY <1>2, <1>3, <1>9, <2>1
<1>11. \A g \in Host : Reached(client'[g], disturbed'[g])
  <2>1. Reached(GroupFailed(c, x), disturbed'[h])
    BY ONLY <1>2, <1>3, FailedReached
  <2>2. ASSUME NEW g \in Host, g # h PROVE Reached(client'[g], disturbed'[g])
    <3>1. disturbed'[g] = {} => disturbed[g] = {}
      BY ONLY <1>7, g \in Host
    <3> QED BY ONLY <1>3, <1>9, <2>2, <3>1 DEF Reached
  <2> QED BY ONLY <1>9, <2>1, <2>2
<1>12. BoundInv'
  <2>1. nfails \in Nat /\ MaxFails \in Nat /\ ncalls \in 0 .. MaxRegCalls
    BY ONLY <1>3, Numbers DEF BoundInv
  <2>2. nfails < MaxFails
    BY ONLY <1>2
  <2>3. nfails + 1 \in 0 .. MaxFails
    BY ONLY <2>1, <2>2
  <2> QED BY ONLY <1>2, <2>1, <2>3 DEF BoundInv
<1> QED BY ONLY <1>7, <1>8, <1>9, <1>10, <1>11, <1>12 DEF Inv, RegisterReached, Reached
-----------------------------------------------------------------------------
(* Calls begin.                                                            *)
NewCall(op, stage, arg, flags, group) ==
    [NoCall EXCEPT !.op = op, !.stage = stage, !.arg = arg, !.flags = flags,
                   !.group = group, !.rv = ""]

LEMMA Joined ==
    ASSUME NEW p, NEW q
    PROVE  <<p>> \o <<q>> = <<p, q>>
<1>1. PICK S : S = {p, q}
  OBVIOUS
<1>2. <<p>> \in Seq(S) /\ q \in S
  BY <1>1
<1>3. <<p>> \o <<q>> = Append(<<p>>, q)
  BY ONLY <1>2
<1>4. PICK s : s = Append(<<p>>, q)
  OBVIOUS
<1>5. s \in Seq(S) /\ Len(s) = 2 /\ s[1] = p /\ s[2] = q
  BY ONLY <1>2, <1>4
<1>6. s = <<s[1], s[2]>>
  BY ONLY <1>5
<1> QED BY ONLY <1>3, <1>4, <1>5, <1>6

(* A call that begins is where a call can be.                              *)
LEMMA CallBegins ==
    ASSUME NEW op, NEW stage, NEW arg, NEW flags, NEW group, NEW up,
           Underway(NewCall(op, stage, arg, flags, group), up)
    PROVE  CallInv(NewCall(op, stage, arg, flags, group), up)
<1>1. PICK c : c = NewCall(op, stage, arg, flags, group)
  OBVIOUS
<1>2. DOMAIN c = DOMAIN NoCall /\ c.vals = <<>> /\ c.rv = ""
  BY ONLY <1>1 DEF NewCall, NoCall
<1>3. Underway(c, up)
  BY ONLY <1>1, Underway(NewCall(op, stage, arg, flags, group), up)
<1>4. CallInv(c, up)
  BY ONLY <1>2, <1>3, EmptyValues DEF CallInv
<1> QED BY ONLY <1>1, <1>4

LEMMA CallStep ==
    ASSUME Inv, NEW h \in Host, NEW op, NEW stage, NEW arg, NEW flags, NEW group,
           Call(h, op, stage, arg, flags, group),
           Underway(NewCall(op, stage, arg, flags, group), upper[h])
    PROVE  Inv'
<1>1. PICK c : c = NewCall(op, stage, arg, flags, group)
  OBVIOUS
<1>2. /\ client' = [client EXCEPT ![h] = c] /\ ncalls < MaxRegCalls /\ ncalls' = ncalls + 1
      /\ dev' = dev /\ upper' = upper /\ disturbed' = disturbed /\ nfails' = nfails
  BY ONLY <1>1, Call(h, op, stage, arg, flags, group) DEF Call, NewCall
<1>3. /\ DevInv /\ PageInv /\ BoundInv /\ DOMAIN client = Host
      /\ \A g \in Host : CallInv(client[g], upper[g])
      /\ \A g \in Host : Reached(client[g], disturbed[g])
  BY ONLY Inv DEF Inv, RegisterReached, Reached
<1>4. /\ DOMAIN client' = Host /\ client'[h] = c
      /\ \A g \in Host : g # h => client'[g] = client[g]
  BY ONLY <1>2, <1>3, ClientsAfter, h \in Host
<1>5. CallInv(c, upper[h]) /\ c.rv = ""
  <2>1. CallInv(NewCall(op, stage, arg, flags, group), upper[h])
    BY ONLY CallBegins, Underway(NewCall(op, stage, arg, flags, group), upper[h])
  <2>2. NewCall(op, stage, arg, flags, group).rv = ""
    BY DEF NewCall, NoCall
  <2> QED BY ONLY <1>1, <2>1, <2>2
<1>6. \A g \in Host : CallInv(client'[g], upper'[g])
  BY ONLY <1>2, <1>3, <1>4, <1>5
<1>7. Reached(client'[h], disturbed'[h])
  BY ONLY <1>4, <1>5 DEF Reached
<1>8. \A g \in Host : Reached(client'[g], disturbed'[g])
  BY ONLY <1>2, <1>3, <1>4, <1>7
<1>9. BoundInv'
  <2>1. ncalls \in Nat /\ MaxRegCalls \in Nat /\ nfails \in 0 .. MaxFails
    BY ONLY <1>3, Numbers DEF BoundInv
  <2>2. ncalls + 1 \in 0 .. MaxRegCalls
    BY ONLY <1>2, <2>1
  <2> QED BY ONLY <1>2, <2>1, <2>2 DEF BoundInv
<1>10. DevInv'
  BY ONLY <1>2, <1>3 DEF DevInv, Keeps, Steady
<1>11. PageInv'
  BY ONLY <1>2, <1>3 DEF PageInv
<1> QED BY ONLY <1>4, <1>6, <1>8, <1>9, <1>10, <1>11 DEF Inv, RegisterReached, Reached

LEMMA SettingBegins ==
    ASSUME NEW a \in DOMAIN Device, NEW name \in {"CS", "SYSRST"}, Has(a, name),
           NEW on \in BOOLEAN, NEW mask, mask = BitOf(name), NEW flags, NEW up
    PROVE  Underway(NewCall("setbit", "", a, flags,
                            osd_hostmod_reg_setbit(a, name, mask, on)), up)
<1>1. PICK c, full : /\ full = osd_hostmod_reg_setbit(a, name, mask, on)
                     /\ c = NewCall("setbit", "", a, flags, full)
  OBVIOUS
<1>2. c.stage = "" /\ c.op = "setbit" /\ c.group = full /\ c.vals = <<>>
  BY ONLY <1>1 DEF NewCall, NoCall
<1>3. <<name, 0>> \in DOMAIN Device[a]
  BY ONLY Has(a, name) DEF Has
<1>4. full = osd_hostmod_reg_setbit(a, name, BitOf(name), on)
  BY ONLY <1>1, mask = BitOf(name)
<1>5. SettingBit(c)
  BY ONLY <1>2, <1>3, <1>4, a \in DOMAIN Device, name \in {"CS", "SYSRST"}, on \in BOOLEAN
          DEF SettingBit
<1> QED BY ONLY <1>1, <1>2, <1>5 DEF Underway

LEMMA SubnetBegins ==
    ASSUME NEW s \in Subnet, NEW up
    PROVE  Underway(NewCall("subnetinfo", "", s, 0, SubnetRegs(s)), up)
<1>1. PICK c : c = NewCall("subnetinfo", "", s, 0, SubnetRegs(s))
  OBVIOUS
<1>2. c.stage = "" /\ c.op = "subnetinfo" /\ c.group = SubnetRegs(s) /\ c.vals = <<>>
  BY ONLY <1>1 DEF NewCall, NoCall
<1>3. SubnetRegs(s) \in Seq(Reads) /\ Len(SubnetRegs(s)) > 0
  BY ONLY SubnetGroup, SubnetGroupType, s \in Subnet
<1>4. Len(c.vals) = 0 /\ 0 \in Nat
  BY ONLY <1>2, EmptyValues
<1>5. Reading(c, SubnetRegs(s), 0)
  BY ONLY <1>2, <1>3, <1>4, ReadStart
<1> QED BY ONLY <1>1, <1>2, <1>5, s \in Subnet DEF Underway

LEMMA CountBegins ==
    ASSUME NEW s \in Subnet, NEW op \in {"get_modules", "find_memories"}, NEW up
    PROVE  Underway(NewCall(op, "count", s, 0, <<R(Scm(s), "NUM_MOD", 0)>>), up)
<1>1. PICK c : c = NewCall(op, "count", s, 0, <<R(Scm(s), "NUM_MOD", 0)>>)
  OBVIOUS
<1>2. /\ c.stage = "count" /\ c.op = op /\ c.arg = s
      /\ c.group = <<R(Scm(s), "NUM_MOD", 0)>>
      /\ c.vals = <<>> /\ c.at = 0 /\ c.mems = <<>> /\ c.partial = FALSE
  BY ONLY <1>1 DEF NewCall, NoCall
<1>3. Counting(c)
  BY ONLY <1>2, s \in Subnet DEF Counting
<1> QED BY ONLY <1>1, <1>2, <1>3, op \in {"get_modules", "find_memories"} DEF Underway

LEMMA DescBegins ==
    ASSUME NEW a \in DOMAIN Device, NEW op \in DescOps, NEW up
    PROVE  Underway(NewCall(op, "type", a, 0, osd_hostmod_mod_describe(a)), up)
<1>1. PICK c : c = NewCall(op, "type", a, 0, osd_hostmod_mod_describe(a))
  OBVIOUS
<1>2. /\ c.stage = "type" /\ c.op = op /\ c.arg = a
      /\ c.group = osd_hostmod_mod_describe(a) /\ c.vals = <<>>
  BY ONLY <1>1 DEF NewCall, NoCall
<1>3. /\ osd_hostmod_mod_describe(a) \in Seq(Reads)
      /\ Len(osd_hostmod_mod_describe(a)) > 0
  BY ONLY GroupTypes, DescribeGroup, a \in DOMAIN Device
<1>4. Len(c.vals) = 0 /\ 0 \in Nat
  BY ONLY <1>2, EmptyValues
<1>5. Reading(c, osd_hostmod_mod_describe(a), 0)
  BY ONLY <1>2, <1>3, <1>4, ReadStart
<1>6. CheckingType(c)
  BY ONLY <1>2, <1>5, a \in DOMAIN Device, op \in DescOps DEF CheckingType
<1> QED BY ONLY <1>1, <1>2, <1>6 DEF Underway

(* The first register access of a core is the one that selects the page,   *)
(* or the page is the one the host has selected last.                      *)
LEMMA CpuBegins ==
    ASSUME NEW h \in Host, NEW cdm \in CDMs, NEW kind \in {"read", "spr"},
           NEW reg_addr \in 0 .. (2 * SPR_PAGE - 1)
    PROVE  Underway(NewCall("cpureg", "", reg_addr, 0,
                            SelectPage(h, cdm, reg_addr) \o <<Spr(kind, cdm, reg_addr)>>),
                    upper[h])
<1>1. PICK group, c : /\ group = SelectPage(h, cdm, reg_addr) \o <<Spr(kind, cdm, reg_addr)>>
                      /\ c = NewCall("cpureg", "", reg_addr, 0, group)
  OBVIOUS
<1>2. c.stage = "" /\ c.op = "cpureg" /\ c.arg = reg_addr /\ c.group = group
  BY ONLY <1>1 DEF NewCall, NoCall
<1>3. reg_addr \in Nat /\ reg_addr < 2 * SPR_PAGE
  BY ONLY Numbers, reg_addr \in 0 .. (2 * SPR_PAGE - 1)
<1>4. PICK p : p = reg_addr \div SPR_PAGE
  OBVIOUS
<1>5. p < WORD
  <2>1. p \in Nat /\ reg_addr % SPR_PAGE \in Nat
        /\ p * SPR_PAGE + (reg_addr % SPR_PAGE) = reg_addr
    BY ONLY <1>3, <1>4, PageOf
  <2>2. PICK m \in Nat : p * SPR_PAGE + m = reg_addr
    BY ONLY <2>1
  <2>3. p < 2
    <3>1. ASSUME p >= 2 PROVE FALSE
      <4>1. p * SPR_PAGE >= 2 * SPR_PAGE
        BY ONLY <2>1, <3>1, Numbers
      <4>2. PICK k : k = p * SPR_PAGE
        OBVIOUS
      <4>3. k \in Nat
        BY ONLY <2>1, <4>2, Numbers
      <4> QED BY ONLY <1>3, <2>2, <4>1, <4>2, <4>3, Numbers
    <3> QED BY ONLY <2>1, <3>1
  <2>4. WORD >= 4
    BY ONLY Numbers
  <2> QED BY ONLY <2>1, <2>3, <2>4, Numbers
<1>6. PICK s, w : s = Spr(kind, cdm, reg_addr) /\ w = W(cdm, "CORE_REG_UPPER", p)
  OBVIOUS
<1>7. CASE upper[h][cdm] = p
  <2>1. group = <<>> \o <<s>>
    BY ONLY <1>1, <1>4, <1>6, <1>7 DEF SelectPage
  <2>2. group = <<s>>
    BY ONLY <2>1
  <2>3. AccessingCpu(c, upper[h])
    BY ONLY <1>2, <1>3, <1>4, <1>5, <1>6, <1>7, <2>2, cdm \in CDMs, kind \in {"read", "spr"}
            DEF AccessingCpu
  <2> QED BY ONLY <1>1, <1>2, <2>3 DEF Underway
<1>8. CASE upper[h][cdm] # p
  <2>1. group = <<w>> \o <<s>>
    BY ONLY <1>1, <1>4, <1>6, <1>8 DEF SelectPage
  <2>2. group = <<w, s>>
    BY ONLY <2>1, Joined
  <2>3. AccessingCpu(c, upper[h])
    BY ONLY <1>2, <1>3, <1>4, <1>5, <1>6, <2>2, cdm \in CDMs, kind \in {"read", "spr"}
            DEF AccessingCpu
  <2> QED BY ONLY <1>1, <1>2, <2>3 DEF Underway
<1> QED BY ONLY <1>7, <1>8
-----------------------------------------------------------------------------
(* What the clients say of the device.                                     *)
LEMMA InitInv == RegInit => Inv
<1> SUFFICES ASSUME RegInit PROVE Inv
  OBVIOUS
<1>1. /\ dev = Device /\ client = [h \in Host |-> NoCall]
      /\ upper = [h \in Host |-> [c \in CDMs |-> Unset]]
      /\ disturbed = [h \in Host |-> {}] /\ ncalls = 0 /\ nfails = 0
  BY DEF RegInit
<1>2. DevInv
  BY ONLY <1>1, Words DEF DevInv, Keeps
<1>3. PageInv
  BY ONLY <1>1 DEF PageInv
<1>4. BoundInv
  BY ONLY <1>1, Numbers DEF BoundInv
<1>5. NoCall.vals = <<>> /\ NoCall.rv = "OK" /\ NoCall.op = "none"
  BY ONLY TRUE DEF NoCall
<1>6. "none" \notin DescOps
  BY ONLY TRUE DEF DescOps, DescRegs
<1>7. \A up : CallInv(NoCall, up)
  BY ONLY <1>5, <1>6, EmptyValues DEF CallInv, Results, ModulesOf, MemoriesOf, DescOf
<1>8. DOMAIN client = Host /\ \A h \in Host : client[h] = NoCall
  BY ONLY <1>1
<1>9. \A h \in Host : CallInv(client[h], upper[h])
  BY ONLY <1>7, <1>8
<1>10. RegisterReached
  BY ONLY <1>5, <1>8 DEF RegisterReached
<1> QED BY ONLY <1>2, <1>3, <1>4, <1>8, <1>9, <1>10 DEF Inv

LEMMA ScmCalls ==
    ASSUME Inv, NEW h \in Host, NEW s \in Subnet,
           \/ osd_cl_scm_cpus_start(h, s) \/ osd_cl_scm_cpus_stop(h, s)
           \/ osd_cl_scm_get_subnetinfo(h, s)
           \/ osd_hostmod_get_modules(h, s) \/ osd_memaccess_find_memories(h, s)
    PROVE  Inv'
<1>1. Scm(s) \in DOMAIN Device /\ Has(Scm(s), "SYSRST") /\ BitOf("SYSRST") = 2
  BY ONLY EveryScm, s \in Subnet DEF BitOf
<1>2. CASE osd_cl_scm_cpus_start(h, s)
  <2>1. Underway(NewCall("setbit", "", Scm(s), 1,
                         osd_hostmod_reg_setbit(Scm(s), "SYSRST", 2, FALSE)), upper[h])
    BY ONLY <1>1, SettingBegins
  <2>2. Call(h, "setbit", "", Scm(s), 1, osd_hostmod_reg_setbit(Scm(s), "SYSRST", 2, FALSE))
    BY ONLY <1>2 DEF osd_cl_scm_cpus_start
  <2> QED BY ONLY <2>1, <2>2, CallStep, Inv, h \in Host
<1>3. CASE osd_cl_scm_cpus_stop(h, s)
  <2>1. Underway(NewCall("setbit", "", Scm(s), 1,
                         osd_hostmod_reg_setbit(Scm(s), "SYSRST", 2, TRUE)), upper[h])
    BY ONLY <1>1, SettingBegins
  <2>2. Call(h, "setbit", "", Scm(s), 1, osd_hostmod_reg_setbit(Scm(s), "SYSRST", 2, TRUE))
    BY ONLY <1>3 DEF osd_cl_scm_cpus_stop
  <2> QED BY ONLY <2>1, <2>2, CallStep, Inv, h \in Host
<1>4. CASE osd_cl_scm_get_subnetinfo(h, s)
  <2>1. Underway(NewCall("subnetinfo", "", s, 0, SubnetRegs(s)), upper[h])
    BY ONLY SubnetBegins, s \in Subnet
  <2>2. Call(h, "subnetinfo", "", s, 0, SubnetRegs(s))
    BY ONLY <1>4 DEF osd_cl_scm_get_subnetinfo, SubnetRegs
  <2> QED BY ONLY <2>1, <2>2, CallStep, Inv, h \in Host
<1>5. CASE osd_hostmod_get_modules(h, s)
  <2>1. Underway(NewCall("get_modules", "count", s, 0, <<R(Scm(s), "NUM_MOD", 0)>>), upper[h])
    BY ONLY CountBegins, s \in Subnet
  <2>2. Call(h, "get_modules", "count", s, 0, <<R(Scm(s), "NUM_MOD", 0)>>)
    BY ONLY <1>5 DEF osd_hostmod_get_modules
  <2> QED BY ONLY <2>1, <2>2, CallStep, Inv, h \in Host
<1>6. CASE osd_memaccess_find_memories(h, s)
  <2>1. Underway(NewCall("find_memories", "count", s, 0,
                         <<R(Scm(s), "NUM_MOD", 0)>>), upper[h])
    BY ONLY CountBegins, s \in Subnet
  <2>2. Call(h, "find_memories", "count", s, 0, <<R(Scm(s), "NUM_MOD", 0)>>)
    BY ONLY <1>6 DEF osd_memaccess_find_memories
  <2> QED BY ONLY <2>1, <2>2, CallStep, Inv, h \in Host
<1> QED BY ONLY <1>2, <1>3, <1>4, <1>5, <1>6,
                \/ osd_cl_scm_cpus_start(h, s) \/ osd_cl_scm_cpus_stop(h, s)
                \/ osd_cl_scm_get_subnetinfo(h, s)
                \/ osd_hostmod_get_modules(h, s) \/ osd_memaccess_find_memories(h, s)

LEMMA DescCall ==
    ASSUME Inv, NEW h \in Host, NEW a \in Target, NEW type \in DescOps, GetDesc(h, type, a)
    PROVE  Inv'
<1>1. a \in DOMAIN Device
  BY ONLY Addresses, a \in Target
<1>2. Underway(NewCall(type, "type", a, 0, osd_hostmod_mod_describe(a)), upper[h])
  BY ONLY <1>1, DescBegins, type \in DescOps
<1>3. Call(h, type, "type", a, 0, osd_hostmod_mod_describe(a))
  BY ONLY GetDesc(h, type, a) DEF GetDesc
<1> QED BY ONLY <1>2, <1>3, CallStep, Inv, h \in Host

LEMMA ModuleCalls ==
    ASSUME Inv, NEW h \in Host, NEW a \in Target,
           \/ \E enabled \in BOOLEAN : osd_hostmod_mod_set_event_active(h, a, enabled)
           \/ osd_cl_stm_get_desc(h, a) \/ osd_cl_ctm_get_desc(h, a)
           \/ osd_cl_cdm_get_desc(h, a) \/ osd_cl_dem_uart_get_desc(h, a)
    PROVE  Inv'
<1>1. CASE \E enabled \in BOOLEAN : osd_hostmod_mod_set_event_active(h, a, enabled)
  <2>1. PICK enabled \in BOOLEAN : osd_hostmod_mod_set_event_active(h, a, enabled)
    BY ONLY <1>1
  <2>2. a \in DOMAIN Device
    BY ONLY Addresses, a \in Target
  <2>3. Has(a, "CS") /\ BitOf("CS") = 1
    BY ONLY <2>2, EveryModule DEF BitOf
  <2>4. Underway(NewCall("setbit", "", a, 0, osd_hostmod_reg_setbit(a, "CS", 1, enabled)),
                 upper[h])
    BY ONLY <2>2, <2>3, SettingBegins, enabled \in BOOLEAN
  <2>5. Call(h, "setbit", "", a, 0, osd_hostmod_reg_setbit(a, "CS", 1, enabled))
    BY ONLY <2>1 DEF osd_hostmod_mod_set_event_active
  <2> QED BY ONLY <2>4, <2>5, CallStep, Inv, h \in Host
<1>2. {"STM", "CTM", "CDM", "DEM_UART"} \subseteq DescOps
  BY ONLY TRUE DEF DescOps, DescRegs
<1>3. CASE osd_cl_stm_get_desc(h, a)
  <2>1. GetDesc(h, "STM", a)
    BY ONLY <1>3 DEF osd_cl_stm_get_desc
  <2> QED BY ONLY <1>2, <2>1, DescCall, Inv, h \in Host, a \in Target
<1>4. CASE osd_cl_ctm_get_desc(h, a)
  <2>1. GetDesc(h, "CTM", a)
    BY ONLY <1>4 DEF osd_cl_ctm_get_desc
  <2> QED BY ONLY <1>2, <2>1, DescCall, Inv, h \in Host, a \in Target
<1>5. CASE osd_cl_cdm_get_desc(h, a)
  <2>1. GetDesc(h, "CDM", a)
    BY ONLY <1>5 DEF osd_cl_cdm_get_desc
  <2> QED BY ONLY <1>2, <2>1, DescCall, Inv, h \in Host, a \in Target
<1>6. CASE osd_cl_dem_uart_get_desc(h, a)
  <2>1. GetDesc(h, "DEM_UART", a)
    BY ONLY <1>6 DEF osd_cl_dem_uart_get_desc
  <2> QED BY ONLY <1>2, <2>1, DescCall, Inv, h \in Host, a \in Target
<1> QED BY ONLY <1>1, <1>3, <1>4, <1>5, <1>6,
                \/ \E enabled \in BOOLEAN : osd_hostmod_mod_set_event_active(h, a, enabled)
                \/ osd_cl_stm_get_desc(h, a) \/ osd_cl_ctm_get_desc(h, a)
                \/ osd_cl_cdm_get_desc(h, a) \/ osd_cl_dem_uart_get_desc(h, a)

LEMMA CpuCalls ==
    ASSUME Inv, NEW h \in Host, NEW cdm \in CDMs, NEW reg_addr \in 0 .. (2 * SPR_PAGE - 1),
           cl_cdm_cpureg_read(h, cdm, reg_addr) \/ cl_cdm_cpureg_write(h, cdm, reg_addr)
    PROVE  Inv'
<1>1. PICK kind \in {"read", "spr"} :
          Call(h, "cpureg", "", reg_addr, 0,
               SelectPage(h, cdm, reg_addr) \o <<Spr(kind, cdm, reg_addr)>>)
  BY ONLY cl_cdm_cpureg_read(h, cdm, reg_addr) \/ cl_cdm_cpureg_write(h, cdm, reg_addr)
          DEF cl_cdm_cpureg_read, cl_cdm_cpureg_write
<1>2. Underway(NewCall("cpureg", "", reg_addr, 0,
                       SelectPage(h, cdm, reg_addr) \o <<Spr(kind, cdm, reg_addr)>>),
               upper[h])
  BY ONLY CpuBegins, h \in Host, cdm \in CDMs, kind \in {"read", "spr"},
          reg_addr \in 0 .. (2 * SPR_PAGE - 1)
<1> QED BY ONLY <1>1, <1>2, CallStep, Inv, h \in Host

LEMMA NextInv == Inv /\ [RegNext]_regVars => Inv'
<1> SUFFICES ASSUME Inv, [RegNext]_regVars PROVE Inv'
  OBVIOUS
<1>1. ASSUME NEW h \in Host, NEW s \in Subnet,
             \/ osd_cl_scm_cpus_start(h, s) \/ osd_cl_scm_cpus_stop(h, s)
             \/ osd_cl_scm_get_subnetinfo(h, s)
             \/ osd_hostmod_get_modules(h, s) \/ osd_memaccess_find_memories(h, s)
      PROVE  Inv'
  BY ONLY <1>1, ScmCalls, Inv
<1>2. ASSUME NEW h \in Host, NEW a \in Target,
             \/ \E enabled \in BOOLEAN : osd_hostmod_mod_set_event_active(h, a, enabled)
             \/ osd_cl_stm_get_desc(h, a) \/ osd_cl_ctm_get_desc(h, a)
             \/ osd_cl_cdm_get_desc(h, a) \/ osd_cl_dem_uart_get_desc(h, a)
      PROVE  Inv'
  BY ONLY <1>2, ModuleCalls, Inv
<1>3. ASSUME NEW h \in Host, NEW cdm \in CDMs, NEW reg_addr \in 0 .. (2 * SPR_PAGE - 1),
             cl_cdm_cpureg_read(h, cdm, reg_addr) \/ cl_cdm_cpureg_write(h, cdm, reg_addr)
      PROVE  Inv'
  BY ONLY <1>3, CpuCalls, Inv
<1>4. ASSUME NEW h \in Host, AccessOK(h) PROVE Inv'
  BY ONLY <1>4, AccessOKInv, Inv
<1>5. ASSUME NEW h \in Host, AccessFails(h) PROVE Inv'
  BY ONLY <1>5, AccessFailsInv, Inv
<1>6. CASE UNCHANGED regVars
  <2>1. /\ dev' = dev /\ client' = client /\ upper' = upper /\ disturbed' = disturbed
        /\ ncalls' = ncalls /\ nfails' = nfails
    BY ONLY <1>6 DEF regVars
  <2> QED BY ONLY <2>1, Inv
          DEF Inv, DevInv, Keeps, Steady, PageInv, BoundInv, RegisterReached
<1>7. CASE RegNext
  BY ONLY <1>1, <1>2, <1>3, <1>4, <1>5, <1>7 DEF RegNext
<1> QED BY ONLY <1>6, <1>7, [RegNext]_regVars

(* What has been found is what is there.                                   *)
LEMMA InvFound == Inv => FoundIsThere
<1> SUFFICES ASSUME Inv PROVE FoundIsThere
  OBVIOUS
<1>1. /\ DevInv /\ PageInv /\ BoundInv
      /\ \A h \in Host : CallInv(client[h], upper[h])
  BY ONLY Inv DEF Inv
<1>2. ASSUME NEW h \in Host
      PROVE  /\ client[h].rv \in {"", "OK", "ERR", "WRONG_MODULE", "PARTIAL_RESULT"}
             /\ Busy(h) => client[h].group # <<>>
             /\ ModulesOf(client[h]) /\ MemoriesOf(client[h]) /\ DescOf(client[h])
  <2>1. PICK c, up : c = client[h] /\ up = upper[h]
    OBVIOUS
  <2>2. CallInv(c, up)
    BY ONLY <1>1, <2>1, h \in Host
  <2>3. CASE c.rv = "" /\ Underway(c, up)
    <3>1. c.vals \in Seq(Int)
      BY ONLY <2>2 DEF CallInv
    <3>2. c.group # <<>>
      <4>1. PICK x : x = Head(c.group)
        OBVIOUS
      <4> QED BY ONLY <2>3, <3>1, <4>1, NextAccess
    <3>3. ModulesOf(c) /\ MemoriesOf(c) /\ DescOf(c)
      BY ONLY <2>3 DEF ModulesOf, MemoriesOf, DescOf
    <3> QED BY ONLY <2>1, <2>3, <3>2, <3>3
  <2>4. CASE c.rv \in Results /\ ModulesOf(c) /\ MemoriesOf(c) /\ DescOf(c)
    <3>1. c.rv \in {"OK", "ERR", "WRONG_MODULE", "PARTIAL_RESULT"} /\ c.rv # ""
      BY ONLY <2>4 DEF Results
    <3> QED BY ONLY <2>1, <2>4, <3>1 DEF Busy
  <2> QED BY ONLY <2>2, <2>3, <2>4 DEF CallInv
<1>3. RegTypeOK
  <2>1. \A a \in DOMAIN Device : \A r \in DOMAIN Device[a] : dev[a][r] \in 0 .. (WORD - 1)
    BY ONLY <1>1 DEF DevInv, Keeps
  <2>2. upper \in [Host -> [CDMs -> Nat \cup {Unset}]] /\ disturbed \in [Host -> SUBSET CDMs]
    BY ONLY <1>1 DEF PageInv
  <2> QED BY ONLY <1>1, <1>2, <2>1, <2>2 DEF RegTypeOK, BoundInv
<1>4. ModulesDescribed
  BY ONLY <1>2 DEF ModulesDescribed, ModulesOf, Number, Unknown
<1>5. MemoriesFound
  BY ONLY <1>2 DEF MemoriesFound, MemoriesOf, IsMemory
<1>6. DescriptorIsOfType
  BY ONLY <1>2 DEF DescriptorIsOfType, DescOf, DescOps
<1> QED BY ONLY <1>3, <1>4, <1>5, <1>6 DEF FoundIsThere

(* A register has the same bits before and after, but the one that is set. *)
LEMMA BitsKept ==
    ASSUME Inv, Inv', NEW a \in DOMAIN Device, NEW r \in DOMAIN Device[a]
    PROVE  \/ r = <<"CORE_REG_UPPER", 0>> \/ dev'[a][r] = dev[a][r]
           \/ \A mask \in {1, 2, 4, 8} \ {IF r[1] = "CS" THEN 1 ELSE 2} :
                 (dev'[a][r] \div mask) % 2 = (dev[a][r] \div mask) % 2
<1>1. PICK v, w : v = dev'[a][r] /\ w = dev[a][r]
  OBVIOUS
<1>2. Keeps(a, r, w)
  BY ONLY <1>1, Inv, a \in DOMAIN Device, r \in DOMAIN Device[a] DEF Inv, DevInv
<1>3. Keeps(a, r, v)
  BY ONLY <1>1, Inv', a \in DOMAIN Device, r \in DOMAIN Device[a] DEF Inv, DevInv
<1>4. CASE Steady(r)
  BY ONLY <1>1, <1>2, <1>3, <1>4 DEF Keeps
<1>5. CASE r[1] \in {"CS", "SYSRST"}
  <2>1. PICK m : m = BitOf(r[1])
    OBVIOUS
  <2>2. m \in {1, 2} /\ m = IF r[1] = "CS" THEN 1 ELSE 2
    BY ONLY <2>1 DEF BitOf
  <2>3. v \in Nat /\ w \in Nat
    BY ONLY <1>2, <1>3, Numbers DEF Keeps
  <2>4. Rest(v, m) = Rest(w, m)
    BY ONLY <1>2, <1>3, <1>5, <2>1 DEF Keeps
  <2>5. \A mask \in {1, 2, 4, 8} \ {m} : (v \div mask) % 2 = (w \div mask) % 2
    BY ONLY <2>2, <2>3, <2>4, OtherBits
  <2> QED BY ONLY <1>1, <2>2, <2>5
<1> QED BY ONLY <1>4, <1>5 DEF Steady

-----------------------------------------------------------------------------
(* The clients of the debug modules keep their invariant, whatever the     *)
(* hosts do between the accesses of one another and whichever accesses     *)
(* fail (hostmod.c, cl_cdm.c, cl_scm.c, memaccess.c).                      *)
THEOREM ClientsKeepTheirPlace == RegSpec => []Inv
<1>1. RegInit => Inv
  BY InitInv
<1>2. Inv /\ [RegNext]_regVars => Inv'
  BY NextInv
<1> QED BY <1>1, <1>2, PTL DEF RegSpec

(* An access of a CPU register reaches the register that was asked for     *)
(* although the page is only written when the cached one is another: as    *)
(* long as nobody else has changed it (cl_cdm.c).                          *)
THEOREM RegistersAreReached == RegSpec => []RegisterReached
<1>1. Inv => RegisterReached
  BY DEF Inv
<1> QED BY <1>1, ClientsKeepTheirPlace, PTL

(* The modules and memories that an enumeration has found, and what a      *)
(* descriptor says, is what the registers of the device hold, for every    *)
(* device, also when accesses have failed (hostmod.c, memaccess.c).        *)
THEOREM FindingsAreTrue == RegSpec => []FoundIsThere
<1>1. Inv => FoundIsThere
  BY InvFound
<1> QED BY <1>1, ClientsKeepTheirPlace, PTL

(* No client changes another bit of a control register than the one it     *)
(* sets, although it reads the register and writes it in two accesses      *)
(* between which other hosts write it, too (osd_hostmod_reg_setbit()).     *)
THEOREM ControlBitsAreKept == RegSpec => OtherBitsKept
<1>1. Inv /\ Inv' /\ [RegNext]_regVars =>
        [\A a \in DOMAIN Device : \A r \in DOMAIN Device[a] :
            \/ r = <<"CORE_REG_UPPER", 0>> \/ dev'[a][r] = dev[a][r]
            \/ \A mask \in {1, 2, 4, 8} \ {IF r[1] = "CS" THEN 1 ELSE 2} :
                  (dev'[a][r] \div mask) % 2 = (dev[a][r] \div mask) % 2]_regVars
  BY BitsKept
<1> QED BY <1>1, ClientsKeepTheirPlace, PTL DEF RegSpec, OtherBitsKept
=============================================================================
