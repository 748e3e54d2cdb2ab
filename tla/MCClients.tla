------------------------------ MODULE MCClients ------------------------------
(* The clients of the debug modules: a behaviour is one of a host that     *)
(* accesses memory (Mam), or of two hosts that work on registers           *)
(* (RegClients). The memory has 16 bytes and is accessed in all lengths    *)
(* and alignments and with three images: one whose second segment follows  *)
(* the zeroes of the first, one whose segments overlap and an empty one.   *)
(* The device with the registers has two subnets: SCM, memory and core     *)
(* debug module in subnet 0, SCM and memory in subnet 1.                   *)
EXTENDS Mam, RegClients

AllAccesses ==
    {x \in [addr : 0 .. 3, nbyte : {1, 2, 3, 4, 5, 7, 13}] :
        x.addr + x.nbyte <= MEM_SIZE}

Segment(addr, file, memsz, v) ==
    [p_paddr |-> addr, p_filesz |-> file, p_memsz |-> memsz,
     data |-> [i \in 1 .. file |-> v + i]]

ThreeImages ==
    {<<>>,
     <<Segment(2, 6, 8, 100), Segment(10, 4, 6, 120)>>,
     <<Segment(0, 8, 8, 100), Segment(4, 4, 4, 120)>>}

Base(type) ==
    (<<"VENDOR", 0>> :> VENDOR_OSD) @@ (<<"TYPE", 0>> :> type)
    @@ (<<"VERSION", 0>> :> 0) @@ (<<"CS", 0>> :> 14)

ScmRegs(n) ==
    (<<"NUM_MOD", 0>> :> n) @@ (<<"SYSRST", 0>> :> 1) @@ (<<"VENDOR_ID", 0>> :> 3)
    @@ (<<"DEVICE_ID", 0>> :> 4) @@ (<<"MAX_PKT_LEN", 0>> :> 8)

MamRegs ==
    (<<"AW", 0>> :> 2) @@ (<<"DW", 0>> :> 2) @@ (<<"REGIONS", 0>> :> 1)
    @@ (<<"BASEADDR", 0>> :> 3) @@ (<<"BASEADDR", 1>> :> 1)
    @@ (<<"MEMSIZE", 0>> :> 0) @@ (<<"MEMSIZE", 1>> :> 2)

CdmRegs ==
    (<<"CORE_CTRL", 0>> :> 0) @@ (<<"CORE_REG_UPPER", 0>> :> 0)
    @@ (<<"CORE_DATA_WIDTH", 0>> :> 8)

TwoSubnets ==
    (0 :> (Base(Types.SCM) @@ ScmRegs(3))) @@ (1 :> (Base(Types.MAM) @@ MamRegs))
    @@ (2 :> (Base(Types.CDM) @@ CdmRegs))
    @@ (4 :> (Base(Types.SCM) @@ ScmRegs(2))) @@ (5 :> (Base(Types.MAM) @@ MamRegs))

TwoMemories ==
    [a \in {1, 5} |-> <<[baseaddr |-> 3 + WORD, memsize |-> 2 * WORD]>>]

VARIABLE part    \* what the behaviour is about

allVars == <<part, vars, regVars>>

ClientsInit == part \in {"memory", "registers"} /\ Init /\ RegInit

ClientsNext ==
    /\ UNCHANGED part
    /\ \/ part = "memory" /\ Next /\ UNCHANGED regVars
       \/ part = "registers" /\ RegNext /\ UNCHANGED vars

ClientsSpec ==
    /\ ClientsInit /\ [][ClientsNext]_allVars
    /\ WF_allVars(part = "memory" /\ ClientStep /\ UNCHANGED <<part, regVars>>)
    /\ WF_allVars(part = "memory" /\ MamReceives /\ UNCHANGED <<part, regVars>>)
=============================================================================
