------------------------------- MODULE Memory -------------------------------
(***************************************************************************)
(* The memory device (src/src/hw/memory.cpp): which 16K page each of the   *)
(* four slots of the CPU's address space reads and writes.  mem_read works *)
(* it out from the registers on every access; the fast tier reads through  *)
(* four cached pointers that are rebuilt when a register has changed.      *)
(***************************************************************************)
EXTENDS Naturals

CONSTANTS
  RamConfigs,    \* the low three bits of the RAM configurations a guest writes
  RamBanks,      \* the 64K banks it names, and
  RamExts,       \*   the extension it takes from the port address
  RomSelects,    \* the upper ROM numbers it selects
  CartLowers,    \* the cartridge banks a RMR2 write names
  CartSizes,     \* the sizes of cartridge images in 16K banks, 0 for too small
  ExpansionLens, \* the sizes of RAM expansions in 64K, 0 for none
  SavedRegs      \* register files found in snapshots

ASSUME MemAssumption ==
  /\ RamConfigs \subseteq 0..7 /\ RamBanks \subseteq 0..7 /\ RamExts \subseteq 0..7
  /\ RomSelects \subseteq 0..255 /\ CartLowers \subseteq 0..7
  /\ CartSizes \subseteq Nat /\ ExpansionLens \subseteq Nat

Regs ==
  [lower_off : BOOLEAN, upper_off : BOOLEAN, ram_config : 0..7, bank : 0..7,
   ram_ext : 0..7, rom_select : 0..255, cart_lower : 0..7, cart_lower_slot : 0..2,
   cart_upper : 0..31]

ASSUME SavedAssumption == SavedRegs \subseteq Regs

VARIABLES
  mem,        \* the registers
  cart_banks, \* banks of the cartridge, 0 without one
  expansion,  \* 64K banks of expansion RAM
  roms,       \* the upper ROMs attached
  unlocked,   \* whether the ASIC is unlocked
  cache       \* rd_bank and wr_bank of each slot, or Dirty

memVars == <<mem, cart_banks, expansion, roms, unlocked, cache>>

Slots == 0..3
Dirty == [dirty |-> TRUE]

-----------------------------------------------------------------------------
(* The pages. *)
Ram(p) == <<"ram", 0, p>>
Expanded(b, p) == <<"expansion", b, p>>
Cart(b) == <<"cart", b, 0>>
LowerRom == <<"lower", 0, 0>>
UpperRom(n) == <<"upper", n, 0>>
NoRom == 256                       \* the built-in upper ROM

kBankTable ==
  [c \in 0..7 |->
     CASE c = 0 -> <<0, 1, 2, 3>> [] c = 1 -> <<0, 1, 2, 7>>
       [] c = 2 -> <<4, 5, 6, 7>> [] c = 3 -> <<0, 3, 2, 7>>
       [] OTHER -> <<0, c, 2, 3>>]

(* Mutant: a bank the expansion does not have is not caught. *)
banked_ptr_beyond(slot) ==
  LET cfg == IF expansion # 0 THEN mem.ram_config ELSE 0
      page == kBankTable[cfg][slot + 1]
      named == IF expansion > 8 THEN mem.bank + 8 * mem.ram_ext ELSE mem.bank
  IN  IF page < 4 THEN Ram(page) ELSE Expanded(named, page - 4)

banked_ptr(slot) ==
  LET cfg == IF expansion # 0 THEN mem.ram_config ELSE 0
      page == kBankTable[cfg][slot + 1]
      named == IF expansion > 8 THEN mem.bank + 8 * mem.ram_ext ELSE mem.bank
      bank == IF named + 1 > expansion THEN 0 ELSE named
  IN  IF page < 4 THEN Ram(page) ELSE Expanded(bank, page - 4)

CartBank(b) == Cart(IF b < cart_banks THEN b ELSE 0)

(* roms[rom_select], the built-in ROM where none is attached. *)
Upper ==
  IF cart_banks # 0 THEN CartBank(mem.cart_upper)
  ELSE UpperRom(IF mem.rom_select \in roms THEN mem.rom_select ELSE NoRom)

Lower == IF cart_banks # 0 THEN CartBank(mem.cart_lower) ELSE LowerRom

lower_rom_serves(slot) ==
  ~mem.lower_off /\ slot = IF cart_banks # 0 THEN mem.cart_lower_slot ELSE 0

(* What a read of a slot returns, worked out from the registers. *)
mem_read(slot) ==
  IF lower_rom_serves(slot) THEN Lower
  ELSE IF slot = 3 /\ ~mem.upper_off THEN Upper
  ELSE banked_ptr(slot)

(* The pointers the fast tier keeps: RAM everywhere, then the ROMs over it. *)
fast_rebuild ==
  LET ram == [s \in Slots |-> banked_ptr(s)]
      low == IF mem.lower_off THEN ram
             ELSE [ram EXCEPT ![IF cart_banks # 0 THEN mem.cart_lower_slot ELSE 0] = Lower]
  IN  [rd |-> IF mem.upper_off THEN low ELSE [low EXCEPT ![3] = Upper],
       wr |-> ram]

-----------------------------------------------------------------------------
(* Writes to the memory ports.  With a cartridge and an unlocked ASIC the   *)
(* RMR2 value of the ROM configuration port moves the lower cartridge page. *)
rom_config(lower_off, upper_off) ==
  /\ mem' = [mem EXCEPT !.lower_off = lower_off, !.upper_off = upper_off]
  /\ cache' = Dirty
  /\ UNCHANGED <<cart_banks, expansion, roms, unlocked>>

RMR2(b, membank) ==
  /\ cart_banks # 0 /\ unlocked
  /\ mem' = [mem EXCEPT !.cart_lower = b,
                        !.cart_lower_slot = IF membank = 3 THEN 0 ELSE membank]
  /\ cache' = Dirty
  /\ UNCHANGED <<cart_banks, expansion, roms, unlocked>>

(* Mutant: the write does not reach the cache. *)
ram_config_stale(c, b, e) ==
  /\ mem' = [mem EXCEPT !.ram_config = c, !.bank = b, !.ram_ext = e]
  /\ UNCHANGED <<cart_banks, expansion, roms, unlocked, cache>>

ram_config(c, b, e) ==
  /\ mem' = [mem EXCEPT !.ram_config = c, !.bank = b, !.ram_ext = e]
  /\ cache' = Dirty
  /\ UNCHANGED <<cart_banks, expansion, roms, unlocked>>

plus_upper_page(sel) == IF sel = 7 THEN 3 ELSE IF sel >= 128 THEN sel % 32 ELSE 1

rom_select(n) ==
  /\ mem' = [mem EXCEPT !.rom_select = n,
                        !.cart_upper = IF cart_banks # 0 THEN plus_upper_page(n) ELSE @]
  /\ cache' = Dirty
  /\ UNCHANGED <<cart_banks, expansion, roms, unlocked>>

(* fast_read and fast_write rebuild first. *)
fast_access ==
  /\ cache' = IF cache = Dirty THEN fast_rebuild ELSE cache
  /\ UNCHANGED <<mem, cart_banks, expansion, roms, unlocked>>

-----------------------------------------------------------------------------
(* What the host attaches. *)
ResetRegs ==
  [lower_off |-> FALSE, upper_off |-> FALSE, ram_config |-> 0, bank |-> 0, ram_ext |-> 0,
   rom_select |-> 0, cart_lower |-> 0, cart_lower_slot |-> 0, cart_upper |-> 1]

mem_reset ==
  /\ mem' = ResetRegs
  /\ cache' = Dirty
  /\ UNCHANGED <<cart_banks, expansion, roms, unlocked>>

mem_attach_rom(n) ==
  /\ roms' \in {roms \cup {n}, roms \ {n}}
  /\ cache' = Dirty
  /\ UNCHANGED <<mem, cart_banks, expansion, unlocked>>

mem_attach_expansion(len) ==
  /\ expansion' = len
  /\ cache' = Dirty
  /\ UNCHANGED <<mem, cart_banks, roms, unlocked>>

mem_load_cartridge(banks) ==
  /\ cart_banks' = banks
  /\ mem' = [mem EXCEPT !.cart_lower = 0, !.cart_upper = 1]
  /\ cache' = Dirty
  /\ UNCHANGED <<expansion, roms, unlocked>>

(* A snapshot brings the registers; the attached media stay. *)
mem_load(r) ==
  /\ mem' = r
  /\ cache' = Dirty
  /\ UNCHANGED <<cart_banks, expansion, roms, unlocked>>

(* The knock sequence, read by the decode of RMR2 at the moment it writes. *)
asic_unlocked ==
  /\ unlocked' \in BOOLEAN
  /\ UNCHANGED <<mem, cart_banks, expansion, roms, cache>>

MemInit ==
  /\ mem = ResetRegs
  /\ cart_banks = 0 /\ expansion = 0 /\ roms = {} /\ unlocked = FALSE
  /\ cache = Dirty

MemNext ==
  \/ \E lo, up \in BOOLEAN : rom_config(lo, up)
  \/ \E b \in CartLowers, m \in 0..3 : RMR2(b, m)
  \/ \E c \in RamConfigs, b \in RamBanks, e \in RamExts : ram_config(c, b, e)
  \/ \E n \in RomSelects : rom_select(n) \/ mem_attach_rom(n)
  \/ \E len \in ExpansionLens : mem_attach_expansion(len)
  \/ \E banks \in CartSizes : mem_load_cartridge(banks)
  \/ \E r \in SavedRegs : mem_load(r)
  \/ fast_access \/ mem_reset \/ asic_unlocked

MemSpec == MemInit /\ [][MemNext]_memVars

-----------------------------------------------------------------------------
MemTypeOK ==
  /\ mem \in Regs
  /\ cart_banks \in Nat /\ expansion \in Nat
  /\ roms \subseteq RomSelects /\ unlocked \in BOOLEAN

(* The cached pointers are never stale: whenever the fast tier may use      *)
(* them, each slot reads the page mem_read finds and writes the RAM behind  *)
(* it, whatever was written, attached, reset or restored since the rebuild. *)
CacheCoherent ==
  cache # Dirty => \A s \in Slots : cache.rd[s] = mem_read(s) /\ cache.wr[s] = banked_ptr(s)

(* Every page the CPU reaches exists: no bank beyond the expansion fitted   *)
(* and no bank beyond the cartridge (the fall-backs of banked_ptr and       *)
(* mem_read), whatever size was attached after the registers were written.  *)
PagesExist ==
  \A s \in Slots :
    /\ banked_ptr(s)[1] = "expansion" => banked_ptr(s)[2] < expansion
    /\ mem_read(s)[1] = "cart" => mem_read(s)[2] < cart_banks
=============================================================================
