----------------------------- MODULE ConsoleInfo -----------------------------
(***************************************************************************)
(* The console registry (src/GDB/console_info.h): the memory regions each  *)
(* console exposes, in table order, as [type, shortName] records.  A       *)
(* MemoryType is its enumerator's name; the display names are left out    *)
(* (only messages print them).                                             *)
(***************************************************************************)
EXTENDS Naturals, Sequences

ConsoleTypes == {"Nes", "Snes", "Gameboy", "Gba", "PcEngine", "Sms", "Ws"}

Region(type, shortName) == [type |-> type, shortName |-> shortName]

\* Mutant: the Game Boy's cart RAM listed under the work RAM's alias.
GetMemoryRegionsDup(console) ==
  CASE console = "Gameboy" ->
         << Region("GbWorkRam", "wram"), Region("GbVideoRam", "vram"),
            Region("GbCartRam", "wram"), Region("GbHighRam", "hram"),
            Region("GbSpriteRam", "oam"), Region("GbPrgRom", "rom") >>
    [] OTHER -> << >>

\* GetMemoryRegions: the table of each console; any other console has none.
GetMemoryRegions(console) ==
  CASE console = "Nes" ->
         << Region("NesInternalRam", "ram"), Region("NesPrgRom", "rom"),
            Region("NesSaveRam", "sram"), Region("NesWorkRam", "wram"),
            Region("NesChrRam", "chr"), Region("NesChrRom", "chrrom"),
            Region("NesSpriteRam", "oam"), Region("NesPaletteRam", "pal"),
            Region("NesNametableRam", "nt") >>
    [] console = "Snes" ->
         << Region("SnesWorkRam", "wram"), Region("SnesVideoRam", "vram"),
            Region("SnesCgRam", "cgram"), Region("SnesSpriteRam", "oam"),
            Region("SnesPrgRom", "rom"), Region("SnesSaveRam", "sram") >>
    [] console = "Gameboy" ->
         << Region("GbWorkRam", "wram"), Region("GbVideoRam", "vram"),
            Region("GbCartRam", "cartram"), Region("GbHighRam", "hram"),
            Region("GbSpriteRam", "oam"), Region("GbPrgRom", "rom") >>
    [] console = "Gba" ->
         << Region("GbaIntWorkRam", "iwram"), Region("GbaExtWorkRam", "ewram"),
            Region("GbaVideoRam", "vram"), Region("GbaSpriteRam", "oam"),
            Region("GbaPaletteRam", "pal"), Region("GbaPrgRom", "rom"),
            Region("GbaSaveRam", "sram") >>
    [] console = "PcEngine" ->
         << Region("PceWorkRam", "wram"), Region("PceVideoRam", "vram"),
            Region("PcePaletteRam", "pal"), Region("PceSpriteRam", "oam"),
            Region("PcePrgRom", "rom"), Region("PceSaveRam", "sram"),
            Region("PceCdromRam", "cdram"), Region("PceAdpcmRam", "adpcm") >>
    [] console = "Sms" ->
         << Region("SmsWorkRam", "wram"), Region("SmsVideoRam", "vram"),
            Region("SmsPaletteRam", "pal"), Region("SmsPrgRom", "rom"),
            Region("SmsCartRam", "cartram") >>
    [] console = "Ws" ->
         << Region("WsWorkRam", "wram"), Region("WsPrgRom", "rom"),
            Region("WsCartRam", "cartram"), Region("WsBootRom", "bootrom"),
            Region("WsInternalEeprom", "eeprom") >>
    [] OTHER -> << >>

\* The aliases of a console, in table order (what "info regions", "help"
\* and the dump error list).
Aliases(console) ==
  [i \in DOMAIN GetMemoryRegions(console) |-> GetMemoryRegions(console)[i].shortName]

\* The loops "for(auto& r : regions) if(name == r.shortName) ... break":
\* the first region listed under the name, if any.
HasAlias(console, name) == \E i \in DOMAIN GetMemoryRegions(console) : Aliases(console)[i] = name
FirstRegion(console, name) ==
  LET rs == GetMemoryRegions(console)
  IN rs[CHOOSE i \in DOMAIN rs : rs[i].shortName = name
                                 /\ \A j \in 1..i - 1 : rs[j].shortName # name]

=============================================================================
