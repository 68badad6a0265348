----------------------------- MODULE MenuProofs -----------------------------
(***************************************************************************)
(* Proofs about Menu: for every set of images and configurations, and for  *)
(* as many edits and faults as one likes, the core has the settings, the   *)
(* question about the memory is put, the units are open on what config     *)
(* names, and disks and images go where the file selector was asked for.   *)
(*                                                                         *)
(* HandleUI looks at the keys up and down first and may thereby execute    *)
(* the page in parentstate, which any page may have left there, instead of *)
(* the one in menustate.  So what a page may rely on is stated once as     *)
(* Found(s, row) of a state s and a row, shown for menustate to be         *)
(* invariant, and for parentstate to follow.                               *)
(***************************************************************************)
EXTENDS Menu, TLAPS

\* The states that draw a page, and so may be left in parentstate.
Drawn == {"NONE1", "MAIN1", "FLOPPY1", "MAIN2_1", "MISC1", "ABOUT1", "SUPPORTERS1", "LOADCONFIG_1",
          "CONFIRM1", "SAVECONFIG_1", "CHIPSET1", "MEMORY1", "MEMORY_CHANGED1", "HARDFILE1",
          "HARDFILE_CHANGED1", "SYNTHRDB1", "SYNTHRDB2_1", "VIDEO1", "VIDEO3", "HDMI1", "AUDIO1",
          "ROMFILE_SELECTED1", "ERROR"}

\* Where the Memory page is left to.
Exits == {"NONE1", "MAIN2_1", "AUDIO1", "CHIPSET1"}

\* The types of the settings, of the copies and of the machine.
SettingsOK == config \in Config /\ saved \in [0..4 -> Config \cup {None}] /\ untold \subseteq Fields
UnitsOK == /\ t_hardfile \in [Units -> Hardfile] /\ t_enable_ide \in BOOLEAN
           /\ file \in Files \cup {None}
           /\ hdf \in [Units -> [enabled : Nat, name : Names]]
PagesOK == /\ t_memory \in {0, 1, None} /\ t_memory_next[1] \in Exits
           /\ cpu \in {"held", "runs"} /\ parentstate \in Drawn
TypeOK == SettingsOK /\ UnitsOK /\ PagesOK

\* A boot that got past the card has told the core, whether or not it found a
\* Kickstart.
Told == ~NoCard => untold \subseteq LeftOut

\* The memory the Memory page compares with was agreed; before it has a copy,
\* the present memory is.
CopyAgreed == Snapshot \in agreed

\* Only the pages of the memory's area can be left in parentstate while the
\* memory is not agreed, and those of a new Kickstart only with a card.
RomPages == {"ROMFILE_SELECTED", "ROMFILE_SELECTED1", "ROMFILE_SELECTED2"}
LeftBehind == /\ config.memory \in agreed \/ parentstate \in {"MEMORY1", "ROMFILE_SELECTED1"}
              /\ parentstate \in RomPages => ~NoCard

\* What a page finds in state s with the cursor on row.
AskedAt(s) == \/ s \in MemoryArea \/ config.memory \in agreed
              \/ s \in {"FILE_SELECT1", "FILE_SELECT2"} /\ fs.cancel = "MEMORY1"
CardAt(s) == s \in RomPages => ~NoCard
DrawnAt(s) == /\ s = "MEMORY2" => parentstate = "MEMORY1" /\ t_memory # None
              /\ s = "CONFIRM2" => parentstate = "CONFIRM1"
              /\ s = "ERROR2" => parentstate = "ERROR"
              /\ s = "NONE2" => t_memory = None
SelectorAt(s, row) ==
    /\ s \in {"FILE_SELECT1", "FILE_SELECT2"} =>
        /\ row = asked
        /\ \/ fs.select = "FILE_SELECTED" /\ fs.cancel = "MAIN1"
           \/ fs.select = "HARDFILE_SELECTED" /\ fs.cancel = "HARDFILE1"
           \/ fs.select = "ROMFILE_SELECTED" /\ fs.cancel = "MEMORY1"
    /\ s \in {"FILE_SELECTED", "HARDFILE_SELECTED"} => row = asked /\ menumask = {}
Found(s, row) == AskedAt(s) /\ CardAt(s) /\ DrawnAt(s) /\ SelectorAt(s, row)

\* Nothing has happened before the first boot.
Booting == pc = "boot" => menustate = "NONE1" /\ parentstate = "NONE1" /\ t_memory = None

Kept == TypeOK /\ Told /\ CopyAgreed /\ LeftBehind /\ HardfileInUse
IInv == Kept /\ Found(menustate, menusub) /\ Booting

-----------------------------------------------------------------------------
LEMMA FoundThere ==
  ASSUME Kept, Found(menustate, menusub), NEW e
  PROVE  LET n == Navigate(menustate, e) IN Found(n.state, n.row)
  BY DEF Kept, TypeOK, PagesOK, LeftBehind, Found, Navigate, AskedAt, CardAt, DrawnAt, SelectorAt,
         Drawn, MemoryArea, RomPages

\* A step that changes at most settings the properties do not look at, and hands
\* them over, but for what is left out, keeps what is kept.
LEMMA SettingKeeps ==
  ASSUME Kept, Agree, menustate' = "NONE2" => t_memory = None,
         config' \in Config, config'.hardfile = config.hardfile, config'.memory = config.memory,
         untold' \subseteq untold \cup (LeftOut \cap Fields), file' \in Files \cup {None},
         "rom" \in ErrorMask' <=> "rom" \in ErrorMask,
         UNCHANGED <<temps, hdf, saved, cpu, parentstate>>
  PROVE  Kept'
  <1> USE DEF Kept, temps
  <1>1. SettingsOK'
    BY DEF TypeOK, SettingsOK
  <1>2. UnitsOK' /\ PagesOK'
    BY DEF TypeOK, UnitsOK, PagesOK
  <1>3. Told' /\ NoCard' = NoCard
    BY DEF Told, NoCard
  <1>4. CopyAgreed' /\ LeftBehind'
    BY <1>3 DEF CopyAgreed, Snapshot, LeftBehind, Agree
  <1>5. HardfileInUse'
    BY <1>3 DEF HardfileInUse
  <1> QED
    BY <1>1, <1>2, <1>3, <1>4, <1>5 DEF TypeOK

LEMMA QuietKeeps ==
  ASSUME Kept, Agree, menustate' = "NONE2" => t_memory = None,
         Quiet, UNCHANGED parentstate
  PROVE  Kept'
  BY SettingKeeps DEF Quiet, settings, picks, machine, errors, Kept, TypeOK, SettingsOK, UnitsOK

\* States that a page may lead to without knowing more than that the memory is agreed.
Plain == {"NONE1", "MAIN1", "MAIN2", "FLOPPY1", "FLOPPY2", "MAIN2_1", "MAIN2_2", "MISC1", "MISC2",
          "ABOUT1", "ABOUT2", "SUPPORTERS1", "SUPPORTERS2", "LOADCONFIG_1", "LOADCONFIG_2", "CONFIRM1",
          "SAVECONFIG_1", "SAVECONFIG_2", "CHIPSET1", "CHIPSET2", "MEMORY_CHANGED1", "MEMORY_CHANGED2",
          "HARDFILE1", "HARDFILE2", "HARDFILE_EXIT", "HARDFILE_CHANGED1", "HARDFILE_CHANGED2",
          "SYNTHRDB1", "SYNTHRDB2_1", "SYNTHRDB2", "VIDEO1", "VIDEO2", "VIDEO3", "VIDEO4", "HDMI1", "HDMI2",
          "AUDIO1", "AUDIO2", "ERROR", "INFO"}

LEMMA PlainFound ==
  ASSUME Agree, menustate' \in Plain,
         \/ config'.memory \in agreed
         \/ menustate' \in {"NONE1", "MEMORY_CHANGED1", "MAIN1"}
  PROVE  Found(menustate, menusub)'
  <1>1. AskedAt(menustate)'
    BY DEF AskedAt, Agree, Plain
  <1>2. CardAt(menustate)' /\ DrawnAt(menustate)' /\ SelectorAt(menustate, menusub)'
    BY DEF CardAt, DrawnAt, SelectorAt, Plain, RomPages
  <1> QED
    BY <1>1, <1>2 DEF Found

\* From a plain page on, the memory is agreed.
LEMMA PlainAgreed ==
  ASSUME NEW s, NEW sub, Found(s, sub), s \in Plain
  PROVE  config.memory \in agreed
  BY DEF Found, AskedAt, Plain, MemoryArea

\* A page that is drawn.
Waits == {"MAIN2", "FLOPPY2", "MAIN2_2", "MISC2", "ABOUT2", "SUPPORTERS2", "LOADCONFIG_2", "CONFIRM2",
          "SAVECONFIG_2", "CHIPSET2", "MEMORY_CHANGED2", "HARDFILE2", "HARDFILE_CHANGED2", "SYNTHRDB2",
          "VIDEO2", "VIDEO4", "HDMI2", "AUDIO2", "ROMFILE_SELECTED2", "ERROR2"}
LEMMA DrawKeeps ==
  ASSUME NEW state \in Drawn, NEW row, NEW rows, NEW next \in Waits, Kept, Agree,
         AskedAt(state), CardAt(state), Draw(state, row, rows, next),
         UNCHANGED t_memory, "rom" \in ErrorMask' <=> "rom" \in ErrorMask,
         next = "CONFIRM2" => state = "CONFIRM1", next = "ERROR2" => state = "ERROR",
         next = "ROMFILE_SELECTED2" <=> state = "ROMFILE_SELECTED1", state # "MEMORY1"
  PROVE  (Kept /\ Found(menustate, menusub))'
  <1> USE DEF Draw
  <1>1. /\ menustate' = next /\ parentstate' = state /\ UNCHANGED <<settings, hdf, saved, cpu>>
        /\ t_hardfile' \in {t_hardfile, Default.hardfile} /\ t_enable_ide' \in {t_enable_ide, FALSE}
        /\ t_memory_next' \in {t_memory_next, <<"NONE1", 0>>} /\ file' = None
    BY DEF ForgetPages, ForgetUnless
  <1>2. SettingsOK'
    BY <1>1 DEF Kept, TypeOK, SettingsOK, settings
  <1>3. Default.hardfile \in [Units -> Hardfile]
    BY DEF Default, Hardfile, Names, HDF_FILE, HDF_CARD
  <1>4. UnitsOK'
    BY <1>1, <1>3 DEF Kept, TypeOK, UnitsOK
  <1>5. PagesOK'
    BY <1>1 DEF Kept, TypeOK, PagesOK, Exits
  <1>6. NoCard' = NoCard
    BY <1>1 DEF NoCard
  <1>7. Told' /\ HardfileInUse'
    BY <1>1, <1>6 DEF Kept, Told, HardfileInUse, settings
  <1>8. next # "NONE2" /\ config' = config
    BY <1>1 DEF Waits, settings
  <1>9. CopyAgreed'
    BY <1>1, <1>8 DEF Kept, CopyAgreed, Snapshot, Agree
  <1>10. config.memory \in agreed => config.memory \in agreed'
    BY <1>1, <1>8 DEF Agree
  <1>11. config.memory \in agreed \/ state = "ROMFILE_SELECTED1"
    BY DEF AskedAt, MemoryArea, Drawn
  <1>12. LeftBehind'
    BY <1>1, <1>6, <1>8, <1>10, <1>11 DEF LeftBehind, CardAt
  <1>13. AskedAt(menustate)' /\ CardAt(menustate)'
    BY <1>1, <1>6, <1>8, <1>10, <1>11 DEF AskedAt, CardAt, MemoryArea, RomPages, Waits
  <1>14. DrawnAt(menustate)' /\ SelectorAt(menustate, menusub)'
    BY <1>1 DEF DrawnAt, SelectorAt, Waits
  <1> QED
    BY <1>2, <1>4, <1>5, <1>7, <1>9, <1>12, <1>13, <1>14 DEF Kept, TypeOK, Found

\* The same, of a page that looks at nothing else.
LEMMA DrawPageKeeps ==
  ASSUME NEW state \in Drawn, NEW row, NEW rows, NEW next \in Waits, NEW sub, Kept, Agree,
         Found(state, sub), DrawPage(state, row, rows, next),
         next = "CONFIRM2" => state = "CONFIRM1", next = "ERROR2" => state = "ERROR",
         next = "ROMFILE_SELECTED2" <=> state = "ROMFILE_SELECTED1", state # "MEMORY1"
  PROVE  (Kept /\ Found(menustate, menusub))'
  BY DrawKeeps DEF DrawPage, Found, errors

\* A key that leads from a plain page to another, or to nothing at all, and one
\* that changes settings on the way.
LEMMA WalkKeeps ==
  ASSUME NEW s \in Plain, NEW sub, Kept, Agree, Found(s, sub), menustate' \in Plain,
         Quiet, UNCHANGED parentstate
  PROVE  (Kept /\ Found(menustate, menusub))'
  <1>1. Kept'
    BY QuietKeeps DEF Plain
  <1>2. config.memory \in agreed /\ config' = config
    BY PlainAgreed DEF Quiet, settings
  <1> QED
    BY <1>1, <1>2, PlainFound

LEMMA TellKeeps ==
  ASSUME NEW s \in Plain, NEW sub, Kept, Agree, Found(s, sub), menustate' \in Plain,
         config' \in Config, config'.hardfile = config.hardfile, config'.memory = config.memory,
         untold' \subseteq untold \cup (LeftOut \cap Fields), file' \in Files \cup {None},
         "rom" \in ErrorMask' <=> "rom" \in ErrorMask,
         UNCHANGED <<temps, hdf, saved, cpu, parentstate>>
  PROVE  (Kept /\ Found(menustate, menusub))'
  <1>1. Kept'
    BY SettingKeeps DEF Plain
  <1> QED
    BY <1>1, PlainAgreed, PlainFound

\* A call that hands over what was written leaves nothing more untold, but
\* for what is left out.
LEMMA SetTells ==
  ASSUME NEW fields, NEW call, fields \subseteq Tells[call] \cup LeftOut, Set(fields, call)
  PROVE  untold' \subseteq untold \cup (LeftOut \cap Fields)
  BY DEF Set

\* What each call hands over, spelled out.
LEMMA CallsTell ==
  /\ Tells["ConfigCPU"] = {"cpu"} /\ Tells["ConfigMemory"] = {"memory"}
  /\ Tells["ConfigChipset"] = {"chipset"} /\ Tells["ConfigFloppy"] = {"drives", "speed"}
  /\ Tells["ConfigVideo"] = {"filter", "scanlines"} /\ Tells["ConfigVideoPos"] = {"videopos"}
  /\ Tells["adv7511_set_clkdelay"] = {"hdmi_clkdelay"} /\ Tells["ConfigMisc"] = {"misc"}
  /\ Tells["ConfigAutofire"] = {"autofire"} /\ Tells["ConfigAudio"] = {"volume"}
  /\ Tells["ConfigIDE"] = {"enable_ide", "hardfile"}
  /\ Tells["drivesounds_enable"] = {"drivesounds"}
  BY DEF Tells

\* Rows whose call hands over the field they write, or one that is left out.
RowsTell(rows) == \A r \in DOMAIN rows : rows[r][1] \subseteq Tells[rows[r][2]] \cup LeftOut

LEMMA RingRowsTell ==
  /\ RowsTell(ChipsetRows) /\ RowsTell(VideoRows) /\ RowsTell(VideoPosRows)
  /\ RowsTell(HdmiRows) /\ RowsTell(AudioRows)
  <1>1. RowsTell(ChipsetRows)
    <2>1. ASSUME NEW r \in 0..4, r \in DOMAIN ChipsetRows
          PROVE  ChipsetRows[r][1] \subseteq Tells[ChipsetRows[r][2]]
      <3>1. CASE r \in {0, 1}
        <4>1. ChipsetRows[r] = <<{"cpu"}, "ConfigCPU">>
          BY <2>1, <3>1 DEF ChipsetRows
        <4> QED
          BY <4>1, CallsTell
      <3>2. CASE r \in {2, 3}
        <4>1. ChipsetRows[r] = <<{"chipset"}, "ConfigChipset">>
          BY <2>1, <3>2 DEF ChipsetRows
        <4> QED
          BY <4>1, CallsTell
      <3>3. CASE r = 4
        <4>1. ChipsetRows[r] = <<{"autofire"}, "ConfigAutofire">>
          BY <2>1, <3>3 DEF ChipsetRows
        <4> QED
          BY <4>1, CallsTell
      <3> QED
        BY <3>1, <3>2, <3>3
    <2>2. DOMAIN ChipsetRows \subseteq 0..4
      BY DEF ChipsetRows
    <2> QED
      BY <2>1, <2>2 DEF RowsTell
  <1>2. RowsTell(VideoRows)
    <2>1. ASSUME NEW r \in 0..3
          PROVE  VideoRows[r][1] \subseteq Tells[VideoRows[r][2]] \cup LeftOut
      <3>1. /\ r \in {0, 1} => VideoRows[r] = <<{"filter"}, "ConfigVideo">>
            /\ r = 2 => VideoRows[r] = <<{"scanlines"}, "ConfigVideo">>
            /\ r = 3 => VideoRows[r] = <<{"laced"}, "ConfigVideo">>
        BY DEF VideoRows
      <3> QED
        BY <3>1, CallsTell DEF LeftOut
    <2> QED
      BY <2>1 DEF RowsTell, VideoRows
  <1>3. RowsTell(VideoPosRows)
    BY CallsTell DEF RowsTell, VideoPosRows
  <1>4. RowsTell(HdmiRows)
    BY CallsTell DEF RowsTell, HdmiRows
  <1>5. RowsTell(AudioRows)
    BY CallsTell DEF RowsTell, AudioRows
  <1> QED
    BY <1>1, <1>2, <1>3, <1>4, <1>5

\* A row or chord without a change to the settings decisions depend on.
LEMMA SetKeeps ==
  ASSUME NEW s \in Plain, NEW sub, NEW fields, NEW call, Kept, Agree, Found(s, sub),
         menustate' \in Plain, fields \subseteq Tells[call] \cup LeftOut, Set(fields, call),
         UNCHANGED <<config, temps, picks, machine, parentstate>>
  PROVE  (Kept /\ Found(menustate, menusub))'
  BY SetTells, TellKeeps DEF picks, machine, errors, Kept, TypeOK, SettingsOK, UnitsOK

\* Reading the card has nothing to say about the Kickstart.
LEMMA ReadKeepsRom ==
  ASSUME ReadCard
  PROVE  "rom" \in ErrorMask' <=> "rom" \in ErrorMask
  BY DEF ReadCard, errors

-----------------------------------------------------------------------------
\* The pages, one by one.
LEMMA NoMenuKeeps ==
  ASSUME NEW s, NEW sub, NEW e, Kept, Found(s, sub), NoMenu(s, sub, e), Agree
  PROVE  (Kept /\ Found(menustate, menusub))'
  <1> USE DEF NoMenu, settings, machine, errors
  <1>1. CASE s = "NONE1"
    <2>1. /\ menustate' = "NONE2" /\ parentstate' = "NONE1" /\ t_memory' = None /\ file' = None
          /\ t_hardfile' = Default.hardfile /\ t_enable_ide' = FALSE
          /\ t_memory_next' = <<"NONE1", 0>>
      BY <1>1 DEF Forget, ForgetPages, ForgetUnless
    <2>2. UNCHANGED <<config, untold, hdf, saved, cpu, ErrorMask>> /\ NoCard' = NoCard
      BY DEF NoCard
    <2>3. Default.hardfile \in [Units -> Hardfile]
      BY DEF Default, Hardfile, Names, HDF_FILE, HDF_CARD
    <2>4. TypeOK'
      BY <2>1, <2>2, <2>3 DEF Kept, TypeOK, SettingsOK, UnitsOK, PagesOK, Drawn, Exits
    <2>5. config.memory \in agreed'
      BY <2>1, <2>2 DEF Agree
    <2>6. Told' /\ CopyAgreed' /\ LeftBehind' /\ HardfileInUse'
      BY <2>1, <2>2, <2>5 DEF Kept, Told, CopyAgreed, Snapshot, LeftBehind, HardfileInUse, RomPages
    <2>7. Found(menustate, menusub)'
      BY <2>1, <2>2, <2>5 DEF Found, AskedAt, CardAt, DrawnAt, SelectorAt, RomPages
    <2> QED
      BY <2>4, <2>6, <2>7 DEF Kept
  <1>2. CASE s = "NONE2"
    <2>1. /\ menustate' \in {"MAIN1", "NONE2"} /\ UNCHANGED <<temps, picks, parentstate>>
      BY <1>2 DEF Goto, Stay
    <2>2. t_memory = None /\ config.memory \in agreed
      BY <1>2 DEF Found, DrawnAt, AskedAt, MemoryArea
    <2>3. Kept'
      BY <2>1, <2>2, SettingKeeps DEF picks, Kept, TypeOK, SettingsOK, UnitsOK
    <2>4. t_memory' = None /\ config.memory \in agreed' /\ config' = config
      BY <2>1, <2>2 DEF temps, Agree
    <2>5. Found(menustate, menusub)'
      BY <2>1, <2>4 DEF Found, AskedAt, CardAt, DrawnAt, SelectorAt, RomPages
    <2> QED
      BY <2>3, <2>5
  <1> QED
    BY <1>1, <1>2

LEMMA MainMenuKeeps ==
  ASSUME NEW s, NEW sub, NEW e, Kept, Found(s, sub), MainMenu(s, sub, e), Agree
  PROVE  (Kept /\ Found(menustate, menusub))'
  <1>1. CASE s = "MAIN1" /\ DrawPage(s, sub, MainRows, "MAIN2")
    BY <1>1, DrawPageKeeps DEF Drawn, Waits
  <1>2. CASE s = "MAIN2" /\ UNCHANGED parentstate /\ menustate' \in Plain /\ Quiet
    BY <1>2, WalkKeeps DEF Plain
  <1>3. CASE /\ s = "MAIN2" /\ Goto("MAIN1", sub)
             /\ \E n \in Nat : SetDrives(n)
             /\ UNCHANGED <<temps, picks, machine>>
    <2>1. PICK n \in Nat : config' = [config EXCEPT !.drives = n] /\ Set({"drives"}, "ConfigFloppy")
      BY <1>3 DEF SetDrives
    <2>2. /\ config' \in Config /\ config'.hardfile = config.hardfile
          /\ config'.memory = config.memory
      BY <2>1 DEF Kept, TypeOK, SettingsOK, Config
    <2>3. untold' \subseteq untold \cup (LeftOut \cap Fields) /\ file' \in Files \cup {None}
      BY <1>3, <2>1, SetTells, CallsTell DEF picks, Kept, TypeOK, UnitsOK
    <2>4. menustate' \in Plain /\ UNCHANGED <<hdf, saved, cpu, ErrorMask, parentstate>>
      BY <1>3 DEF Goto, Plain, machine, errors
    <2> QED
      BY <1>3, <2>2, <2>3, <2>4, TellKeeps DEF Plain
  <1>4. CASE /\ s = "MAIN2" /\ UNCHANGED <<settings, temps>>
             /\ \/ Goto("MAIN1", sub) /\ UNCHANGED <<picks, hdf, saved, cpu, errors>>
                \/ SelectFile(sub, "FILE_SELECTED", "MAIN1")
    <2>1. Kept'
      BY <1>4, SettingKeeps, ReadKeepsRom
         DEF Goto, SelectFile, settings, errors, picks, Kept, TypeOK, SettingsOK, UnitsOK
    <2>2. config.memory \in agreed /\ config' = config
      BY <1>4, PlainAgreed DEF Plain, settings
    <2>3. CASE menustate' = "MAIN1"
      BY <2>1, <2>2, <2>3, PlainFound DEF Plain
    <2>4. CASE SelectFile(sub, "FILE_SELECTED", "MAIN1")
      BY <2>1, <2>2, <2>4
         DEF SelectFile, Goto, Found, AskedAt, CardAt, DrawnAt, SelectorAt, RomPages, Agree
    <2> QED
      BY <1>4, <2>3, <2>4 DEF Goto
  <1>5. CASE /\ s = "MAIN2" /\ Goto("HARDFILE1", 0)
             /\ t_hardfile' = config.hardfile /\ t_enable_ide' = config.enable_ide
             /\ UNCHANGED <<settings, t_memory, t_memory_next, picks, machine>>
    <2>1. /\ UNCHANGED <<config, untold, hdf, saved, cpu, ErrorMask, parentstate, file>>
          /\ menustate' = "HARDFILE1" /\ NoCard' = NoCard
      BY <1>5 DEF settings, machine, errors, Goto, picks, NoCard
    <2>2. UnitsOK'
      BY <1>5, <2>1 DEF Kept, TypeOK, SettingsOK, UnitsOK, Config
    <2>3. SettingsOK' /\ PagesOK'
      BY <1>5, <2>1 DEF Kept, TypeOK, SettingsOK, PagesOK
    <2>4. agreed' = agreed
      BY <2>1 DEF Agree
    <2>5. Told' /\ CopyAgreed' /\ LeftBehind' /\ HardfileInUse'
      BY <1>5, <2>1, <2>4 DEF Kept, Told, CopyAgreed, Snapshot, LeftBehind, HardfileInUse
    <2>6. Found(menustate, menusub)'
      BY <1>5, <2>1, PlainAgreed, PlainFound DEF Plain
    <2> QED
      BY <2>2, <2>3, <2>5, <2>6 DEF Kept, TypeOK
  <1>6. CASE /\ s = "MAIN2" /\ Goto("MAIN1", sub)
             /\ UNCHANGED <<settings, temps, picks, drives, hdf, saved, cpu, errors>>
    BY <1>6, TellKeeps DEF Goto, Plain, settings, errors, picks, Kept, TypeOK, SettingsOK, UnitsOK
  <1> QED
    BY <1>1, <1>2, <1>3, <1>4, <1>5, <1>6
       DEF MainMenu, Goto, Plain, Kept, TypeOK, SettingsOK, Config, Stay

LEMMA FloppyMenuKeeps ==
  ASSUME NEW s, NEW sub, NEW e, Kept, Found(s, sub), FloppyMenu(s, sub, e), Agree
  PROVE  (Kept /\ Found(menustate, menusub))'
  <1>1. CASE s = "FLOPPY1" /\ DrawPage(s, sub, 0..3, "FLOPPY2")
    BY <1>1, DrawPageKeeps DEF Drawn, Waits
  <1>2. CASE s = "FLOPPY2" /\ UNCHANGED parentstate /\ menustate' \in Plain /\ Quiet
    BY <1>2, WalkKeeps DEF Plain
  <1>3. CASE /\ s = "FLOPPY2" /\ Goto("FLOPPY1", sub)
             /\ SetDrives((config.drives + 1) % (MAX_DRIVES + 1))
             /\ UNCHANGED <<temps, picks, machine>>
    <2>1. (config.drives + 1) % (MAX_DRIVES + 1) \in Nat
      BY MenuAssumption DEF Kept, TypeOK, SettingsOK, Config
    <2>2. PICK n \in Nat : config' = [config EXCEPT !.drives = n] /\ Set({"drives"}, "ConfigFloppy")
      BY <1>3, <2>1 DEF SetDrives
    <2>3. /\ config' \in Config /\ config'.hardfile = config.hardfile
          /\ config'.memory = config.memory
      BY <2>2 DEF Kept, TypeOK, SettingsOK, Config
    <2>4. untold' \subseteq untold \cup (LeftOut \cap Fields) /\ file' \in Files \cup {None}
      BY <1>3, <2>2, SetTells, CallsTell DEF picks, Kept, TypeOK, UnitsOK
    <2>5. menustate' \in Plain /\ UNCHANGED <<hdf, saved, cpu, ErrorMask, parentstate>>
      BY <1>3 DEF Goto, Plain, machine, errors
    <2> QED
      BY <1>3, <2>3, <2>4, <2>5, TellKeeps DEF Plain
  <1>4. CASE /\ s = "FLOPPY2" /\ Goto("FLOPPY1", sub)
             /\ Set({"speed"}, "ConfigFloppy") \/ Set({"drivesounds"}, "drivesounds_enable")
             /\ UNCHANGED <<config, temps, picks, machine>>
    <2>1. menustate' \in Plain /\ "FLOPPY2" \in Plain /\ UNCHANGED parentstate
      BY <1>4 DEF Goto, Plain
    <2>2. {"speed"} \subseteq Tells["ConfigFloppy"] /\ {"drivesounds"} \subseteq Tells["drivesounds_enable"]
      BY CallsTell
    <2> QED
      BY <1>4, <2>1, <2>2, SetKeeps
  <1> QED
    BY <1>1, <1>2, <1>3, <1>4 DEF FloppyMenu, Goto, Stay, Plain

LEMMA FileSelectedKeeps ==
  ASSUME NEW s, NEW sub, NEW e, Kept, Found(s, sub), FileSelected(s, sub, e), Agree
  PROVE  (Kept /\ Found(menustate, menusub))'
  <1> USE DEF FileSelected, Goto
  <1>1. Kept'
    BY SettingKeeps DEF settings, errors, Kept, TypeOK, SettingsOK
  <1> QED
    BY <1>1, PlainFound DEF Plain

LEMMA SettingsMenuKeeps ==
  ASSUME NEW s, NEW sub, NEW e, Kept, Found(s, sub), SettingsMenu(s, sub, e), Agree
  PROVE  (Kept /\ Found(menustate, menusub))'
  <1>1. CASE s = "MAIN2_1" /\ DrawPage(s, sub, 0..6, "MAIN2_2")
    BY <1>1, DrawPageKeeps DEF Drawn, Waits
  <1>2. CASE s = "MAIN2_2" /\ UNCHANGED parentstate /\ menustate' \in Plain /\ Quiet
    BY <1>2, WalkKeeps DEF Plain
  <1>3. CASE s = "MAIN2_2" /\ menustate' = "MEMORY1" /\ UNCHANGED parentstate /\ Quiet
    <2>1. Kept'
      BY <1>3, QuietKeeps
    <2>2. Found(menustate, menusub)'
      BY <1>3 DEF Found, AskedAt, CardAt, DrawnAt, SelectorAt, MemoryArea, RomPages
    <2> QED
      BY <2>1, <2>2
  <1> DEFINE to == <<"LOADCONFIG_1", "SAVECONFIG_1", "CHIPSET1", "MEMORY1", "VIDEO1", "AUDIO1">>
  <1>4. CASE s = "MAIN2_2" /\ sub \in 0..5 /\ Goto(to[sub + 1], 0) /\ Quiet
    <2>1. to[sub + 1] \in Plain \cup {"MEMORY1"}
      BY <1>4 DEF Plain
    <2> HIDE DEF to
    <2> QED
      BY <1>2, <1>3, <1>4, <2>1 DEF Goto
  <1> QED
    BY <1>1, <1>2, <1>3, <1>4 DEF SettingsMenu, Goto, Stay, Plain

LEMMA MiscMenuKeeps ==
  ASSUME NEW s, NEW sub, NEW e, Kept, Found(s, sub), MiscMenu(s, sub, e), Agree
  PROVE  (Kept /\ Found(menustate, menusub))'
  <1>1. CASE s = "MISC1" /\ DrawPage(s, sub, {0, 1, 3, 4, 5}, "MISC2")
    BY <1>1, DrawPageKeeps DEF Drawn, Waits
  <1>2. CASE s = "MISC2" /\ UNCHANGED parentstate /\ menustate' \in Plain /\ Quiet
    BY <1>2, WalkKeeps DEF Plain
  <1>3. CASE /\ s = "MISC2" /\ menustate' = "CONFIRM1"
             /\ UNCHANGED <<parentstate, settings, temps, file, machine>>
    BY <1>3, TellKeeps DEF Plain, settings, machine, errors, Kept, TypeOK, SettingsOK, UnitsOK
  <1> QED
    BY <1>1, <1>2, <1>3 DEF MiscMenu, Goto, Stay, Plain

LEMMA AboutPagesKeep ==
  ASSUME NEW s, NEW sub, NEW e, Kept, Found(s, sub), AboutPages(s, sub, e), Agree
  PROVE  (Kept /\ Found(menustate, menusub))'
  <1>1. CASE s = "ABOUT1" /\ DrawPage(s, sub, {0}, "ABOUT2")
    BY <1>1, DrawPageKeeps DEF Drawn, Waits
  <1>2. CASE s = "SUPPORTERS1" /\ DrawPage(s, sub, {0}, "SUPPORTERS2")
    BY <1>2, DrawPageKeeps DEF Drawn, Waits
  <1>3. CASE /\ s \in {"ABOUT2", "SUPPORTERS2"} /\ UNCHANGED parentstate
             /\ menustate' \in {"MISC1", s} /\ Quiet
    BY <1>3, WalkKeeps DEF Plain
  <1> QED
    BY <1>1, <1>2, <1>3 DEF AboutPages, Goto, Stay

LEMMA SmallPagesKeep ==
  ASSUME NEW s, NEW sub, NEW e, Kept, Found(s, sub), Agree,
         SynthRdb(s, sub, e) \/ HardfileExit(s, sub, e) \/ Info(s, sub, e)
  PROVE  (Kept /\ Found(menustate, menusub))'
  <1>1. CASE s \in {"SYNTHRDB1", "SYNTHRDB2_1"} /\ DrawPage(s, sub, {0}, "SYNTHRDB2")
    BY <1>1, DrawPageKeeps DEF Drawn, Waits
  <1>2. CASE /\ s \in {"SYNTHRDB2", "HARDFILE_EXIT", "INFO"} /\ UNCHANGED parentstate
             /\ menustate' \in {s, "HARDFILE1", "HARDFILE_CHANGED1", "MAIN1", "NONE1"} /\ Quiet
    BY <1>2, WalkKeeps DEF Plain
  <1> QED
    BY <1>1, <1>2 DEF SynthRdb, HardfileExit, Info, Goto, Stay

-----------------------------------------------------------------------------
\* Opening hardfiles, applying a configuration, booting.
LEMMA OpenHardfileKeeps ==
  ASSUME NEW c \in Config, NEW us, NEW card \in BOOLEAN, NEW missing, Kept,
         OpenHardfile(c, us, card, missing),
         card => \A u \in Units \ us : Present(c.hardfile[u]) => hdf[u] = Open(c.hardfile[u])
  PROVE  /\ config' \in Config /\ config'.memory = c.memory
         /\ hdf' \in [Units -> [enabled : Nat, name : Names]]
         /\ card => HardfileInUse'
  <1> DEFINE H(u) == IF u \in us THEN [c.hardfile[u] EXCEPT !.present = Opens(c.hardfile[u], card)]
                     ELSE c.hardfile[u]
             End(u) == IF u \in us THEN Opened(c.hardfile[u], hdf[u], card) ELSE {<<hdf[u], {}>>}
  <1>0. PICK ends : /\ \A u \in Units : ends[u] \in End(u)
                    /\ config' = [c EXCEPT !.hardfile = [u \in Units |-> H(u)]]
                    /\ hdf' = [u \in Units |-> ends[u][1]]
    BY DEF OpenHardfile
  <1>1. ASSUME NEW u \in Units
        PROVE  /\ c.hardfile[u] \in Hardfile /\ H(u) \in Hardfile
               /\ H(u).enabled = c.hardfile[u].enabled /\ H(u).name = c.hardfile[u].name
    <2>1. c.hardfile[u] \in Hardfile
      BY DEF Config
    <2>2. Opens(c.hardfile[u], card) \in BOOLEAN
      BY DEF Opens, Present
    <2> QED
      BY <2>1, <2>2 DEF Hardfile
  <1>2. config' = [c EXCEPT !.hardfile = [u \in Units |-> H(u)]]
    BY <1>0
  <1>3. [u \in Units |-> H(u)] \in [Units -> Hardfile]
    BY <1>1
  <1>4. config' \in Config /\ config'.memory = c.memory /\ config'.hardfile = [u \in Units |-> H(u)]
    <2> HIDE DEF H
    <2> QED
      BY <1>2, <1>3 DEF Config
  <1>5. ASSUME NEW u \in Units
        PROVE  /\ Present(config'.hardfile[u]) <=> Present(c.hardfile[u])
               /\ Open(config'.hardfile[u]) = Open(c.hardfile[u])
    <2>1. config'.hardfile[u] = H(u)
      BY <1>4
    <2> HIDE DEF H
    <2> QED
      BY <1>1, <2>1 DEF Present, Open, IsFile
  <1>6. ASSUME NEW u \in Units
        PROVE  /\ hdf'[u] \in [enabled : Nat, name : Names]
               /\ card /\ Present(c.hardfile[u]) => hdf'[u] = Open(c.hardfile[u])
    <2>1. hdf'[u] = ends[u][1] /\ ends[u] \in End(u)
      BY <1>0
    <2>2. hdf[u] \in [enabled : Nat, name : Names] /\ None \in Names
      BY DEF Kept, TypeOK, UnitsOK, Names
    <2>3. CASE u \notin us
      BY <2>1, <2>2, <2>3
    <2>4. CASE u \in us /\ Opens(c.hardfile[u], card)
      <3>1. hdf'[u] = Open(c.hardfile[u])
        BY <2>1, <2>4 DEF Opened
      <3>2. Open(c.hardfile[u]) \in [enabled : Nat, name : Names]
        BY <1>1, <2>2 DEF Open, Hardfile
      <3> QED
        BY <3>1, <3>2
    <2>5. CASE u \in us /\ ~Opens(c.hardfile[u], card)
      <3>1. ~(card /\ Present(c.hardfile[u]))
        BY <2>5 DEF Opens
      <3>2. ends[u] \in Missed(c.hardfile[u], hdf[u], card)
        BY <2>1, <2>5 DEF Opened
      <3>3. ends[u][1] \in {hdf[u], [enabled |-> c.hardfile[u].enabled, name |-> hdf[u].name],
                            [enabled |-> c.hardfile[u].enabled, name |-> None]}
        BY <3>2 DEF Missed
      <3>4. c.hardfile[u].enabled \in Nat /\ hdf[u].name \in Names
        <4> HIDE DEF H, End
        <4>1. c.hardfile[u] \in Hardfile
          BY <1>1
        <4> QED
          BY <2>2, <4>1 DEF Hardfile
      <3>5. /\ [enabled |-> c.hardfile[u].enabled, name |-> hdf[u].name] \in [enabled : Nat, name : Names]
            /\ [enabled |-> c.hardfile[u].enabled, name |-> None] \in [enabled : Nat, name : Names]
        BY <2>2, <3>4
      <3>6. ends[u][1] \in [enabled : Nat, name : Names]
        BY <2>2, <3>3, <3>5
      <3> HIDE DEF H, End
      <3> QED
        BY <2>1, <3>1, <3>6
    <2> QED
      BY <2>3, <2>4, <2>5
  <1>7. hdf' \in [Units -> [enabled : Nat, name : Names]]
    BY <1>0, <1>6
  <1>8. card => HardfileInUse'
    BY <1>5, <1>6 DEF HardfileInUse
  <1> QED
    BY <1>4, <1>7, <1>8

LEMMA DefaultLoaded == Default \in Config
  <1>1. Min({1, MAX_DRIVES}) \in Nat
    <2>1. \E x \in {1, MAX_DRIVES} : \A y \in {1, MAX_DRIVES} : x <= y
      BY MenuAssumption
    <2>2. Min({1, MAX_DRIVES}) \in {1, MAX_DRIVES}
      BY <2>1 DEF Min
    <2> QED
      BY <2>2, MenuAssumption
  <1>2. Default.hardfile \in [Units -> Hardfile]
    BY DEF Default, Hardfile, Names, HDF_FILE, HDF_CARD
  <1> QED
    BY <1>1, <1>2 DEF Default, Config

LEMMA Loaded ==
  ASSUME Kept, NEW slot \in 0..4
  PROVE  LoadConfiguration(slot) \in Config
  BY DefaultLoaded DEF LoadConfiguration, Kept, TypeOK, SettingsOK

\* What is kept by a step that ends with the menu closed and the memory of the
\* new configuration agreed.
LEMMA ClosedKeeps ==
  ASSUME Kept, Agree, menustate' = "NONE1", config' \in Config, untold' \subseteq Fields, Told',
         hdf' \in [Units -> [enabled : Nat, name : Names]], HardfileInUse',
         cpu' \in {"held", "runs"}, saved' \in [0..4 -> Config \cup {None}],
         parentstate \in RomPages => ~NoCard', UNCHANGED <<temps, file, parentstate>>
  PROVE  (Kept /\ Found(menustate, menusub))'
  <1> USE DEF Kept, temps
  <1>1. TypeOK'
    BY DEF TypeOK, SettingsOK, UnitsOK, PagesOK
  <1>2. CopyAgreed' /\ LeftBehind'
    BY DEF CopyAgreed, Snapshot, LeftBehind, Agree
  <1>3. Found(menustate, menusub)'
    BY PlainFound DEF Plain
  <1> QED
    BY <1>1, <1>2, <1>3

\* A configuration that is applied with its drives is told but for what is left out.
LEMMA ConfigurationTold ==
  AllFields \ Applied(TRUE) \subseteq LeftOut
  <1>1. ASSUME NEW call \in Calls(TRUE), NEW field \in Tells[call]
        PROVE  field \in Applied(TRUE)
    BY <1>1 DEF Applied
  <1>2. /\ {"cpu", "memory", "chipset", "drives", "speed"} \subseteq Applied(TRUE)
        /\ {"filter", "scanlines", "videopos", "hdmi_clkdelay"} \subseteq Applied(TRUE)
        /\ {"misc", "autofire", "enable_ide", "hardfile"} \subseteq Applied(TRUE)
    <2>1. /\ "ConfigCPU" \in Calls(TRUE) /\ "ConfigMemory" \in Calls(TRUE)
          /\ "ConfigChipset" \in Calls(TRUE) /\ "ConfigFloppy" \in Calls(TRUE)
          /\ "ConfigVideo" \in Calls(TRUE) /\ "ConfigVideoPos" \in Calls(TRUE)
          /\ "adv7511_set_clkdelay" \in Calls(TRUE) /\ "ConfigMisc" \in Calls(TRUE)
          /\ "ConfigAutofire" \in Calls(TRUE) /\ "ConfigIDE" \in Calls(TRUE)
      BY DEF Calls
    <2> QED
      BY <1>1, <2>1, CallsTell
  <1> QED
    BY <1>2 DEF AllFields, LeftOut

LEMMA FieldsTold ==
  /\ \A u : (u \subseteq Fields) => (u \cup Fields) \ Applied(TRUE) \subseteq LeftOut
  /\ Fields \ (Applied(TRUE) \cup Tells.drivesounds_enable) \subseteq LeftOut
  BY ConfigurationTold, MenuAssumption

\* ColdBoot leaves the settings told, or the machine held without a card.
LEMMA ColdBootKeeps ==
  ASSUME Kept, ColdBoot
  PROVE  /\ config' \in Config /\ untold' \subseteq Fields /\ Told'
         /\ hdf' \in [Units -> [enabled : Nat, name : Names]] /\ HardfileInUse'
         /\ cpu' \in {"held", "runs"}
  <1>1. CASE cpu' = "held" /\ UNCHANGED <<settings, hdf>> /\ "rom" \notin ErrorMask'
    BY <1>1 DEF Kept, TypeOK, SettingsOK, UnitsOK, settings, Told, NoCard, HardfileInUse
  <1>2. CASE /\ \E missing : OpenHardfile(LoadConfiguration(0), Units, TRUE, missing)
             /\ untold' = Fields \ (Applied(TRUE) \cup Tells.drivesounds_enable)
             /\ cpu' \in {"held", "runs"}
    <2>1. LoadConfiguration(0) \in Config
      BY Loaded
    <2>2. /\ config' \in Config /\ hdf' \in [Units -> [enabled : Nat, name : Names]]
          /\ HardfileInUse'
      BY <1>2, <2>1, OpenHardfileKeeps
    <2>3. untold' \subseteq Fields /\ Told'
      BY <1>2, FieldsTold DEF Told
    <2> QED
      BY <1>2, <2>2, <2>3
  <1> QED
    BY <1>1, <1>2 DEF ColdBoot

LEMMA LoadConfigKeeps ==
  ASSUME NEW s, NEW sub, NEW e, Kept, Found(s, sub), LoadConfig(s, sub, e), Agree
  PROVE  (Kept /\ Found(menustate, menusub))'
  <1>1. CASE /\ s = "LOADCONFIG_1" /\ UNCHANGED t_memory
             /\ \E row, rows : Draw(s, row, rows, "LOADCONFIG_2")
             /\ SearchedConfigurations \/ UNCHANGED errors
    <2>1. "rom" \in ErrorMask' <=> "rom" \in ErrorMask
      BY <1>1 DEF SearchedConfigurations, ClearError, errors
    <2> QED
      BY <1>1, <2>1, DrawKeeps DEF Drawn, Waits, Found
  <1>2. CASE /\ s = "LOADCONFIG_2" /\ sub \in 0..4
             /\ \E rom \in Roms : ApplyConfiguration(LoadConfiguration(sub), Fields, TRUE, rom)
             /\ cpu' = "runs" /\ Goto("NONE1", sub) /\ UNCHANGED <<temps, picks, saved>>
    <2>1. LoadConfiguration(sub) \in Config
      BY <1>2, Loaded
    <2>2. /\ \E missing : OpenHardfile(LoadConfiguration(sub), Units, TRUE, missing)
          /\ untold' = (untold \cup Fields) \ Applied(TRUE)
      BY <1>2 DEF ApplyConfiguration
    <2>3. /\ config' \in Config /\ hdf' \in [Units -> [enabled : Nat, name : Names]]
          /\ HardfileInUse'
      BY <2>1, <2>2, OpenHardfileKeeps
    <2>4. untold' \subseteq Fields /\ Told'
      BY <2>2, FieldsTold DEF Told, Kept, TypeOK, SettingsOK
    <2>5. ~NoCard'
      BY <1>2 DEF NoCard
    <2> QED
      BY <1>2, <2>3, <2>4, <2>5, ClosedKeeps DEF Goto, picks, Kept, TypeOK, SettingsOK
  <1>3. CASE s = "LOADCONFIG_2" /\ UNCHANGED parentstate /\ menustate' \in Plain /\ Quiet
    BY <1>3, WalkKeeps DEF Plain
  <1> QED
    BY <1>1, <1>2, <1>3 DEF LoadConfig, Goto, Stay, Plain

LEMMA FileSelectorKeeps ==
  ASSUME NEW s, NEW sub, NEW e, Kept, Found(s, sub), FileSelector(s, sub, e), Agree
  PROVE  (Kept /\ Found(menustate, menusub))'
  <1>1. /\ UNCHANGED <<settings, temps, fs, asked, hdf, saved, cpu, parentstate>>
        /\ "rom" \in ErrorMask' <=> "rom" \in ErrorMask
        /\ s \in {"FILE_SELECT1", "FILE_SELECT2"} /\ menusub' = sub
        /\ file' \in Files \cup {None}
        /\ \/ menustate' \in {"FILE_SELECT1", "FILE_SELECT2", "MAIN1"}
           \/ menustate' = fs.cancel
           \/ menustate' = fs.select /\ ~NoCard /\ menumask' = {}
    <2>1. /\ UNCHANGED <<settings, temps, fs, asked, hdf, saved, cpu, parentstate>>
          /\ s \in {"FILE_SELECT1", "FILE_SELECT2"} /\ menusub' = sub
          /\ "rom" \in ErrorMask' <=> "rom" \in ErrorMask
      BY ReadKeepsRom DEF FileSelector, errors, Goto
    <2>2. file' \in Files \cup {None}
      BY DEF FileSelector, Kept, TypeOK, UnitsOK
    <2>3. \/ menustate' \in {"FILE_SELECT1", "FILE_SELECT2", "MAIN1"}
          \/ menustate' = fs.cancel
          \/ menustate' = fs.select /\ ~NoCard /\ menumask' = {}
      BY DEF FileSelector, Goto
    <2> QED
      BY <2>1, <2>2, <2>3
  <1>2. /\ sub = asked
        /\ \/ fs.select = "FILE_SELECTED" /\ fs.cancel = "MAIN1"
           \/ fs.select = "HARDFILE_SELECTED" /\ fs.cancel = "HARDFILE1"
           \/ fs.select = "ROMFILE_SELECTED" /\ fs.cancel = "MEMORY1"
    BY <1>1 DEF Found, SelectorAt
  <1>3. Kept'
    BY <1>1, <1>2, SettingKeeps DEF settings, Kept, TypeOK, SettingsOK
  <1>4. NoCard' = NoCard /\ config' = config /\ agreed \subseteq agreed'
    BY <1>1, <1>2 DEF NoCard, settings, Agree
  <1>5. AskedAt(menustate)'
    <2>1. fs.cancel = "MEMORY1" \/ config.memory \in agreed
      BY <1>1 DEF Found, AskedAt, MemoryArea
    <2>2. CASE menustate' = "MAIN1"
      BY <1>4, <2>2 DEF AskedAt, Agree
    <2> QED
      BY <1>1, <1>2, <1>4, <2>1, <2>2 DEF AskedAt, MemoryArea
  <1>6. CardAt(menustate)' /\ DrawnAt(menustate)'
    BY <1>1, <1>2, <1>4 DEF CardAt, DrawnAt, RomPages
  <1>7. SelectorAt(menustate, menusub)'
    BY <1>1, <1>2 DEF SelectorAt
  <1> QED
    BY <1>3, <1>5, <1>6, <1>7 DEF Found

LEMMA ConfirmKeeps ==
  ASSUME NEW s, NEW sub, NEW e, Kept, Found(s, sub), Confirm(s, sub, e), Agree
  PROVE  (Kept /\ Found(menustate, menusub))'
  <1>1. CASE s = "CONFIRM1" /\ DrawPage(s, sub, {0, 1}, "CONFIRM2")
    BY <1>1, DrawPageKeeps DEF Drawn, Waits
  <1>2. CASE s = "CONFIRM2"
    <2>1. parentstate = "CONFIRM1" /\ config.memory \in agreed
      BY <1>2 DEF Found, DrawnAt, AskedAt, MemoryArea
    <2>2. CASE Goto("NONE1", sub) /\ ColdBoot /\ UNCHANGED <<temps, picks, saved>>
      <3>1. UNCHANGED <<temps, file, parentstate>> /\ menustate' = "NONE1"
        BY <2>2 DEF Goto, picks
      <3> QED
        BY <2>1, <2>2, <3>1, ColdBootKeeps, ClosedKeeps DEF Kept, TypeOK, SettingsOK, RomPages
    <2>3. CASE /\ menustate' \in {"NONE1", "MISC1"}
               /\ UNCHANGED <<settings, temps, picks, hdf, saved, cpu, errors, parentstate>>
      <3>1. Kept'
        BY <2>3, SettingKeeps DEF settings, errors, picks, Kept, TypeOK, SettingsOK, UnitsOK
      <3> QED
        BY <2>1, <2>3, <3>1, PlainFound DEF Plain, settings
    <2>4. CASE menustate' = "CONFIRM2" /\ UNCHANGED parentstate /\ Quiet
      <3>1. Kept'
        BY <2>4, QuietKeeps
      <3> QED
        BY <2>1, <2>4, <3>1
           DEF Found, AskedAt, CardAt, DrawnAt, SelectorAt, RomPages, Quiet, settings, Agree
    <2> QED
      BY <1>2, <2>2, <2>3, <2>4 DEF Confirm, Goto, Stay, Quiet, machine
  <1> QED
    BY <1>1, <1>2 DEF Confirm

LEMMA SaveConfigKeeps ==
  ASSUME NEW s, NEW sub, NEW e, Kept, Found(s, sub), SaveConfig(s, sub, e), Agree
  PROVE  (Kept /\ Found(menustate, menusub))'
  <1>1. CASE /\ s = "SAVECONFIG_1" /\ UNCHANGED t_memory /\ SearchedConfigurations
             /\ Draw(s, sub, 0..5, "SAVECONFIG_2")
    <2>1. "rom" \in ErrorMask' <=> "rom" \in ErrorMask
      BY <1>1 DEF SearchedConfigurations, ClearError, errors
    <2> QED
      BY <1>1, <2>1, DrawKeeps DEF Drawn, Waits, Found
  <1>2. CASE /\ s = "SAVECONFIG_2" /\ sub \in SaveSlots /\ Goto("NONE1", sub)
             /\ saved' = [saved EXCEPT ![sub] = config] \/ UNCHANGED saved
             /\ "rom" \in ErrorMask' <=> "rom" \in ErrorMask
             /\ UNCHANGED <<settings, temps, picks, hdf, cpu>>
    <2>1. saved' \in [0..4 -> Config \cup {None}]
      BY <1>2 DEF Kept, TypeOK, SettingsOK
    <2>2. /\ menustate' = "NONE1" /\ UNCHANGED <<config, untold, file, parentstate>>
          /\ NoCard' = NoCard
      BY <1>2 DEF Goto, settings, picks, NoCard
    <2> QED
      BY <1>2, <2>1, <2>2, ClosedKeeps
         DEF Kept, TypeOK, SettingsOK, UnitsOK, PagesOK, Told, HardfileInUse, LeftBehind
  <1>3. CASE s = "SAVECONFIG_2" /\ UNCHANGED parentstate /\ menustate' \in Plain /\ Quiet
    BY <1>3, WalkKeeps DEF Plain
  <1> QED
    BY <1>1, <1>2, <1>3 DEF SaveConfig, Goto, Stay, Plain, ClearError, errors

-----------------------------------------------------------------------------
\* The settings pages.  They may lead to the Memory page.
LEMMA MemoryEntered ==
  ASSUME NEW s \in Plain, NEW sub, Kept, Agree, Found(s, sub), menustate' = "MEMORY1",
         Quiet, UNCHANGED parentstate
  PROVE  (Kept /\ Found(menustate, menusub))'
  <1>1. Kept'
    BY QuietKeeps
  <1>2. Found(menustate, menusub)'
    BY DEF Found, AskedAt, CardAt, DrawnAt, SelectorAt, MemoryArea, RomPages
  <1> QED
    BY <1>1, <1>2

LEMMA WaitForKeeps ==
  ASSUME NEW second \in Plain, NEW sub, NEW e, NEW first \in Plain, NEW rows, NEW back,
         NEW right \in Plain \cup {"MEMORY1"}, NEW left \in Plain \cup {"MEMORY1"},
         RowsTell(rows), Kept, Found(second, sub), WaitFor(second, sub, e, first, rows, back, right, left), Agree
  PROVE  (Kept /\ Found(menustate, menusub))'
  <1>1. CASE /\ sub \in DOMAIN rows /\ Goto(first, sub) /\ Set(rows[sub][1], rows[sub][2])
             /\ UNCHANGED <<config, temps, picks, machine>>
    <2>1. rows[sub][1] \subseteq Tells[rows[sub][2]] \cup LeftOut
      BY <1>1 DEF RowsTell
    <2>2. menustate' \in Plain /\ UNCHANGED parentstate
      BY <1>1 DEF Goto
    <2> QED
      BY <1>1, <2>1, <2>2, SetKeeps
  <1>2. CASE menustate' \in Plain /\ UNCHANGED parentstate /\ Quiet
    BY <1>2, WalkKeeps
  <1>3. CASE menustate' = "MEMORY1" /\ UNCHANGED parentstate /\ Quiet
    BY <1>3, MemoryEntered
  <1>4. "MAIN2_1" \in Plain
    BY DEF Plain
  <1> QED
    BY <1>1, <1>2, <1>3, <1>4 DEF WaitFor, Goto, Stay

LEMMA RingKeeps ==
  ASSUME NEW s, NEW sub, NEW e, Kept, Found(s, sub), Agree,
         \/ VideoPage(s, sub, e) \/ VideoPosPage(s, sub, e) \/ HdmiPage(s, sub, e)
         \/ AudioPage(s, sub, e)
  PROVE  (Kept /\ Found(menustate, menusub))'
  <1>1. CASE VideoPage(s, sub, e)
    <2>1. CASE s = "VIDEO1" /\ DrawPage(s, sub, 0..4, "VIDEO2")
      BY <2>1, DrawPageKeeps DEF Drawn, Waits
    <2>2. CASE /\ s = "VIDEO2"
               /\ \E back : WaitFor("VIDEO2", sub, e, "VIDEO1", VideoRows, back, "VIDEO3", "AUDIO1")
      <3>1. Found("VIDEO2", sub)
        BY <2>2
      <3>2. "VIDEO2" \in Plain /\ "VIDEO1" \in Plain /\ {"VIDEO3", "AUDIO1"} \subseteq Plain \cup {"MEMORY1"}
        BY DEF Plain
      <3> QED
        BY <2>2, <3>1, <3>2, RingRowsTell, WaitForKeeps
    <2> QED
      BY <1>1, <2>1, <2>2 DEF VideoPage
  <1>2. CASE VideoPosPage(s, sub, e)
    <2>1. CASE s = "VIDEO3" /\ DrawPage(s, sub, 0..4, "VIDEO4")
      BY <2>1, DrawPageKeeps DEF Drawn, Waits
    <2>2. CASE /\ s = "VIDEO4"
               /\ \E back : WaitFor("VIDEO4", sub, e, "VIDEO3", VideoPosRows, back, "HDMI1", "VIDEO1")
      <3>1. Found("VIDEO4", sub)
        BY <2>2
      <3>2. "VIDEO4" \in Plain /\ "VIDEO3" \in Plain /\ {"HDMI1", "VIDEO1"} \subseteq Plain \cup {"MEMORY1"}
        BY DEF Plain
      <3> QED
        BY <2>2, <3>1, <3>2, RingRowsTell, WaitForKeeps
    <2> QED
      BY <1>2, <2>1, <2>2 DEF VideoPosPage
  <1>3. CASE HdmiPage(s, sub, e)
    <2>1. CASE s = "HDMI1" /\ DrawPage(s, sub, 0..2, "HDMI2")
      BY <2>1, DrawPageKeeps DEF Drawn, Waits
    <2>2. CASE /\ s = "HDMI2"
               /\ \E back : WaitFor("HDMI2", sub, e, "HDMI1", HdmiRows, back, "CHIPSET1", "VIDEO3")
      <3>1. Found("HDMI2", sub)
        BY <2>2
      <3>2. "HDMI2" \in Plain /\ "HDMI1" \in Plain /\ {"CHIPSET1", "VIDEO3"} \subseteq Plain \cup {"MEMORY1"}
        BY DEF Plain
      <3> QED
        BY <2>2, <3>1, <3>2, RingRowsTell, WaitForKeeps
    <2> QED
      BY <1>3, <2>1, <2>2 DEF HdmiPage
  <1>4. CASE AudioPage(s, sub, e)
    <2>1. CASE s = "AUDIO1" /\ DrawPage(s, sub, 0..2, "AUDIO2")
      BY <2>1, DrawPageKeeps DEF Drawn, Waits
    <2>2. CASE /\ s = "AUDIO2"
               /\ \E back : WaitFor("AUDIO2", sub, e, "AUDIO1", AudioRows, back, "VIDEO1", "MEMORY1")
      <3>1. Found("AUDIO2", sub)
        BY <2>2
      <3>2. "AUDIO2" \in Plain /\ "AUDIO1" \in Plain /\ {"VIDEO1", "MEMORY1"} \subseteq Plain \cup {"MEMORY1"}
        BY DEF Plain
      <3> QED
        BY <2>2, <3>1, <3>2, RingRowsTell, WaitForKeeps
    <2> QED
      BY <1>4, <2>1, <2>2 DEF AudioPage
  <1> QED
    BY <1>1, <1>2, <1>3, <1>4

LEMMA ChipsetKeeps ==
  ASSUME NEW s, NEW sub, NEW e, Kept, Found(s, sub), Agree,
         ChipsetPage(s, sub, e) \/ ChipsetKeys(s, sub, e)
  PROVE  (Kept /\ Found(menustate, menusub))'
  <1>1. CASE ChipsetPage(s, sub, e)
    BY <1>1, DrawPageKeeps DEF ChipsetPage, Drawn, Waits
  <1>2. CASE s = "CHIPSET2" /\ Goto("CHIPSET1", sub - 1) /\ Quiet
    BY <1>2, WalkKeeps DEF Goto, Plain
  <1>3. CASE /\ s = "CHIPSET2"
             /\ \E back : WaitFor("CHIPSET2", sub, e, "CHIPSET1", ChipsetRows, back, "MEMORY1", "HDMI1")
    <2>1. Found("CHIPSET2", sub)
      BY <1>3
    <2>2. /\ "CHIPSET2" \in Plain /\ "CHIPSET1" \in Plain
          /\ {"MEMORY1", "HDMI1"} \subseteq Plain \cup {"MEMORY1"}
      BY DEF Plain
    <2> QED
      BY <1>3, <2>1, <2>2, RingRowsTell, WaitForKeeps
  <1> QED
    BY <1>1, <1>2, <1>3 DEF ChipsetKeys

-----------------------------------------------------------------------------
\* The Memory page.
LEMMA MemoryPageKeeps ==
  ASSUME NEW s, NEW sub, NEW e, Kept, Found(s, sub), MemoryPage(s, sub, e), Agree
  PROVE  (Kept /\ Found(menustate, menusub))'
  <1> USE DEF Kept
  <1>1. /\ menustate' = "MEMORY2" /\ parentstate' = "MEMORY1"
        /\ UNCHANGED <<config, untold, hdf, saved, cpu, ErrorMask>>
        /\ t_hardfile' = Default.hardfile /\ t_enable_ide' = FALSE
        /\ t_memory_next' = <<"NONE1", 0>> /\ file' = None
    BY DEF MemoryPage, Draw, ForgetPages, ForgetUnless, settings, errors
  <1>2. t_memory' = Snapshot /\ agreed' = agreed
    BY <1>1 DEF MemoryPage, Agree
  <1>3. t_memory' \in {0, 1} /\ t_memory' \in agreed
    <2>1. config.memory \in {0, 1}
      BY DEF TypeOK, SettingsOK, Config
    <2> QED
      BY <1>2, <2>1 DEF Snapshot, TypeOK, PagesOK, CopyAgreed
  <1>4. Default.hardfile \in [Units -> Hardfile]
    BY DefaultLoaded DEF Config
  <1>5. TypeOK'
    BY <1>1, <1>3, <1>4 DEF TypeOK, SettingsOK, UnitsOK, PagesOK, Drawn, Exits
  <1>6. Told' /\ HardfileInUse'
    BY <1>1 DEF Told, NoCard, HardfileInUse
  <1>7. CopyAgreed' /\ LeftBehind'
    BY <1>1, <1>2, <1>3 DEF CopyAgreed, Snapshot, LeftBehind, RomPages
  <1>8. Found(menustate, menusub)'
    BY <1>1, <1>3, MenuAssumption
       DEF Found, AskedAt, CardAt, DrawnAt, SelectorAt, MemoryArea, RomPages
  <1> QED
    BY <1>5, <1>6, <1>7, <1>8

\* Leaving it, the memory is what was agreed, or the question comes next.
LEMMA LeaveMemoryKeeps ==
  ASSUME NEW state \in Exits, NEW row, NEW sub, Kept, Found("MEMORY2", sub),
         LeaveMemory(state, row), Agree
  PROVE  (Kept /\ Found(menustate, menusub))'
  <1> USE DEF Kept
  <1>1. /\ UNCHANGED <<config, untold, t_hardfile, t_enable_ide, file, hdf, saved, cpu, ErrorMask,
                       parentstate>>
        /\ t_memory' = None /\ NoCard' = NoCard
    BY DEF LeaveMemory, Goto, settings, picks, machine, errors, NoCard
  <1>2. /\ menustate' \in Exits \cup {"MEMORY_CHANGED1"} /\ t_memory_next'[1] \in Exits
        /\ menustate' # "MEMORY_CHANGED1" => config.memory = t_memory
    BY DEF LeaveMemory, Goto, Exits, TypeOK, PagesOK
  <1>3. t_memory # None
    BY DEF Found, DrawnAt
  <1>4. t_memory \in agreed /\ config.memory \in agreed'
    BY <1>1, <1>2, <1>3 DEF CopyAgreed, Snapshot, Agree, Exits
  <1>5. TypeOK'
    BY <1>1, <1>2 DEF TypeOK, SettingsOK, UnitsOK, PagesOK
  <1>6. Told' /\ HardfileInUse'
    BY <1>1 DEF Told, HardfileInUse
  <1>7. CopyAgreed' /\ LeftBehind'
    BY <1>1, <1>4 DEF CopyAgreed, Snapshot, LeftBehind
  <1>8. Found(menustate, menusub)'
    BY <1>1, <1>2, <1>3, <1>4, PlainFound DEF CopyAgreed, Snapshot, Plain, Exits
  <1> QED
    BY <1>5, <1>6, <1>7, <1>8

LEMMA MemoryKeysKeep ==
  ASSUME NEW s, NEW sub, NEW e, Kept, Found(s, sub), MemoryKeys(s, sub, e), Agree
  PROVE  (Kept /\ Found(menustate, menusub))'
  <1> USE DEF Kept
  <1>1. s = "MEMORY2" /\ parentstate = "MEMORY1" /\ t_memory # None
    BY DEF MemoryKeys, Found, DrawnAt
  <1>2. CASE /\ Goto("MEMORY1", sub) /\ config' = [config EXCEPT !.memory = 1 - config.memory]
             /\ Set({"memory"}, "ConfigMemory") /\ UNCHANGED <<temps, picks, machine>>
    <2>1. /\ UNCHANGED <<temps, file, hdf, saved, cpu, ErrorMask, parentstate>>
          /\ menustate' = "MEMORY1" /\ agreed' = agreed /\ NoCard' = NoCard
      BY <1>2 DEF Goto, picks, machine, errors, Agree, NoCard
    <2>2. config' \in Config /\ config'.hardfile = config.hardfile
      BY <1>2 DEF TypeOK, SettingsOK, Config
    <2>3. untold' \subseteq untold \cup (LeftOut \cap Fields)
      BY <1>2, SetTells, CallsTell
    <2>4. TypeOK'
      BY <2>1, <2>2, <2>3 DEF TypeOK, SettingsOK, UnitsOK, PagesOK, temps
    <2>5. Told' /\ HardfileInUse'
      BY <2>1, <2>2, <2>3 DEF Told, HardfileInUse
    <2>6. CopyAgreed' /\ LeftBehind'
      BY <1>1, <2>1 DEF CopyAgreed, Snapshot, LeftBehind, temps, RomPages
    <2>7. Found(menustate, menusub)'
      BY <2>1 DEF Found, AskedAt, CardAt, DrawnAt, SelectorAt, MemoryArea, RomPages
    <2> QED
      BY <2>4, <2>5, <2>6, <2>7
  <1>3. CASE SelectFile(sub, "ROMFILE_SELECTED", "MEMORY1") /\ UNCHANGED <<settings, temps>>
    <2>1. Kept'
      BY <1>3, SettingKeeps, ReadKeepsRom
         DEF SelectFile, Goto, settings, TypeOK, SettingsOK, UnitsOK
    <2>2. Found(menustate, menusub)'
      BY <1>3 DEF SelectFile, Goto, Found, AskedAt, CardAt, DrawnAt, SelectorAt, RomPages
    <2> QED
      BY <2>1, <2>2
  <1>4. CASE \E state \in Exits : \E row : LeaveMemory(state, row)
    BY <1>1, <1>4, LeaveMemoryKeeps
  <1>5. CASE Stay(s, sub) /\ Quiet
    <2>1. Kept'
      BY <1>1, <1>5, QuietKeeps DEF Stay, Goto
    <2>2. menustate' = "MEMORY2" /\ UNCHANGED <<parentstate, t_memory>>
      BY <1>1, <1>5 DEF Stay, Goto, Quiet, temps
    <2>3. Found(menustate, menusub)'
      BY <1>1, <2>2 DEF Found, AskedAt, CardAt, DrawnAt, SelectorAt, MemoryArea, RomPages
    <2> QED
      BY <2>1, <2>3
  <1> QED
    BY <1>2, <1>3, <1>4, <1>5 DEF MemoryKeys, Exits

LEMMA MemoryChangedKeeps ==
  ASSUME NEW s, NEW sub, NEW e, Kept, Found(s, sub), MemoryChanged(s, sub, e), Agree
  PROVE  (Kept /\ Found(menustate, menusub))'
  <1>1. CASE s = "MEMORY_CHANGED1" /\ DrawPage(s, sub, {0, 1}, "MEMORY_CHANGED2")
    BY <1>1, DrawPageKeeps DEF Drawn, Waits
  <1>2. CASE /\ s = "MEMORY_CHANGED2" /\ Goto("NONE1", sub)
             /\ UNCHANGED <<settings, temps, picks, hdf, saved, cpu, errors>>
    BY <1>2, TellKeeps DEF Goto, Plain, settings, errors, picks, Kept, TypeOK, SettingsOK, UnitsOK
  <1>3. CASE /\ s = "MEMORY_CHANGED2" /\ UNCHANGED parentstate
             /\ menustate' \in Exits \cup {"MEMORY_CHANGED2"} /\ Quiet
    BY <1>3, WalkKeeps DEF Plain, Exits
  <1> QED
    BY <1>1, <1>2, <1>3 DEF MemoryChanged, Goto, Stay, Kept, TypeOK, PagesOK

-----------------------------------------------------------------------------
\* The Harddisks page.
LEMMA NextTypeNat ==
  ASSUME NEW t \in Nat
  PROVE  NextType(t) \in Nat
  BY MenuAssumption DEF NextType, HDF_FILE, HDF_SYNTHRDB, HDF_CARDPART0

\* A step that changes only the page's copies.
LEMMA CopyKeeps ==
  ASSUME NEW s, NEW sub, Kept, Agree, Found(s, sub), menustate' \in Plain,
         config.memory \in agreed,
         t_hardfile' \in [Units -> Hardfile], t_enable_ide' \in BOOLEAN, file' \in Files \cup {None},
         UNCHANGED <<settings, t_memory, t_memory_next, machine, parentstate>>
  PROVE  (Kept /\ Found(menustate, menusub))'
  <1> USE DEF Kept, settings, machine, errors
  <1>1. TypeOK'
    BY DEF TypeOK, SettingsOK, UnitsOK, PagesOK
  <1>2. Told' /\ HardfileInUse' /\ NoCard' = NoCard
    BY DEF Told, NoCard, HardfileInUse
  <1>3. CopyAgreed' /\ LeftBehind'
    BY <1>2 DEF CopyAgreed, Snapshot, LeftBehind, Agree, Plain
  <1> QED
    BY <1>1, <1>2, <1>3, PlainFound

LEMMA HardfileKeysKeep ==
  ASSUME NEW s, NEW sub, NEW e, Kept, Found(s, sub), Agree,
         HardfilePage(s, sub, e) \/ HardfileKeys(s, sub, e)
  PROVE  (Kept /\ Found(menustate, menusub))'
  <1>1. CASE HardfilePage(s, sub, e)
    BY <1>1, DrawPageKeeps DEF HardfilePage, Drawn, Waits
  <1>2. CASE /\ s = "HARDFILE2" /\ Goto("HARDFILE1", sub)
             /\ t_enable_ide' = ~t_enable_ide
             /\ UNCHANGED <<settings, t_hardfile, t_memory, t_memory_next, picks, machine>>
    BY <1>2, PlainAgreed, CopyKeeps DEF Goto, Plain, picks, Kept, TypeOK, UnitsOK
  <1>3. CASE /\ s = "HARDFILE2" /\ sub \in {1, 3} /\ Goto("HARDFILE1", sub)
             /\ LET u == (sub - 1) \div 2 IN
                t_hardfile' = [t_hardfile EXCEPT ![u].enabled = NextType(t_hardfile[u].enabled)]
             /\ UNCHANGED <<settings, t_enable_ide, t_memory, t_memory_next, picks, machine>>
    <2> DEFINE u == (sub - 1) \div 2
    <2>1. /\ t_hardfile' = [t_hardfile EXCEPT ![u].enabled = NextType(t_hardfile[u].enabled)]
          /\ u \in Units
      BY <1>3 DEF Units
    <2> HIDE DEF u
    <2>2. t_hardfile \in [Units -> Hardfile] /\ t_hardfile[u].enabled \in Nat
      BY <2>1 DEF Kept, TypeOK, UnitsOK, Hardfile
    <2>3. NextType(t_hardfile[u].enabled) \in Nat
      BY <2>2, NextTypeNat
    <2>4. t_hardfile' = [t_hardfile EXCEPT ![u] = [@ EXCEPT !.enabled = NextType(t_hardfile[u].enabled)]]
      BY <2>1
    <2>5. [t_hardfile[u] EXCEPT !.enabled = NextType(t_hardfile[u].enabled)] \in Hardfile
      BY <2>1, <2>2, <2>3 DEF Hardfile
    <2>6. t_hardfile' \in [Units -> Hardfile]
      BY <2>1, <2>2, <2>4, <2>5
    <2> QED
      BY <1>3, <2>6, PlainAgreed, CopyKeeps DEF Goto, Plain, picks, Kept, TypeOK, UnitsOK
  <1>4. CASE /\ s = "HARDFILE2" /\ SelectFile(sub, "HARDFILE_SELECTED", "HARDFILE1")
             /\ UNCHANGED <<settings, temps>>
    <2>1. Kept'
      BY <1>4, SettingKeeps, ReadKeepsRom
         DEF SelectFile, Goto, settings, Kept, TypeOK, SettingsOK, UnitsOK
    <2>2. config.memory \in agreed /\ config' = config
      BY <1>4, PlainAgreed DEF Plain, settings
    <2>3. Found(menustate, menusub)'
      BY <1>4, <2>2
         DEF SelectFile, Goto, Found, AskedAt, CardAt, DrawnAt, SelectorAt, RomPages, Agree
    <2> QED
      BY <2>1, <2>3
  <1>5. CASE /\ s = "HARDFILE2" /\ Goto("HARDFILE1", sub) /\ Set({"drivesounds"}, "drivesounds_enable")
             /\ UNCHANGED <<config, temps, picks, machine>>
    <2>1. menustate' \in Plain /\ "HARDFILE2" \in Plain /\ UNCHANGED parentstate
      BY <1>5 DEF Goto, Plain
    <2> QED
      BY <1>5, <2>1, CallsTell, SetKeeps
  <1>6. CASE /\ s = "HARDFILE2" /\ UNCHANGED parentstate
             /\ menustate' \in {"HARDFILE_EXIT", s} /\ Quiet
    BY <1>6, WalkKeeps DEF Plain
  <1> QED
    BY <1>1, <1>2, <1>3, <1>4, <1>5, <1>6 DEF HardfileKeys, Goto, Stay

LEMMA HardfileSelectedKeeps ==
  ASSUME NEW s, NEW sub, NEW e, Kept, Found(s, sub), HardfileSelected(s, sub, e), Agree
  PROVE  (Kept /\ Found(menustate, menusub))'
  <1> DEFINE u == (sub - 2) \div 2
             type == Kind[file]
             h == [name |-> file, present |-> type # "NOTFOUND",
                   enabled |-> IF type = "RDB" THEN HDF_FILE
                               ELSE IF type = "DOS" THEN HDF_FILE + HDF_SYNTHRDB
                               ELSE t_hardfile[u].enabled]
  <1>1. u \in Units /\ s = "HARDFILE_SELECTED"
    BY DEF HardfileSelected, Units
  <1>2. t_hardfile' = [t_hardfile EXCEPT ![u] = h]
    BY DEF HardfileSelected
  <1>3. t_hardfile \in [Units -> Hardfile] /\ file \in Names /\ t_enable_ide \in BOOLEAN
    BY DEF Kept, TypeOK, UnitsOK, Names
  <1>4. h \in Hardfile
    <2>1. t_hardfile[u].enabled \in Nat
      BY <1>1, <1>3 DEF Hardfile
    <2>2. HDF_FILE \in Nat /\ HDF_FILE + HDF_SYNTHRDB \in Nat
      BY DEF HDF_FILE, HDF_SYNTHRDB
    <2> HIDE DEF u, type
    <2> QED
      BY <1>3, <2>1, <2>2 DEF Hardfile
  <1>5. t_hardfile' \in [Units -> Hardfile]
    <2> HIDE DEF u, h
    <2> QED
      BY <1>1, <1>2, <1>3, <1>4
  <1>6. /\ menustate' \in {"SYNTHRDB1", "SYNTHRDB2_1", "HARDFILE1"} /\ file' = None
        /\ UNCHANGED <<settings, t_enable_ide, t_memory, t_memory_next, machine, parentstate>>
    BY DEF HardfileSelected, Goto
  <1>7. config.memory \in agreed
    BY <1>1 DEF Found, AskedAt, MemoryArea
  <1> QED
    BY <1>3, <1>5, <1>6, <1>7, CopyKeeps DEF Plain

LEMMA HardfileChangedKeeps ==
  ASSUME NEW s, NEW sub, NEW e, Kept, Found(s, sub), HardfileChanged(s, sub, e), Agree
  PROVE  (Kept /\ Found(menustate, menusub))'
  <1>1. CASE s = "HARDFILE_CHANGED1" /\ DrawPage(s, sub, {0, 1}, "HARDFILE_CHANGED2")
    BY <1>1, DrawPageKeeps DEF Drawn, Waits
  <1>2. CASE /\ s = "HARDFILE_CHANGED2" /\ Set({"hardfile", "enable_ide"}, "ConfigIDE") /\ Goto("NONE1", sub)
             /\ \E missing \in SUBSET HardfileErrors :
                  /\ OpenHardfile([config EXCEPT !.hardfile = t_hardfile, !.enable_ide = t_enable_ide],
                                  {u \in Units : Changed(u)}, ~NoCard, missing)
                  /\ ErrorMask' = ErrorMask \cup missing
             /\ UNCHANGED <<temps, picks, saved, cpu>>
    <2> DEFINE c == [config EXCEPT !.hardfile = t_hardfile, !.enable_ide = t_enable_ide]
    <2>1. c \in Config /\ c.hardfile = t_hardfile
      BY DEF Kept, TypeOK, SettingsOK, UnitsOK, Config
    <2>2. ASSUME NEW u \in Units, ~Changed(u), Present(t_hardfile[u]), ~NoCard
          PROVE  hdf[u] = Open(t_hardfile[u])
      <3>1. /\ config.hardfile[u].enabled = t_hardfile[u].enabled
            /\ config.hardfile[u].name = t_hardfile[u].name
        BY <2>2 DEF Changed
      <3>2. Present(config.hardfile[u]) /\ Open(config.hardfile[u]) = Open(t_hardfile[u])
        BY <2>2, <3>1 DEF Present, Open, IsFile
      <3> QED
        BY <2>2, <3>2 DEF Kept, HardfileInUse
    <2>3. PICK missing \in SUBSET HardfileErrors :
             /\ OpenHardfile(c, {u \in Units : Changed(u)}, ~NoCard, missing)
             /\ ErrorMask' = ErrorMask \cup missing
      BY <1>2
    <2> HIDE DEF c
    <2>4. (~NoCard) \in BOOLEAN /\ (NoCard' <=> NoCard)
      <3>1. "rom" \in ErrorMask' <=> "rom" \in ErrorMask
        BY <2>3 DEF HardfileErrors
      <3>2. cpu' = cpu
        BY <1>2
      <3>3. (~NoCard) \in BOOLEAN
        OBVIOUS
      <3>4. NoCard' <=> NoCard
        BY <3>1, <3>2 DEF NoCard
      <3> QED
        BY <3>3, <3>4
    <2>5. /\ config' \in Config /\ hdf' \in [Units -> [enabled : Nat, name : Names]]
          /\ ~NoCard => HardfileInUse'
      BY <2>1, <2>2, <2>3, <2>4, OpenHardfileKeeps
    <2>6. HardfileInUse'
      BY <2>4, <2>5 DEF HardfileInUse
    <2>7. untold' \subseteq Fields /\ Told'
      BY <1>2, <2>4, SetTells, CallsTell DEF Told, Kept, TypeOK, SettingsOK
    <2> QED
      BY <1>2, <2>4, <2>5, <2>6, <2>7, ClosedKeeps
         DEF Goto, picks, Kept, TypeOK, SettingsOK, PagesOK, LeftBehind
  <1>3. CASE /\ s = "HARDFILE_CHANGED2" /\ UNCHANGED parentstate
             /\ menustate' \in {"MAIN1", s} /\ Quiet
    BY <1>3, WalkKeeps DEF Plain
  <1> QED
    BY <1>1, <1>2, <1>3 DEF HardfileChanged, Goto, Stay

-----------------------------------------------------------------------------
\* A new Kickstart, and errors.
LEMMA RomFileKeeps ==
  ASSUME NEW s, NEW sub, NEW e, Kept, Found(s, sub), RomFile(s, sub, e), Agree
  PROVE  (Kept /\ Found(menustate, menusub))'
  <1>1. s \in RomPages /\ ~NoCard
    BY DEF RomFile, RomPages, Found, CardAt
  <1>2. CASE \E row : DrawPage("ROMFILE_SELECTED1", row, {0, 1}, "ROMFILE_SELECTED2")
    <2>1. AskedAt("ROMFILE_SELECTED1") /\ CardAt("ROMFILE_SELECTED1")
      BY <1>1 DEF AskedAt, CardAt, MemoryArea
    <2> QED
      BY <1>2, <2>1, DrawKeeps DEF DrawPage, Drawn, Waits, errors
  <1>3. CASE /\ \E rom \in Roms : ApplyConfiguration(config, {}, FALSE, rom)
             /\ cpu' = "runs" /\ Goto("NONE1", sub) /\ UNCHANGED <<temps, picks, saved>>
    <2>1. config' = config /\ UNCHANGED hdf /\ untold' \subseteq untold \cup (LeftOut \cap Fields)
      BY <1>3 DEF ApplyConfiguration
    <2>2. ~NoCard' /\ Told'
      BY <1>1, <1>3, <2>1 DEF NoCard, Kept, Told
    <2>3. HardfileInUse'
      BY <1>1, <2>1 DEF Kept, HardfileInUse
    <2> QED
      BY <1>3, <2>1, <2>2, <2>3, ClosedKeeps
         DEF Goto, picks, Kept, TypeOK, SettingsOK, UnitsOK
  <1>4. CASE menustate' \in {"MEMORY1", "ROMFILE_SELECTED2"} /\ UNCHANGED parentstate /\ Quiet
    <2>1. Kept'
      BY <1>4, QuietKeeps
    <2>2. NoCard' = NoCard
      BY <1>4 DEF NoCard, Quiet, machine, errors
    <2>3. Found(menustate, menusub)'
      BY <1>1, <1>4, <2>2 DEF Found, AskedAt, CardAt, DrawnAt, SelectorAt, MemoryArea
    <2> QED
      BY <2>1, <2>3
  <1> QED
    BY <1>2, <1>3, <1>4 DEF RomFile, Goto, Stay

LEMMA ErrorPageKeeps ==
  ASSUME NEW s, NEW sub, NEW e, Kept, Found(s, sub), ErrorPage(s, sub, e), Agree
  PROVE  (Kept /\ Found(menustate, menusub))'
  <1>1. CASE s = "ERROR" /\ DrawPage(s, sub, {0}, "ERROR2")
    BY <1>1, DrawPageKeeps DEF Drawn, Waits
  <1>2. CASE s = "ERROR2"
    <2>1. parentstate = "ERROR" /\ config.memory \in agreed
      BY <1>2 DEF Found, DrawnAt, AskedAt, MemoryArea
    <2>2. CASE Goto("NONE1", sub) /\ ColdBoot /\ UNCHANGED <<temps, picks, saved>>
      <3>1. UNCHANGED <<temps, file, parentstate>> /\ menustate' = "NONE1"
        BY <2>2 DEF Goto, picks
      <3> QED
        BY <2>1, <2>2, <3>1, ColdBootKeeps, ClosedKeeps DEF Kept, TypeOK, SettingsOK, RomPages
    <2>3. CASE /\ Goto("NONE1", sub) /\ "rom" \notin ErrorMask /\ ErrorMask' = {}
               /\ UNCHANGED <<settings, hdf, cpu, temps, picks, saved>>
      <3>1. UNCHANGED <<config, untold, temps, file, parentstate>> /\ menustate' = "NONE1"
        BY <2>3 DEF Goto, picks, settings
      <3>2. Told' /\ HardfileInUse'
        BY <2>3, <3>1 DEF Kept, Told, NoCard, HardfileInUse
      <3> QED
        BY <2>1, <2>3, <3>1, <3>2, ClosedKeeps
           DEF Kept, TypeOK, SettingsOK, UnitsOK, PagesOK, RomPages
    <2>4. CASE menustate' = "ERROR" /\ UNCHANGED parentstate /\ Quiet
      <3>1. Kept'
        BY <2>4, QuietKeeps
      <3> QED
        BY <2>1, <2>4, <3>1, PlainFound DEF Plain, Quiet, settings
    <2> QED
      BY <1>2, <2>2, <2>3, <2>4 DEF ErrorPage, Goto
  <1> QED
    BY <1>1, <1>2 DEF ErrorPage

-----------------------------------------------------------------------------
\* The whole of HandleUI, and the loop around it.
LEMMA PageKeeps ==
  ASSUME NEW s, NEW sub, NEW e, Kept, Found(s, sub), Page(s, sub, e), Agree
  PROVE  (Kept /\ Found(menustate, menusub))'
  <1>1. CASE \/ NoMenu(s, sub, e) \/ MainMenu(s, sub, e) \/ FloppyMenu(s, sub, e)
             \/ FileSelected(s, sub, e) \/ SettingsMenu(s, sub, e) \/ MiscMenu(s, sub, e)
    BY <1>1, NoMenuKeeps, MainMenuKeeps, FloppyMenuKeeps, FileSelectedKeeps, SettingsMenuKeeps,
       MiscMenuKeeps
  <1>2. CASE \/ AboutPages(s, sub, e) \/ LoadConfig(s, sub, e) \/ FileSelector(s, sub, e)
             \/ Confirm(s, sub, e) \/ SaveConfig(s, sub, e)
    BY <1>2, AboutPagesKeep, LoadConfigKeeps, FileSelectorKeeps, ConfirmKeeps, SaveConfigKeeps
  <1>3. CASE \/ ChipsetPage(s, sub, e) \/ ChipsetKeys(s, sub, e) \/ MemoryPage(s, sub, e)
             \/ MemoryKeys(s, sub, e) \/ MemoryChanged(s, sub, e)
    BY <1>3, ChipsetKeeps, MemoryPageKeeps, MemoryKeysKeep, MemoryChangedKeeps
  <1>4. CASE \/ HardfilePage(s, sub, e) \/ HardfileKeys(s, sub, e) \/ HardfileSelected(s, sub, e)
             \/ HardfileExit(s, sub, e) \/ HardfileChanged(s, sub, e) \/ SynthRdb(s, sub, e)
    BY <1>4, HardfileKeysKeep, HardfileSelectedKeeps, HardfileChangedKeeps, SmallPagesKeep
  <1>5. CASE \/ VideoPage(s, sub, e) \/ VideoPosPage(s, sub, e) \/ HdmiPage(s, sub, e)
             \/ AudioPage(s, sub, e) \/ RomFile(s, sub, e) \/ ErrorPage(s, sub, e) \/ Info(s, sub, e)
    BY <1>5, RingKeeps, RomFileKeeps, ErrorPageKeeps, SmallPagesKeep
  <1> QED
    BY <1>1, <1>2, <1>3, <1>4, <1>5 DEF Page

\* A step that leaves all but the state of the menu, and hands settings over.
LEMMA ChordKeeps ==
  ASSUME Kept, Found(menustate, menusub), NEW k, Chord(k)
  PROVE  (Kept /\ Found(menustate, menusub))'
  <1>0. untold' \subseteq untold \cup (LeftOut \cap Fields)
    <2>1. \A c \in DOMAIN ChordSets : ChordSets[c][1] \subseteq Tells[ChordSets[c][2]]
      BY CallsTell DEF ChordSets
    <2> QED
      BY <2>1, SetTells DEF Chord
  <1>1. /\ untold' \subseteq untold \cup (LeftOut \cap Fields) /\ NoCard' = NoCard
        /\ UNCHANGED <<config, temps, fs, asked, file, hdf, saved, cpu, ErrorMask, agreed,
                       parentstate, menusub, menumask>>
        /\ \/ menustate' = menustate
           \/ menustate \in {"NONE2", "INFO"} /\ menustate' = "INFO"
           \/ menustate = "CHIPSET2" /\ menustate' = "CHIPSET1"
    BY <1>0 DEF Chord, picks, machine, errors, ui, InfoMessage, Goto, NoCard
  <1>2. Kept'
    BY <1>1 DEF Kept, TypeOK, SettingsOK, UnitsOK, PagesOK, Told, CopyAgreed, Snapshot, LeftBehind,
                HardfileInUse, temps
  <1>3. Found(menustate, menusub)'
    BY <1>1 DEF Found, AskedAt, CardAt, DrawnAt, SelectorAt, MemoryArea, RomPages, temps
  <1> QED
    BY <1>2, <1>3

LEMMA DebugChordKeeps ==
  ASSUME Kept, DebugChord
  PROVE  (Kept /\ Found(menustate, menusub))'
  <1>1. /\ menustate' = "NONE2" /\ parentstate' = "NONE1" /\ t_memory' = None /\ file' = None
        /\ t_hardfile' = Default.hardfile /\ t_enable_ide' = FALSE
        /\ t_memory_next' = <<"NONE1", 0>> /\ agreed' = {config.memory}
    BY DEF DebugChord, Forget, ForgetPages, ForgetUnless
  <1>2. UNCHANGED <<config, untold, hdf, saved, cpu, ErrorMask>> /\ NoCard' = NoCard
    BY DEF DebugChord, settings, machine, errors, NoCard
  <1>3. Default.hardfile \in [Units -> Hardfile]
    BY DefaultLoaded DEF Config
  <1>4. TypeOK'
    BY <1>1, <1>2, <1>3 DEF Kept, TypeOK, SettingsOK, UnitsOK, PagesOK, Drawn, Exits
  <1>5. Told' /\ CopyAgreed' /\ LeftBehind' /\ HardfileInUse'
    BY <1>1, <1>2 DEF Kept, Told, CopyAgreed, Snapshot, LeftBehind, HardfileInUse, RomPages
  <1>6. Found(menustate, menusub)'
    BY <1>1, <1>2 DEF Found, AskedAt, CardAt, DrawnAt, SelectorAt, RomPages
  <1> QED
    BY <1>4, <1>5, <1>6 DEF Kept

LEMMA BootKeeps ==
  ASSUME Kept, Found(menustate, menusub), Booting, Boot
  PROVE  (Kept /\ Found(menustate, menusub))'
  <1>1. /\ menustate' = "NONE1" /\ parentstate' = "NONE1" /\ t_memory' = None
        /\ agreed' = {config'.memory} /\ UNCHANGED <<temps, file, saved, parentstate>>
    BY DEF Boot, Booting, ui, temps, picks
  <1>2. /\ config' \in Config /\ untold' \subseteq Fields /\ Told'
        /\ hdf' \in [Units -> [enabled : Nat, name : Names]] /\ HardfileInUse'
        /\ cpu' \in {"held", "runs"}
    BY ColdBootKeeps DEF Boot
  <1>3. TypeOK'
    BY <1>1, <1>2 DEF Kept, TypeOK, SettingsOK, UnitsOK, PagesOK, temps
  <1>4. CopyAgreed' /\ LeftBehind'
    BY <1>1 DEF CopyAgreed, Snapshot, LeftBehind, RomPages
  <1>5. Found(menustate, menusub)'
    BY <1>1 DEF Found, AskedAt, CardAt, DrawnAt, SelectorAt, RomPages
  <1> QED
    BY <1>2, <1>3, <1>4, <1>5 DEF Kept

LEMMA RestKeeps ==
  ASSUME Kept, Found(menustate, menusub), Rest
  PROVE  (Kept /\ Found(menustate, menusub))'
  <1>1. /\ UNCHANGED <<settings, temps, fs, asked, file, hdf, saved, cpu, ErrorMask,
                       parentstate, menusub, menumask>>
        /\ \/ menustate' = "ERROR" /\ agreed' = agreed \cup {config.memory}
           \/ UNCHANGED <<menustate, agreed>>
    BY DEF Rest, ShowError, picks, machine, errors, ui
  <1>2. UNCHANGED <<config, untold, t_memory, t_hardfile, t_enable_ide, t_memory_next>> /\ NoCard' = NoCard
    BY <1>1 DEF settings, temps, NoCard
  <1>3. Kept'
    BY <1>1, <1>2 DEF Kept, TypeOK, SettingsOK, UnitsOK, PagesOK, Told, CopyAgreed, Snapshot,
                      LeftBehind, HardfileInUse
  <1>4. Found(menustate, menusub)'
    BY <1>1, <1>2 DEF Found, AskedAt, CardAt, DrawnAt, SelectorAt, RomPages
  <1> QED
    BY <1>3, <1>4

LEMMA HandleFpgaKeeps ==
  ASSUME Kept, Found(menustate, menusub), HandleFpga
  PROVE  (Kept /\ Found(menustate, menusub))'
  <1>1. /\ UNCHANGED <<config, untold, t_memory, t_hardfile, t_enable_ide, t_memory_next, fs, asked, file,
                       hdf, saved, cpu, parentstate, menusub, menumask, menustate, agreed>>
        /\ NoCard' = NoCard
    BY DEF HandleFpga, settings, temps, picks, ui, NoCard
  <1>2. Kept'
    BY <1>1 DEF Kept, TypeOK, SettingsOK, UnitsOK, PagesOK, Told, CopyAgreed, Snapshot,
                LeftBehind, HardfileInUse
  <1>3. Found(menustate, menusub)'
    BY <1>1 DEF Found, AskedAt, CardAt, DrawnAt, SelectorAt, RomPages
  <1> QED
    BY <1>2, <1>3

LEMMA HandleUIKeeps ==
  ASSUME Kept, Found(menustate, menusub), HandleUI
  PROVE  (Kept /\ Found(menustate, menusub))'
  <1>1. CASE \E e \in Events : LET n == Navigate(menustate, e) IN Page(n.state, n.row, e) /\ Agree
    <2>1. PICK e \in Events :
             Page(Navigate(menustate, e).state, Navigate(menustate, e).row, e) /\ Agree
      BY <1>1
    <2>2. Found(Navigate(menustate, e).state, Navigate(menustate, e).row)
      BY FoundThere
    <2> QED
      BY <2>1, <2>2, PageKeeps
  <1> QED
    BY <1>1, ChordKeeps, DebugChordKeeps DEF HandleUI

\* Before the first boot nothing is open, told or asked.
THEOREM InitiallyKept == Init => IInv
  <1> SUFFICES ASSUME Init PROVE IInv
    OBVIOUS
  <1> USE DEF Init
  <1>1. config \in Config /\ t_hardfile \in [Units -> Hardfile]
    BY DefaultLoaded DEF Config, Hardfile, Names, HDF_DISABLED
  <1>2. saved \in [0..4 -> Config \cup {None}]
    BY MenuAssumption
  <1>3. hdf \in [Units -> [enabled : Nat, name : Names]]
    BY DEF Names, HDF_DISABLED
  <1>4. TypeOK
    BY <1>1, <1>2, <1>3 DEF TypeOK, SettingsOK, UnitsOK, PagesOK, Drawn, Exits
  <1>5. Told /\ CopyAgreed /\ LeftBehind
    BY DEF Told, NoCard, CopyAgreed, Snapshot, LeftBehind, RomPages
  <1>6. HardfileInUse
    BY DEF HardfileInUse, Present, IsFile, HDF_DISABLED, HDF_FILE, HDF_SYNTHRDB, HDF_CARD, HDF_CARDPART0
  <1>7. Found(menustate, menusub) /\ Booting
    BY DEF Found, AskedAt, CardAt, DrawnAt, SelectorAt, RomPages, Booting
  <1> QED
    BY <1>4, <1>5, <1>6, <1>7 DEF IInv, Kept

\* What is kept is kept by every call of HandleUI, whichever page it runs, by
\* the chords, by the boots and by the errors of the main loop.
THEOREM Inductive == IInv /\ [Next]_vars => IInv'
  <1> SUFFICES ASSUME IInv, [Next]_vars PROVE IInv'
    OBVIOUS
  <1> USE DEF IInv
  <1>1. CASE Boot
    BY <1>1, BootKeeps DEF Boot, Booting
  <1>2. CASE HandleFpga
    BY <1>2, HandleFpgaKeeps DEF HandleFpga, Booting
  <1>3. CASE HandleUI
    BY <1>3, HandleUIKeeps DEF HandleUI, Booting
  <1>4. CASE Rest
    BY <1>4, RestKeeps DEF Rest, Booting
  <1>5. CASE UNCHANGED vars
    <2>1. /\ UNCHANGED <<config, untold, t_memory, t_hardfile, t_enable_ide, t_memory_next, fs, asked, file,
                         hdf, saved, cpu, parentstate, menusub, menumask, menustate, agreed, pc>>
          /\ NoCard' = NoCard
      BY <1>5 DEF vars, settings, temps, picks, ui, machine, errors, NoCard
    <2>2. Kept'
      BY <2>1 DEF Kept, TypeOK, SettingsOK, UnitsOK, PagesOK, Told, CopyAgreed, Snapshot,
                  LeftBehind, HardfileInUse
    <2>3. Found(menustate, menusub)' /\ Booting'
      BY <2>1 DEF Found, AskedAt, CardAt, DrawnAt, SelectorAt, RomPages, Booting
    <2> QED
      BY <2>2, <2>3
  <1> QED
    BY <1>1, <1>2, <1>3, <1>4, <1>5 DEF Next

\* So it holds for ever.
THEOREM Invariance == Spec => []IInv
  BY InitiallyKept, Inductive, PTL DEF Spec

-----------------------------------------------------------------------------
\* Once the Amiga runs, the core has every setting but the volume, the drive
\* sounds and the scanlines of interlaced pictures, for every set of fields:
\* the call that a row or a chord makes hands over the fields it has just
\* written, and ColdBoot and LoadConfiguration hand over all the others.  A new
\* Kickstart (menu.c:2379) starts the Amiga without the hardfiles' settings,
\* which is right because its page is never reached before a boot has got past
\* the card.
THEOREM SettingsAlwaysReachCore == Spec => []SettingsReachCore
  <1>1. IInv => SettingsReachCore
    BY DEF IInv, Kept, Told, NoCard, SettingsReachCore
  <1> QED
    BY <1>1, Invariance, PTL

\* Nobody leaves the Memory page with other memory than agreed unasked, not
\* even by a cursor key that redraws a page left long ago.
THEOREM MemoryAlwaysAsked == Spec => []MemoryAsked
  <1>1. IInv => MemoryAsked
    BY DEF IInv, Found, AskedAt, MemoryAsked, Selecting
  <1> QED
    BY <1>1, Invariance, PTL

\* Whatever was edited, saved, loaded or booted, a unit whose image is on the
\* card is open on it, unless the last boot found no card.
THEOREM HardfileAlwaysInUse == Spec => []HardfileInUse
  <1>1. IInv => HardfileInUse
    BY DEF IInv, Kept
  <1> QED
    BY <1>1, Invariance, PTL

-----------------------------------------------------------------------------
\* Only FileSelected puts a disk into a drive.
LEMMA DisksStay ==
  ASSUME NEW s, NEW sub, NEW e, Page(s, sub, e), ~FileSelected(s, sub, e)
  PROVE  df' \subseteq df
  <1> USE DEF machine, Quiet, DrawPage, Draw
  <1>1. CASE NoMenu(s, sub, e) \/ FloppyMenu(s, sub, e) \/ SettingsMenu(s, sub, e) \/ MiscMenu(s, sub, e)
    BY <1>1 DEF NoMenu, FloppyMenu, SettingsMenu, MiscMenu
  <1>2. CASE MainMenu(s, sub, e)
    BY <1>2 DEF MainMenu, SelectFile, SetDrives
  <1>3. CASE AboutPages(s, sub, e) \/ LoadConfig(s, sub, e) \/ FileSelector(s, sub, e)
    BY <1>3 DEF AboutPages, LoadConfig, FileSelector
  <1>4. CASE Confirm(s, sub, e) \/ SaveConfig(s, sub, e) \/ ChipsetPage(s, sub, e) \/ ChipsetKeys(s, sub, e)
    BY <1>4 DEF Confirm, SaveConfig, ChipsetPage, ChipsetKeys, WaitFor
  <1>5. CASE MemoryPage(s, sub, e) \/ MemoryKeys(s, sub, e) \/ MemoryChanged(s, sub, e)
    BY <1>5 DEF MemoryPage, MemoryKeys, LeaveMemory, SelectFile, MemoryChanged
  <1>6. CASE \/ HardfilePage(s, sub, e) \/ HardfileKeys(s, sub, e) \/ HardfileSelected(s, sub, e)
             \/ HardfileExit(s, sub, e) \/ HardfileChanged(s, sub, e) \/ SynthRdb(s, sub, e)
    BY <1>6 DEF HardfilePage, HardfileKeys, SelectFile, HardfileSelected, HardfileExit, HardfileChanged, SynthRdb
  <1>7. CASE VideoPage(s, sub, e) \/ VideoPosPage(s, sub, e) \/ HdmiPage(s, sub, e) \/ AudioPage(s, sub, e)
    BY <1>7 DEF VideoPage, VideoPosPage, HdmiPage, AudioPage, WaitFor
  <1>8. CASE RomFile(s, sub, e) \/ ErrorPage(s, sub, e) \/ Info(s, sub, e)
    BY <1>8 DEF RomFile, ErrorPage, Info
  <1> QED
    BY <1>1, <1>2, <1>3, <1>4, <1>5, <1>6, <1>7, <1>8 DEF Page

\* In HARDFILE_SELECTED only HardfileSelected runs.
LEMMA OnlyHardfileSelected ==
  ASSUME NEW sub, NEW e, Page("HARDFILE_SELECTED", sub, e)
  PROVE  HardfileSelected("HARDFILE_SELECTED", sub, e)
  BY DEF Page, NoMenu, MainMenu, FloppyMenu, FileSelected, SettingsMenu, MiscMenu, AboutPages, LoadConfig,
         FileSelector, Confirm, SaveConfig, ChipsetPage, ChipsetKeys, MemoryPage, MemoryKeys,
         MemoryChanged, HardfilePage, HardfileKeys, HardfileExit, HardfileChanged, SynthRdb, VideoPage,
         VideoPosPage, HdmiPage, AudioPage, RomFile, ErrorPage, Info

LEMMA PagePuts ==
  ASSUME IInv, NEW e, Page(Navigate(menustate, e).state, Navigate(menustate, e).row, e)
  PROVE  PutWhereAsked
  <1> DEFINE s == Navigate(menustate, e).state
             row == Navigate(menustate, e).row
  <1>1. Found(s, row)
    BY FoundThere DEF IInv
  <1>2. ASSUME NEW d \in df' \ df PROVE d = asked
    <2>1. FileSelected(s, row, e)
      BY <1>2, DisksStay
    <2> HIDE DEF s, row
    <2> QED
      BY <1>1, <1>2, <2>1 DEF FileSelected, InsertFloppy, Found, SelectorAt
  <1>3. ASSUME menustate = "HARDFILE_SELECTED", NEW u \in Units, t_hardfile'[u] # t_hardfile[u]
        PROVE  asked = 2 * u + 2
    <2>1. menumask = {} /\ menusub = asked
      BY <1>3 DEF IInv, Found, SelectorAt
    <2>2. s = "HARDFILE_SELECTED" /\ row = asked
      BY <1>3, <2>1 DEF Navigate, Moves, Below, Above
    <2>3. HardfileSelected("HARDFILE_SELECTED", asked, e)
      BY <2>2, OnlyHardfileSelected
    <2>4. t_hardfile \in [Units -> Hardfile]
      BY DEF IInv, Kept, TypeOK, UnitsOK
    <2> DEFINE v == (asked - 2) \div 2
    <2>5. /\ asked \in {2, 4} /\ v \in Units
          /\ \E h : t_hardfile' = [t_hardfile EXCEPT ![v] = h]
      <3>1. asked \in {2, 4}
        BY <2>3 DEF HardfileSelected
      <3>2. \E h : t_hardfile' = [t_hardfile EXCEPT ![v] = h]
        BY <2>3 DEF HardfileSelected
      <3>3. v \in Units
        BY <3>1 DEF Units
      <3> HIDE DEF v
      <3> QED
        BY <3>1, <3>2, <3>3
    <2>6. u = v
      <3> HIDE DEF v
      <3> QED
        BY <1>3, <2>4, <2>5
    <2> QED
      BY <2>5, <2>6 DEF Units
  <1> QED
    BY <1>2, <1>3 DEF PutWhereAsked

\* A disk goes into the drive, and an image to the unit, on whose row the file
\* selector was called, whatever rows the cursor was on since.
THEOREM InsertsAlwaysWhereAsked == Spec => InsertsWhereAsked
  <1>1. ASSUME IInv, Next PROVE PutWhereAsked
    <2>1. CASE \E e \in Events : LET n == Navigate(menustate, e) IN Page(n.state, n.row, e) /\ Agree
      BY <1>1, <2>1, PagePuts
    <2>2. CASE Boot \/ HandleFpga \/ Rest \/ \E k \in Chords : Chord(k)
      BY <2>2 DEF Boot, HandleFpga, Rest, Chord, temps, machine, PutWhereAsked
    <2>3. CASE DebugChord
      BY <2>3 DEF DebugChord, machine, PutWhereAsked
    <2> QED
      BY <1>1, <2>1, <2>2, <2>3 DEF Next, HandleUI
  <1>2. IInv /\ [Next]_vars => [PutWhereAsked]_vars
    BY <1>1
  <1> QED
    BY <1>2, Invariance, PTL DEF Spec, InsertsWhereAsked
=============================================================================
