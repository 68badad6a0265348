-------------------------------- MODULE Menu --------------------------------
(***************************************************************************)
(* The on-screen menu (HandleUI of menu.c) and the loop of main.c around   *)
(* it.  HandleUI is called for ever; each call takes at most one key event *)
(* and executes one menustate.  A page is two states, one that draws it    *)
(* and one that waits for keys.  What a page shows is left out; which rows *)
(* can be reached, where a key leads, and what it does to the settings, to *)
(* the drives and to the machine is all here.                              *)
(*                                                                         *)
(* A setting whose value no decision depends on is its field's name:       *)
(* untold holds the fields of config written since a call last handed them *)
(* to the core.  Each row and chord has the field it writes and the call   *)
(* it makes; Tells says which fields a call hands over.                    *)
(***************************************************************************)
EXTENDS Integers, FiniteSetsExt

CONSTANTS Files,        \* hardfile images on the card
          Kind,           \* what GetHDFFileType finds in each of them
          MAX_DRIVES,     \* highest floppy drive (3)
          partitioncount, \* partitions of the card
          Saved,          \* configurations the slots hold at power-up: slot -> config or None
          SaveSlots,      \* slots the user saves to
          FIXED_040,      \* CORE_CPU_FIXED_040()
          Fields,         \* fields of config looked at, see AllFields
          MaxEdits,       \* settings the user changes
          MaxFaults,      \* errors and failed boots
          Chords,         \* "turbo", "volume", "autofire", "refresh", "debug"
          Troubles,       \* what may fail: "fdd", "nocard", "badcard", "norom", "fallback", "save",
                          \* and "nofiles", an empty directory
          None

\* "laced" is the scanlines of interlaced pictures, bits 2 and 3 of config.scanlines.
AllFields == {"cpu", "memory", "chipset", "drives", "speed", "filter", "scanlines", "laced", "videopos",
              "hdmi_clkdelay", "misc", "autofire", "volume", "enable_ide", "hardfile", "drivesounds"}

\* The two units of the IDE; what a configuration says of one and of the rest.
Units == {0, 1}
Names == Files \cup {"HARDFILE", None}
            \cup {Saved[i].hardfile[u].name : i \in {j \in DOMAIN Saved : Saved[j] # None}, u \in Units}
Hardfile == [enabled : Nat, name : Names, present : BOOLEAN]
Config == [drives : Nat, memory : {0, 1}, enable_ide : BOOLEAN, hardfile : [Units -> Hardfile]]

ASSUME MenuAssumption ==
    /\ None \notin Nat
    /\ Kind \in [Files -> {"RDB", "DOS", "UNKNOWN", "NOTFOUND"}]
    /\ MAX_DRIVES \in 0..3 /\ partitioncount \in 0..4
    /\ Saved \in [0..4 -> Config \cup {None}] /\ SaveSlots \subseteq 0..4
    /\ FIXED_040 \in BOOLEAN /\ Fields \subseteq AllFields /\ MaxEdits \in Nat /\ MaxFaults \in Nat
    /\ Chords \subseteq {"turbo", "volume", "autofire", "refresh", "debug"}
    /\ Troubles \subseteq {"fdd", "nocard", "badcard", "norom", "fallback", "save", "nofiles"}

VARIABLES menustate, menusub, menumask, parentstate, parentsub,
          config, untold,   \* the settings; the fields the core may not know
          t_hardfile, t_enable_ide, t_memory,
          t_memory_next,    \* <<t_memory_next, t_memory_nextsub>>
          fs,               \* fs_MenuSelect, fs_MenuCancel
          asked,            \* the row from which SelectFile was called
          file,             \* the file selected
          confirmfunc,
          df,               \* drives with a disk in them
          drives,           \* the highest drive Paula answers for
          hdf,              \* what OpenHardfile left open for each unit
          saved,            \* the configuration files
          cpu,              \* "held" or "runs"
          ErrorMask, ErrorFatal,
          pc, dialog,       \* main(): where it is, and whether inside while(ErrorMask)
          edits, faults,
          agreed            \* memory settings the Amiga was reset with, or the user asked about,
                            \* since the menu last came up

ui == <<menustate, menusub, menumask, parentstate, parentsub>>
settings == <<config, untold>>
temps == <<t_hardfile, t_enable_ide, t_memory, t_memory_next>>
picks == <<fs, asked, file, confirmfunc>>
errors == <<ErrorMask, ErrorFatal>>
machine == <<df, drives, hdf, saved, cpu, errors>>
bounds == <<edits, faults>>
vars == <<ui, settings, temps, picks, machine, pc, dialog, bounds, agreed>>

-----------------------------------------------------------------------------
\* Settings.

HDF_DISABLED == 0
HDF_FILE == 1
HDF_CARD == 2
HDF_CARDPART0 == 3
HDF_SYNTHRDB == 128
IsFile(h) == h.enabled \in {HDF_FILE, HDF_FILE + HDF_SYNTHRDB}

\* The next type of a hardfile on its row of the Harddisks page.
NextType(t) == IF t = HDF_FILE THEN HDF_FILE + HDF_SYNTHRDB
               ELSE IF t = HDF_FILE + HDF_SYNTHRDB THEN HDF_FILE + 1
               ELSE (t + 1) % (HDF_CARDPART0 + partitioncount)

\* LoadConfiguration: what the slot holds, or the defaults.
Default == [drives |-> Min({1, MAX_DRIVES}), memory |-> 0, enable_ide |-> FALSE,
            hardfile |-> [u \in Units |->
                [enabled |-> IF u = 0 THEN HDF_FILE ELSE HDF_CARD,
                 name |-> "HARDFILE", present |-> FALSE]]]
LoadConfiguration(slot) == IF saved[slot] = None THEN Default ELSE saved[slot]

\* OpenHardfile(u).
Present(h) == \/ IsFile(h) /\ h.name \in Files
              \/ h.enabled \in HDF_CARD..HDF_CARDPART0 + 3
Open(h) == [enabled |-> h.enabled, name |-> IF IsFile(h) THEN h.name ELSE None]

\* Where nothing is opened: what stays open, and the errors.  A bad directory
\* and a card that cannot be read leave the old file, one that is not found
\* is cleared.
Missed(h, old, card) ==
    LET kept == [enabled |-> h.enabled, name |-> old.name]
        cleared == [enabled |-> h.enabled, name |-> None]
    IN  IF ~IsFile(h) THEN {<<old, {}>>}
        ELSE IF h.name = None THEN {<<kept, {}>>}
        ELSE {<<kept, {"hdd"}>>, <<cleared, {"filesystem"}>>}
                \cup (IF card THEN {} ELSE {<<kept, {"sd"}>>, <<kept, {"sd", "hdd"}>>})
Opens(h, card) == Present(h) /\ (card \/ ~IsFile(h))
Opened(h, old, card) == IF Opens(h, card) THEN {<<Open(h), {}>>} ELSE Missed(h, old, card)
HardfileErrors == {"filesystem", "hdd", "sd"}
OpenHardfile(c, us, card, missing) ==
    \E ends \in [Units -> UNION {Opened(c.hardfile[u], hdf[u], card) \cup {<<hdf[u], {}>>} : u \in Units}] :
       /\ \A u \in Units : ends[u] \in (IF u \in us THEN Opened(c.hardfile[u], hdf[u], card)
                                         ELSE {<<hdf[u], {}>>})
       /\ config' = [c EXCEPT !.hardfile = [u \in Units |->
                       IF u \in us THEN [c.hardfile[u] EXCEPT !.present = Opens(c.hardfile[u], card)]
                       ELSE c.hardfile[u]]]
       /\ hdf' = [u \in Units |-> ends[u][1]]
       /\ missing = UNION {ends[u][2] : u \in Units}

\* The fields each call hands to the core.  ConfigVideo takes all of
\* config.scanlines and sends its lower two bits.
Tells == [ConfigCPU |-> {"cpu"}, ConfigMemory |-> {"memory"}, ConfigChipset |-> {"chipset"},
          ConfigFloppy |-> {"drives", "speed"}, ConfigVideo |-> {"filter", "scanlines"},
          ConfigVideoPos |-> {"videopos"}, adv7511_set_clkdelay |-> {"hdmi_clkdelay"},
          ConfigMisc |-> {"misc"}, ConfigAutofire |-> {"autofire"}, ConfigAudio |-> {"volume"},
          ConfigIDE |-> {"enable_ide", "hardfile"}, drivesounds_enable |-> {"drivesounds"}]

\* The fields are written, then the call is made.
Set(fields, call) == untold' = (untold \cup (fields \cap Fields)) \ Tells[call]

\* The calls of ApplyConfiguration, and what they hand over.
Calls(applydrives) ==
    {"ConfigCPU", "ConfigMemory", "ConfigChipset", "ConfigFloppy", "ConfigVideo", "ConfigVideoPos",
     "adv7511_set_clkdelay", "ConfigMisc", "ConfigAutofire"}
        \cup (IF applydrives THEN {"ConfigIDE"} ELSE {})
Applied(applydrives) == UNION {Tells[call] : call \in Calls(applydrives)}

ClearError(e) == ErrorMask' = ErrorMask \ {e} /\ ErrorFatal' = FALSE

\* The Kickstart is in the configured file ("good"), only in KICK.ROM
\* ("fallback"), or nowhere.  A first failure stays in ErrorMask.
Roms == {"good"} \cup (Troubles \cap {"fallback", "norom"})
UploadKickstart(rom, mask) ==
    /\ \/ rom = "good" /\ ErrorMask' = mask \ {"filesystem"}
       \/ rom = "fallback" /\ ErrorMask' = (mask \ {"filesystem"}) \cup {"rom"}
       \/ rom = "norom" /\ ErrorMask' = mask \cup {"filesystem", "rom"}
    /\ ErrorFatal' = (rom = "norom")
Fault(x) == faults' = (IF x \in Troubles THEN faults + 1 ELSE faults) /\ faults' <= MaxFaults

\* ApplyConfiguration(1, applydrives) of the settings c.
ApplyConfiguration(c, news, applydrives, rom) ==
    /\ \/ applydrives /\ \E missing \in SUBSET HardfileErrors :
                             OpenHardfile(c, Units, TRUE, missing) /\ UploadKickstart(rom, ErrorMask \cup missing)
       \/ ~applydrives /\ config' = c /\ UNCHANGED hdf /\ UploadKickstart(rom, ErrorMask)
    /\ untold' = (untold \cup news) \ Applied(applydrives)
    /\ Fault(rom)

\* ColdBoot(), and what the card lets it do: none answers; it cannot be read or
\* holds no volume; or it is read.
ColdBoot ==
    \/ /\ Fault("nocard") /\ "nocard" \in Troubles /\ cpu' = "held"
       /\ ErrorMask' = {} /\ ErrorFatal' = FALSE
       /\ UNCHANGED <<settings, hdf, drives>>
    \/ /\ Fault("badcard") /\ "badcard" \in Troubles /\ cpu' = "held"
       /\ ErrorMask' \in {{"sd"}, {"filesystem"}} /\ ErrorFatal' = TRUE
       /\ UNCHANGED <<settings, hdf, drives>>
    \/ \E rom \in Roms, missing \in SUBSET HardfileErrors :
       /\ OpenHardfile(LoadConfiguration(0), Units, TRUE, missing)
       /\ untold' = Fields \ (Applied(TRUE) \cup Tells.drivesounds_enable)
       /\ UploadKickstart(rom, missing) /\ Fault(rom)
       /\ cpu' = (IF rom = "norom" THEN "held" ELSE "runs")
       /\ drives' = LoadConfiguration(0).drives

\* The last ColdBoot got no further than the card.
NoCard == cpu = "held" /\ "rom" \notin ErrorMask

\* What reading a directory does to the errors.
ReadCard == \/ UNCHANGED errors
            \/ NoCard /\ ErrorMask' = ErrorMask \cup {"sd"} /\ ErrorFatal' = TRUE

\* OsdReset(): the Amiga restarts; Paula takes over the number of drives.
OsdReset == drives' = config.drives

-----------------------------------------------------------------------------
\* Moving about.  An operator of a page gets the state s and the row sub after
\* the key event has been looked at, and the key e left for the page.

Goto(state, row) == /\ menustate' = state /\ menusub' = row
                    /\ UNCHANGED <<menumask, parentstate, parentsub>>
Stay(s, sub) == Goto(s, sub)
Edit == edits < MaxEdits /\ edits' = edits + 1

Quiet == UNCHANGED <<settings, temps, picks, machine, bounds>>

\* Drawing a page.  Values that are written again before any page reads them
\* are forgotten.
ForgetUnless(live, v, forgotten) == IF live THEN v ELSE forgotten
ForgetPages(state) ==
    /\ parentsub' = ForgetUnless(state \in {"FLOPPY1", "CONFIRM1", "ABOUT1", "SUPPORTERS1"}, parentsub, 0)
    /\ LET live == state \in {"HARDFILE1", "HARDFILE_CHANGED1", "SYNTHRDB1", "SYNTHRDB2_1"} IN
       /\ t_hardfile' = ForgetUnless(live, t_hardfile, Default.hardfile)
       /\ t_enable_ide' = ForgetUnless(live, t_enable_ide, FALSE)
    /\ t_memory_next' = ForgetUnless(state = "MEMORY_CHANGED1", t_memory_next, <<"NONE1", 0>>)
    /\ confirmfunc' = ForgetUnless(state = "CONFIRM1", confirmfunc, "OsdReset")
    /\ fs' = [select |-> "NONE1", cancel |-> "NONE1"] /\ asked' = 0 /\ file' = None
Forget == ForgetPages("NONE1") /\ parentstate' = "NONE1" /\ t_memory' = None
Draw(state, row, rows, next) ==
    /\ menustate' = next /\ menusub' = row /\ menumask' = rows /\ parentstate' = state
    /\ ForgetPages(state)
    /\ UNCHANGED <<settings, df, drives, hdf, saved, cpu, bounds>>
DrawPage(state, row, rows, next) == Draw(state, row, rows, next) /\ UNCHANGED <<t_memory, errors>>

\* Standardised up and down: the next row of menumask, and the page is drawn anew.
Below == {r \in menumask : r > menusub}
Above == {r \in menumask : r < menusub}
Moves(e) == (e = "down" /\ Below # {}) \/ (e = "up" /\ Above # {})

\* Slip: the cursor moves, and the state goes on.
Navigate_Onward(s, e) ==
    [state |-> s, row |-> IF ~Moves(e) THEN menusub ELSE IF e = "down" THEN Min(Below) ELSE Max(Above)]
Navigate(s, e) ==
    IF Moves(e) THEN [state |-> parentstate,
                      row |-> IF e = "down" THEN Min(Below) ELSE Max(Above)]
    ELSE [state |-> s, row |-> menusub]

-----------------------------------------------------------------------------
\* The pages.

NoMenu(s, sub, e) ==
    /\ UNCHANGED <<settings, machine, bounds>>
    /\ \/ /\ s = "NONE1"
          /\ menustate' = "NONE2" /\ menusub' = sub /\ menumask' = {} /\ Forget
       \/ s = "NONE2" /\ e = "menu" /\ Goto("MAIN1", 0) /\ UNCHANGED <<temps, picks>>
       \/ s = "NONE2" /\ e # "menu" /\ Stay(s, sub) /\ UNCHANGED <<temps, picks>>

\* For another kind of file the directory is read anew.
SelectFile(sub, select, cancel) ==
    /\ Goto("FILE_SELECT1", sub)
    /\ fs' = [select |-> select, cancel |-> cancel] /\ asked' = sub
    /\ UNCHANGED <<file, confirmfunc, df, drives, hdf, saved, cpu>> /\ ReadCard

MainRows == {4, 5, 6} \cup {i \in 0..3 : i <= drives /\ i # config.drives + 1}

SetDrives(n) == config' = [config EXCEPT !.drives = n] /\ Set({"drives"}, "ConfigFloppy")

MainMenu(s, sub, e) ==
    \/ s = "MAIN1" /\ DrawPage(s, sub, MainRows, "MAIN2")
    \/ s = "MAIN2" /\ e = "menu" /\ Goto("NONE1", sub) /\ Quiet
    \/ /\ s = "MAIN2" /\ Goto("MAIN1", sub) /\ Edit
       /\ \/ e = "plus" /\ config.drives < MAX_DRIVES /\ SetDrives(config.drives + 1)
          \/ e = "minus" /\ config.drives > 0 /\ SetDrives(config.drives - 1)
       /\ UNCHANGED <<temps, picks, machine, faults>>
    \/ /\ s = "MAIN2" /\ e = "select" /\ sub < 4
       /\ \/ /\ sub \in df /\ df' = df \ {sub} /\ Goto("MAIN1", sub)
             /\ UNCHANGED <<picks, drives, hdf, saved, cpu, errors, edits>>
          \/ sub \notin df /\ SelectFile(sub, "FILE_SELECTED", "MAIN1") /\ Edit
       /\ UNCHANGED <<settings, temps, faults>>
    \/ /\ s = "MAIN2" /\ e = "select" /\ sub = 4
       /\ menustate' = "FLOPPY1" /\ menusub' = 0 /\ parentsub' = 4
       /\ UNCHANGED <<menumask, parentstate>> /\ Quiet
    \/ /\ s = "MAIN2" /\ e = "select" /\ sub = 5
       /\ t_hardfile' = config.hardfile /\ t_enable_ide' = config.enable_ide
       /\ Goto("HARDFILE1", 0)
       /\ UNCHANGED <<settings, t_memory, t_memory_next, picks, machine, bounds>>
    \/ s = "MAIN2" /\ e = "select" /\ sub = 6 /\ Goto("NONE1", sub) /\ Quiet
    \/ /\ s = "MAIN2" /\ e = "back" /\ Goto("MAIN1", sub)
       /\ df' = {i \in df : i > drives}
       /\ UNCHANGED <<settings, temps, picks, drives, hdf, saved, cpu, errors, bounds>>
    \/ s = "MAIN2" /\ e = "right" /\ Goto("MAIN2_1", 0) /\ Quiet
    \/ s = "MAIN2" /\ e \in {"none", "up", "down", "left", "other"} /\ Stay(s, sub) /\ Quiet

\* Without the sound file on the card row 2 cannot be reached: the rows with it are taken.
FloppyMenu(s, sub, e) ==
    \/ s = "FLOPPY1" /\ DrawPage(s, sub, 0..3, "FLOPPY2")
    \/ s = "FLOPPY2" /\ e = "menu" /\ Goto("NONE1", sub) /\ Quiet
    \/ /\ s = "FLOPPY2" /\ e = "select" /\ sub = 0 /\ Goto("FLOPPY1", sub) /\ Edit
       /\ SetDrives((config.drives + 1) % (MAX_DRIVES + 1))
       /\ UNCHANGED <<temps, picks, machine, faults>>
    \/ /\ s = "FLOPPY2" /\ e = "select" /\ sub \in {1, 2} /\ Goto("FLOPPY1", sub)
       /\ \/ sub = 1 /\ Set({"speed"}, "ConfigFloppy")
          \/ sub = 2 /\ Set({"drivesounds"}, "drivesounds_enable")
       /\ UNCHANGED <<config, temps, picks, machine, bounds>>
    \/ s = "FLOPPY2" /\ e = "select" /\ sub = 3 /\ Goto("MAIN1", parentsub) /\ Quiet
    \/ s = "FLOPPY2" /\ (e \notin {"menu", "select"} \/ (e = "select" /\ sub > 3))
       /\ Stay(s, sub) /\ Quiet

InsertFloppy(d) == df' = df \cup {d}

FileSelected(s, sub, e) ==
    /\ s = "FILE_SELECTED"
    /\ InsertFloppy(sub)
    /\ Goto("MAIN1", IF sub + 1 > drives THEN 6 ELSE sub + 1)
    /\ file' = None
    /\ UNCHANGED <<settings, temps, fs, asked, confirmfunc, drives, hdf, saved, cpu, errors, bounds>>

\* The row that says exit does nothing here.
SettingsMenu(s, sub, e) ==
    \/ s = "MAIN2_1" /\ DrawPage(s, sub, 0..6, "MAIN2_2")
    \/ s = "MAIN2_2" /\ e = "menu" /\ Goto("NONE1", sub) /\ Quiet
    \/ /\ s = "MAIN2_2" /\ e = "select" /\ sub \in 0..5 /\ Quiet
       /\ Goto(<<"LOADCONFIG_1", "SAVECONFIG_1", "CHIPSET1", "MEMORY1", "VIDEO1", "AUDIO1">>[sub + 1], 0)
    \/ s = "MAIN2_2" /\ e = "left" /\ Goto("MAIN1", 0) /\ Quiet
    \/ s = "MAIN2_2" /\ e = "right" /\ Goto("MISC1", 0) /\ Quiet
    \/ s = "MAIN2_2" /\ (e \notin {"menu", "select", "left", "right"} \/ (e = "select" /\ sub \notin 0..5))
       /\ Stay(s, sub) /\ Quiet

\* Row 2, Return to Chameleon, is not on this board.
MiscMenu(s, sub, e) ==
    \/ s = "MISC1" /\ DrawPage(s, sub, {0, 1, 3, 4, 5}, "MISC2")
    \/ s = "MISC2" /\ e = "menu" /\ Goto("NONE1", 0) /\ Quiet
    \/ s = "MISC2" /\ e = "left" /\ Goto("MAIN2_1", 0) /\ Quiet
    \/ /\ s = "MISC2" /\ e = "select" /\ sub \in {0, 1}
       /\ confirmfunc' = (IF sub = 0 THEN "OsdReset" ELSE "ColdBoot")
       /\ menustate' = "CONFIRM1" /\ menusub' = 0 /\ parentsub' = sub
       /\ UNCHANGED <<menumask, parentstate, settings, temps, fs, asked, file, machine, bounds>>
    \/ /\ s = "MISC2" /\ e = "select" /\ sub > 2
       /\ menustate' = (IF sub = 3 THEN "ABOUT1" ELSE IF sub = 4 THEN "SUPPORTERS1" ELSE "NONE1")
       /\ menusub' = (IF sub \in {3, 4} THEN 0 ELSE sub) /\ parentsub' = sub
       /\ UNCHANGED <<menumask, parentstate>> /\ Quiet
    \/ s = "MISC2" /\ e \notin {"menu", "left", "select"} /\ Stay(s, sub) /\ Quiet

AboutPages(s, sub, e) ==
    \/ s = "ABOUT1" /\ DrawPage(s, sub, {0}, "ABOUT2")
    \/ s = "SUPPORTERS1" /\ DrawPage(s, sub, {0}, "SUPPORTERS2")
    \/ s \in {"ABOUT2", "SUPPORTERS2"} /\ e \in {"select", "menu"} /\ Goto("MISC1", parentsub) /\ Quiet
    \/ s \in {"ABOUT2", "SUPPORTERS2"} /\ e \notin {"select", "menu"} /\ Stay(s, sub) /\ Quiet

Exist == {i \in 0..4 : saved[i] # None /\ ~NoCard}

\* Looking for the files clears a filesystem error when one is missing; one
\* about the card itself stays, though no longer fatal.
SearchedConfigurations ==
    \/ Exist = 0..4 /\ UNCHANGED errors
    \/ Exist # 0..4 /\ ClearError("filesystem")
    \/ NoCard /\ ErrorMask' = (ErrorMask \ {"filesystem"}) \cup {"sd"} /\ ErrorFatal' = FALSE
LoadConfig(s, sub, e) ==
    \/ /\ s = "LOADCONFIG_1" /\ UNCHANGED t_memory
       /\ \/ /\ parentstate # s
             /\ Draw(s, IF Exist = {} THEN 5 ELSE sub, Exist \cup {5}, "LOADCONFIG_2")
             /\ SearchedConfigurations
          \/ /\ parentstate = s
             /\ Draw(s, sub, menumask, "LOADCONFIG_2") /\ UNCHANGED errors
    \/ /\ s = "LOADCONFIG_2" /\ e = "select" /\ sub \in 0..4
       /\ \E rom \in Roms : ApplyConfiguration(LoadConfiguration(sub), Fields, TRUE, rom)
       /\ cpu' = "runs" /\ drives' = LoadConfiguration(sub).drives
       /\ Goto("NONE1", sub)
       /\ UNCHANGED <<temps, picks, df, saved, edits>>
    \/ /\ s = "LOADCONFIG_2" /\ (e = "menu" \/ (e = "select" /\ sub \notin 0..4))
       /\ Goto("MAIN2_1", 0) /\ Quiet
    \/ s = "LOADCONFIG_2" /\ e \notin {"select", "menu"} /\ Stay(s, sub) /\ Quiet

\* The directory window is Directory's: here a key may choose a file or not.
\* A window that was filled before a boot lost the card is taken to be empty.
FileSelector(s, sub, e) ==
    /\ UNCHANGED <<settings, temps, fs, asked, confirmfunc, df, drives, hdf, saved, cpu, edits>>
    /\ \/ s = "FILE_SELECT1" /\ Goto("FILE_SELECT2", sub) /\ UNCHANGED <<file, errors, faults>>
       \/ /\ s = "FILE_SELECT2" /\ e \in {"up", "down", "back", "other", "select"}
          /\ menustate' = "FILE_SELECT1" /\ ReadCard
          /\ menusub' = sub /\ menumask' = {} /\ UNCHANGED <<parentstate, parentsub, file, faults>>
       \/ /\ s = "FILE_SELECT2" /\ menusub' = sub /\ menumask' = {}
          /\ UNCHANGED <<parentstate, parentsub, errors>>
          /\ \/ /\ e = "select" /\ ~NoCard /\ menustate' = fs.select /\ UNCHANGED faults
                /\ file' \in (IF fs.select = "HARDFILE_SELECTED" THEN Files ELSE {None})
             \/ /\ e = "select" /\ menustate' = "MAIN1" /\ UNCHANGED file    \* No files!
                /\ \/ NoCard /\ UNCHANGED faults
                   \/ ~NoCard /\ "nofiles" \in Troubles /\ Fault("nofiles")
             \/ e = "menu" /\ menustate' = fs.cancel /\ UNCHANGED <<file, faults>>
             \/ e \in {"none", "left", "right", "plus", "minus"} /\ menustate' = s /\ UNCHANGED <<file, faults>>

Confirm(s, sub, e) ==
    \/ s = "CONFIRM1" /\ DrawPage(s, sub, {0, 1}, "CONFIRM2")
    \/ /\ s = "CONFIRM2" /\ e = "select" /\ sub = 0 /\ Goto("NONE1", sub)
       /\ \/ /\ confirmfunc = "OsdReset" /\ OsdReset
             /\ UNCHANGED <<settings, hdf, cpu, errors, faults>>
          \/ confirmfunc = "ColdBoot" /\ ColdBoot
       /\ UNCHANGED <<temps, picks, df, saved, edits>>
    \/ /\ s = "CONFIRM2" /\ (e = "menu" \/ (e = "select" /\ sub = 1))
       /\ Goto("MISC1", parentsub) /\ Quiet
    \/ s = "CONFIRM2" /\ (e \notin {"menu", "select"} \/ (e = "select" /\ sub > 1))
       /\ Stay(s, sub) /\ Quiet

\* ConfigurationExists of all five; SaveConfiguration of the row chosen.
SaveConfig(s, sub, e) ==
    \/ /\ s = "SAVECONFIG_1" /\ Draw(s, sub, 0..5, "SAVECONFIG_2") /\ UNCHANGED t_memory
       /\ SearchedConfigurations
    \/ /\ s = "SAVECONFIG_2" /\ e = "select" /\ sub \in SaveSlots /\ Goto("NONE1", sub) /\ Edit
       /\ \/ /\ ~NoCard /\ saved' = [saved EXCEPT ![sub] = config] /\ UNCHANGED faults
             /\ \/ saved[sub] = None /\ ClearError("filesystem")
                \/ saved[sub] # None /\ UNCHANGED errors
          \/ /\ \/ NoCard /\ UNCHANGED faults
                \/ ~NoCard /\ saved[sub] = None /\ "save" \in Troubles /\ Fault("save")
             /\ ErrorMask' = ErrorMask \cup {"filesystem"} /\ ErrorFatal' = FALSE /\ UNCHANGED saved
          \/ /\ NoCard /\ ErrorMask' = (ErrorMask \ {"filesystem"}) \cup {"sd"} /\ ErrorFatal' = TRUE
             /\ UNCHANGED <<saved, faults>>
       /\ UNCHANGED <<settings, temps, picks, df, drives, hdf, cpu>>
    \/ /\ s = "SAVECONFIG_2" /\ (e = "menu" \/ (e = "select" /\ sub >= 5))
       /\ Goto("MAIN2_1", 1) /\ Quiet
    \/ /\ s = "SAVECONFIG_2" /\ e \in {"up", "down"}
       /\ Goto("SAVECONFIG_1", IF e = "up" THEN Max({sub - 1, 0}) ELSE Min({sub + 1, Max({5, sub})}))
       /\ Quiet
    \/ s = "SAVECONFIG_2" /\ e \notin {"menu", "select", "up", "down"} /\ Stay(s, sub) /\ Quiet

-----------------------------------------------------------------------------
\* Settings pages: a ring, entered and left over MAIN2_1.  A row leads back, or
\* writes a field of config and makes a call: <<fields, call>>.

WaitFor(second, sub, e, first, rows, back, right, left) ==
    \/ /\ e = "select" /\ sub \in DOMAIN rows
       /\ Goto(first, sub) /\ Set(rows[sub][1], rows[sub][2])
       /\ UNCHANGED <<config, temps, picks, machine, bounds>>
    \/ e = "select" /\ sub \in DOMAIN back /\ Goto("MAIN2_1", back[sub]) /\ Quiet
    \/ e = "menu" /\ (\E r \in DOMAIN back : Goto("MAIN2_1", back[r])) /\ Quiet
    \/ e = "right" /\ Goto(right, 0) /\ Quiet
    \/ e = "left" /\ Goto(left, 0) /\ Quiet
    \/ /\ \/ e \notin {"select", "menu", "right", "left"}
          \/ e = "select" /\ sub \notin DOMAIN rows \cup DOMAIN back
       /\ Stay(second, sub) /\ Quiet

ChipsetPage(s, sub, e) ==
    /\ s = "CHIPSET1"
    /\ DrawPage(s, IF FIXED_040 /\ sub = 0 THEN 1 ELSE sub,
                IF FIXED_040 THEN 1..5 ELSE 0..5, "CHIPSET2")

ChipsetRows ==
    [r \in (IF FIXED_040 THEN 1..4 ELSE 0..4) |->
        CASE r \in {0, 1} -> <<{"cpu"}, "ConfigCPU">>
          [] r \in {2, 3} -> <<{"chipset"}, "ConfigChipset">>
          [] r = 4 -> <<{"autofire"}, "ConfigAutofire">>]

\* The page moves down by itself too, but is never left a cursor key that can
\* go down; up leads to row 0 where row 1 is the first.
ChipsetKeys(s, sub, e) ==
    /\ s = "CHIPSET2"
    /\ \/ e = "up" /\ sub > 0 /\ Goto("CHIPSET1", sub - 1) /\ Quiet
       \/ /\ ~(e = "up" /\ sub > 0)
          /\ WaitFor(s, sub, e, "CHIPSET1", ChipsetRows, [r \in {5} |-> 2], "MEMORY1", "HDMI1")

\* Slip: the snapshot is taken whenever the page is drawn.
Snapshot_Again == config.memory

\* Taken on entering the page, not on drawing it again.
Snapshot == IF t_memory = None THEN config.memory ELSE t_memory
MemoryPage(s, sub, e) ==
    /\ s = "MEMORY1" /\ Draw(s, sub, 0..6, "MEMORY2") /\ UNCHANGED errors
    /\ t_memory' = Snapshot

\* Leaving with other settings than those on entry asks for a reset first.
LeaveMemory(state, row) ==
    /\ t_memory' = None
    /\ \/ /\ config.memory # t_memory
          /\ t_memory_next' = <<state, row>> /\ Goto("MEMORY_CHANGED1", 0)
       \/ config.memory = t_memory /\ Goto(state, row) /\ UNCHANGED t_memory_next
    /\ UNCHANGED <<settings, t_hardfile, t_enable_ide, picks, machine, bounds>>

\* The memory settings are two values, and every row but the ROM's toggles them.
MemoryKeys(s, sub, e) ==
    /\ s = "MEMORY2"
    /\ \/ /\ e = "select" /\ sub \in {0, 1, 2, 4, 5} /\ Goto("MEMORY1", sub) /\ Edit
          /\ config' = [config EXCEPT !.memory = 1 - config.memory]
          /\ Set({"memory"}, "ConfigMemory")
          /\ UNCHANGED <<temps, picks, machine, faults>>
       \/ /\ e = "select" /\ sub = 3 /\ SelectFile(sub, "ROMFILE_SELECTED", "MEMORY1")
          /\ UNCHANGED <<settings, temps, bounds>>
       \/ (e = "menu" \/ (e = "select" /\ sub = 6)) /\ LeaveMemory("MAIN2_1", 3)
       \/ e = "right" /\ LeaveMemory("AUDIO1", 0)
       \/ e = "left" /\ LeaveMemory("CHIPSET1", 0)
       \/ e \notin {"select", "menu", "right", "left"} /\ Stay(s, sub) /\ Quiet

MemoryChanged(s, sub, e) ==
    \/ s = "MEMORY_CHANGED1" /\ DrawPage(s, sub, {0, 1}, "MEMORY_CHANGED2")
    \/ /\ s = "MEMORY_CHANGED2" /\ e = "select" /\ sub = 0 /\ OsdReset /\ Goto("NONE1", sub)
       /\ UNCHANGED <<settings, temps, picks, df, hdf, saved, cpu, errors, bounds>>
    \/ /\ s = "MEMORY_CHANGED2" /\ (e = "menu" \/ (e = "select" /\ sub = 1))
       /\ Goto(t_memory_next[1], t_memory_next[2]) /\ Quiet
    \/ /\ s = "MEMORY_CHANGED2" /\ (e \notin {"menu", "select"} \/ (e = "select" /\ sub > 1))
       /\ Stay(s, sub) /\ Quiet

HardfilePage(s, sub, e) ==
    /\ s = "HARDFILE1"
    /\ DrawPage(s, sub,
            {0, 6} \cup (IF t_enable_ide
                         THEN {1, 3, 5} \cup {r \in {2, 4} : IsFile(t_hardfile[(r - 2) \div 2])}
                         ELSE {}), "HARDFILE2")

HardfileKeys(s, sub, e) ==
    /\ s = "HARDFILE2"
    /\ \/ /\ e = "select" /\ sub = 0 /\ Edit
          /\ t_enable_ide' = ~t_enable_ide /\ Goto("HARDFILE1", sub)
          /\ UNCHANGED <<settings, t_hardfile, t_memory, t_memory_next, picks, machine, faults>>
       \/ /\ e = "select" /\ sub \in {1, 3} /\ Edit
          /\ LET u == (sub - 1) \div 2 IN
             t_hardfile' = [t_hardfile EXCEPT ![u].enabled = NextType(t_hardfile[u].enabled)]
          /\ Goto("HARDFILE1", sub)
          /\ UNCHANGED <<settings, t_enable_ide, t_memory, t_memory_next, picks, machine, faults>>
       \/ /\ e = "select" /\ sub \in {2, 4} /\ Edit
          /\ SelectFile(sub, "HARDFILE_SELECTED", "HARDFILE1")
          /\ UNCHANGED <<settings, temps, faults>>
       \/ /\ e = "select" /\ sub = 5 /\ Goto("HARDFILE1", sub)
          /\ Set({"drivesounds"}, "drivesounds_enable")
          /\ UNCHANGED <<config, temps, picks, machine, bounds>>
       \/ (e = "menu" \/ (e = "select" /\ sub = 6)) /\ Goto("HARDFILE_EXIT", sub) /\ Quiet
       \/ e \notin {"select", "menu"} /\ Stay(s, sub) /\ Quiet

\* The row tells which unit asked; the type of the image which page comes next.
HardfileSelected(s, sub, e) ==
    LET u == (sub - 2) \div 2
        h == t_hardfile[u]
        type == Kind[file]
    IN  /\ s = "HARDFILE_SELECTED" /\ sub \in {2, 4}
        /\ t_hardfile' = [t_hardfile EXCEPT ![u] =
                [name |-> file, present |-> type # "NOTFOUND",
                 enabled |-> IF type = "RDB" THEN HDF_FILE
                             ELSE IF type = "DOS" THEN HDF_FILE + HDF_SYNTHRDB
                             ELSE h.enabled]]
        /\ \/ /\ type = "UNKNOWN"
              /\ Goto(IF h.enabled = HDF_FILE THEN "SYNTHRDB1" ELSE "SYNTHRDB2_1", 0)
           \/ type # "UNKNOWN" /\ Goto("HARDFILE1", sub)
        /\ file' = None
        /\ UNCHANGED <<settings, t_enable_ide, t_memory, t_memory_next, fs, asked, confirmfunc,
                       machine, bounds>>

HardfileExit(s, sub, e) ==
    /\ s = "HARDFILE_EXIT" /\ Quiet
    /\ \/ /\ config.hardfile # t_hardfile \/ t_enable_ide # config.enable_ide
          /\ Goto("HARDFILE_CHANGED1", 1)
       \/ config.hardfile = t_hardfile /\ t_enable_ide = config.enable_ide /\ Goto("MAIN1", 5)

\* Slip: another image of the same type is no change.
Changed_SameType(u) ==
    \/ config.hardfile[u].enabled # t_hardfile[u].enabled
    \/ config.enable_ide # t_enable_ide /\ t_hardfile[u].enabled # HDF_DISABLED

\* Which units are opened anew.
Changed(u) ==
    \/ config.hardfile[u].enabled # t_hardfile[u].enabled
    \/ config.hardfile[u].name # t_hardfile[u].name
    \/ config.enable_ide # t_enable_ide /\ t_hardfile[u].enabled # HDF_DISABLED

HardfileChanged(s, sub, e) ==
    \/ s = "HARDFILE_CHANGED1" /\ DrawPage(s, sub, {0, 1}, "HARDFILE_CHANGED2")
    \/ /\ s = "HARDFILE_CHANGED2" /\ e = "select" /\ sub = 0
       /\ \E missing \in SUBSET HardfileErrors :
             /\ OpenHardfile([config EXCEPT !.hardfile = t_hardfile, !.enable_ide = t_enable_ide],
                             {u \in Units : Changed(u)}, ~NoCard, missing)
             /\ ErrorMask' = ErrorMask \cup missing /\ ErrorFatal' = (ErrorFatal \/ "sd" \in missing)
       /\ Set({"hardfile", "enable_ide"}, "ConfigIDE") /\ OsdReset /\ Goto("NONE1", sub)
       /\ UNCHANGED <<temps, picks, df, saved, cpu, bounds>>
    \/ /\ s = "HARDFILE_CHANGED2" /\ (e = "menu" \/ (e = "select" /\ sub = 1))
       /\ Goto("MAIN1", 5) /\ Quiet
    \/ /\ s = "HARDFILE_CHANGED2" /\ (e \notin {"menu", "select"} \/ (e = "select" /\ sub > 1))
       /\ Stay(s, sub) /\ Quiet

SynthRdb(s, sub, e) ==
    \/ s \in {"SYNTHRDB1", "SYNTHRDB2_1"} /\ DrawPage(s, sub, {0}, "SYNTHRDB2")
    \/ s = "SYNTHRDB2" /\ e \in {"select", "menu"} /\ sub = 0 /\ Goto("HARDFILE1", sub) /\ Quiet
    \/ s = "SYNTHRDB2" /\ (e \notin {"select", "menu"} \/ sub # 0) /\ Stay(s, sub) /\ Quiet

VideoRows ==
    [r \in 0..3 |-> <<{CASE r < 2 -> "filter" [] r = 2 -> "scanlines" [] r = 3 -> "laced"}, "ConfigVideo">>]

VideoPage(s, sub, e) ==
    \/ s = "VIDEO1" /\ DrawPage(s, sub, 0..4, "VIDEO2")
    \/ s = "VIDEO2" /\ WaitFor(s, sub, e, "VIDEO1", VideoRows, [r \in {4} |-> 4], "VIDEO3", "AUDIO1")

VideoPosRows == [r \in 0..3 |-> <<{"videopos"}, "ConfigVideoPos">>]
VideoPosPage(s, sub, e) ==
    \/ s = "VIDEO3" /\ DrawPage(s, sub, 0..4, "VIDEO4")
    \/ s = "VIDEO4" /\ WaitFor(s, sub, e, "VIDEO3", VideoPosRows, [r \in {4} |-> 4], "HDMI1", "VIDEO1")

HdmiRows == [r \in 0..1 |-> <<{"hdmi_clkdelay"}, "adv7511_set_clkdelay">>]
HdmiPage(s, sub, e) ==
    \/ s = "HDMI1" /\ DrawPage(s, sub, 0..2, "HDMI2")
    \/ s = "HDMI2" /\ WaitFor(s, sub, e, "HDMI1", HdmiRows, [r \in {2} |-> 4], "CHIPSET1", "VIDEO3")

AudioRows == [r \in 0..1 |-> <<{"volume"}, "ConfigAudio">>]
AudioPage(s, sub, e) ==
    \/ s = "AUDIO1" /\ DrawPage(s, sub, 0..2, "AUDIO2")
    \/ s = "AUDIO2" /\ WaitFor(s, sub, e, "AUDIO1", AudioRows, [r \in {2} |-> 4], "VIDEO1", "MEMORY1")

RomFile(s, sub, e) ==
    \/ /\ s \in {"ROMFILE_SELECTED", "ROMFILE_SELECTED1"}
       /\ DrawPage("ROMFILE_SELECTED1", IF s = "ROMFILE_SELECTED" THEN 1 ELSE sub, {0, 1}, "ROMFILE_SELECTED2")
    \/ /\ s = "ROMFILE_SELECTED2" /\ e = "select" /\ sub = 0
       /\ \E rom \in Roms : ApplyConfiguration(config, {}, FALSE, rom)
       /\ cpu' = "runs" /\ drives' = config.drives
       /\ Goto("NONE1", sub)
       /\ UNCHANGED <<temps, picks, df, saved, edits>>
    \/ /\ s = "ROMFILE_SELECTED2" /\ (e = "menu" \/ (e = "select" /\ sub = 1))
       /\ Goto("MEMORY1", 4) /\ Quiet
    \/ /\ s = "ROMFILE_SELECTED2" /\ (e \notin {"menu", "select"} \/ (e = "select" /\ sub > 1))
       /\ Stay(s, sub) /\ Quiet

\* Dismissing a fatal error, or one about the ROM, boots again.
ErrorPage(s, sub, e) ==
    \/ s = "ERROR" /\ DrawPage(s, sub, {0}, "ERROR2")
    \/ /\ s = "ERROR2" /\ e = "select"
       /\ Goto("NONE1", sub)
       /\ \/ (ErrorFatal \/ "rom" \in ErrorMask) /\ ColdBoot
          \/ /\ ~(ErrorFatal \/ "rom" \in ErrorMask)
             /\ ErrorMask' = {} /\ ErrorFatal' = FALSE
             /\ UNCHANGED <<settings, hdf, drives, cpu, faults>>
       /\ UNCHANGED <<temps, picks, df, saved, edits>>
    \/ s = "ERROR2" /\ e # "select" /\ Goto("ERROR", sub) /\ Quiet

Info(s, sub, e) ==
    /\ s = "INFO" /\ Quiet
    /\ \/ e = "menu" /\ Goto("MAIN1", sub)
       \/ e # "menu" /\ Goto("NONE1", sub)          \* CheckTimer(menu_timer)
       \/ e # "menu" /\ Stay(s, sub)

Page(s, sub, e) ==
    \/ NoMenu(s, sub, e) \/ MainMenu(s, sub, e) \/ FloppyMenu(s, sub, e) \/ FileSelected(s, sub, e)
    \/ SettingsMenu(s, sub, e) \/ MiscMenu(s, sub, e) \/ AboutPages(s, sub, e) \/ LoadConfig(s, sub, e)
    \/ FileSelector(s, sub, e) \/ Confirm(s, sub, e) \/ SaveConfig(s, sub, e)
    \/ ChipsetPage(s, sub, e) \/ ChipsetKeys(s, sub, e) \/ MemoryPage(s, sub, e) \/ MemoryKeys(s, sub, e)
    \/ MemoryChanged(s, sub, e) \/ HardfilePage(s, sub, e) \/ HardfileKeys(s, sub, e)
    \/ HardfileSelected(s, sub, e) \/ HardfileExit(s, sub, e) \/ HardfileChanged(s, sub, e)
    \/ SynthRdb(s, sub, e) \/ VideoPage(s, sub, e) \/ VideoPosPage(s, sub, e) \/ HdmiPage(s, sub, e)
    \/ AudioPage(s, sub, e) \/ RomFile(s, sub, e) \/ ErrorPage(s, sub, e) \/ Info(s, sub, e)

-----------------------------------------------------------------------------
\* main().

Events == {"none", "menu", "select", "up", "down", "left", "right", "plus", "minus", "back", "other"}

InfoMessage == /\ Goto("INFO", menusub)

\* Slip: the turbo chord tells the CPU's settings, where turbo used to be.
ChordSets_CPU == [turbo |-> <<{"chipset"}, "ConfigCPU">>, volume |-> <<{"volume"}, "ConfigAudio">>,
                  autofire |-> <<{"autofire"}, "ConfigAutofire">>]

\* What the chords write, and the call they make.
ChordSets == [turbo |-> <<{"chipset"}, "ConfigChipset">>, volume |-> <<{"volume"}, "ConfigAudio">>,
              autofire |-> <<{"autofire"}, "ConfigAutofire">>]

\* Key chords.  They work on every page, but only with no menu up do they say
\* so, and the Chipset page is drawn anew; the page's own step, which sees no
\* key, comes with the next call.
Chord(k) ==
    /\ k \in Chords \ {"debug"}
    /\ k = "autofire" => menustate \in {"NONE2", "INFO"}
    /\ \/ k \in DOMAIN ChordSets /\ Set(ChordSets[k][1], ChordSets[k][2])
       \/ k = "refresh" /\ UNCHANGED untold
    /\ \/ menustate \in {"NONE2", "INFO"} /\ InfoMessage
       \/ k = "turbo" /\ menustate = "CHIPSET2" /\ Goto("CHIPSET1", menusub)
       \/ /\ menustate \notin {"NONE2", "INFO"} /\ ~(k = "turbo" /\ menustate = "CHIPSET2")
          /\ UNCHANGED ui
    /\ UNCHANGED <<config, temps, picks, machine, bounds, agreed>>

\* Ctrl-Alt-Menu: whatever was on the screen is gone.
DebugChord ==
    /\ "debug" \in Chords
    /\ menustate' = "NONE2" /\ menumask' = {} /\ Forget
    /\ agreed' = {config.memory}
    /\ UNCHANGED <<menusub, settings, machine, bounds>>

\* Closing the menu starts the question about the memory afresh.
Agree == agreed' = (IF menustate' = "NONE2" THEN {} ELSE agreed)
                   \cup (IF menustate' \in {"NONE1", "NONE2", "MEMORY_CHANGED1", "MAIN1"}
                         THEN {config'.memory} ELSE {})
HandleUI ==
    /\ pc = "ui" /\ UNCHANGED dialog
    /\ \/ \E e \in Events :
             LET n == Navigate(menustate, e)
             IN  Page(n.state, n.row, e) /\ Agree
       \/ \E k \in Chords : Chord(k)
       \/ DebugChord
    /\ pc' = (IF ErrorMask' # {} \/ dialog THEN "rest" ELSE "ui")

ShowError == /\ menustate' = "ERROR"
             /\ UNCHANGED <<menusub, menumask, parentstate, parentsub>>

\* After HandleUI the errors are looked at: one that is new stops the main
\* loop until ErrorMask is empty.
Rest ==
    /\ pc = "rest" /\ pc' = "ui"
    /\ dialog' = (ErrorMask # {})
    /\ \/ ErrorMask # {} /\ ~dialog /\ ShowError /\ agreed' = agreed \cup {config.memory}
       \/ ~(ErrorMask # {} /\ ~dialog) /\ UNCHANGED <<ui, agreed>>
    /\ UNCHANGED <<settings, temps, picks, machine, bounds>>

\* Before it, HandleFpga runs unless the error is fatal; a drive may meet an error.
HandleFpga ==
    /\ pc = "ui" /\ ~ErrorFatal
    /\ "fdd" \in Troubles /\ Fault("fdd")
    /\ ErrorMask' = ErrorMask \cup {"fdd"}
    /\ UNCHANGED <<ui, settings, temps, picks, df, drives, hdf, saved, cpu, ErrorFatal, edits,
                   pc, dialog, agreed>>

Boot == /\ pc = "boot" /\ pc' = "ui"
        /\ ColdBoot
        /\ agreed' = {config'.memory}
        /\ UNCHANGED <<ui, temps, picks, df, saved, dialog, edits>>

Init == /\ menustate = "NONE1" /\ menusub = 0 /\ menumask = {}
        /\ parentstate = "NONE1" /\ parentsub = 0
        /\ config = [drives |-> 0, memory |-> 0, enable_ide |-> FALSE,
                     hardfile |-> [u \in Units |->
                        [enabled |-> HDF_DISABLED, name |-> None, present |-> FALSE]]]
        /\ untold = Fields
        /\ t_hardfile = Default.hardfile /\ t_enable_ide = FALSE
        /\ t_memory = None /\ t_memory_next = <<"NONE1", 0>>
        /\ fs = [select |-> "NONE1", cancel |-> "NONE1"] /\ asked = 0 /\ file = None
        /\ confirmfunc = "OsdReset"
        /\ df = {} /\ drives = 0 /\ saved = Saved /\ cpu = "held"
        /\ hdf = [u \in Units |-> [enabled |-> HDF_DISABLED, name |-> None]]
        /\ ErrorMask = {} /\ ErrorFatal = FALSE
        /\ pc = "boot" /\ dialog = FALSE
        /\ edits = 0 /\ faults = 0 /\ agreed = {0}

Next == Boot \/ HandleFpga \/ HandleUI \/ Rest

Spec == Init /\ [][Next]_vars

-----------------------------------------------------------------------------
\* Properties.

\* Once the Amiga runs, every field of config that was written, whichever way
\* (boot, a page's row, a chord, a configuration file), has been handed to the
\* core by a call made since, but for what ApplyConfiguration does not hand
\* over: the volume, the drive sounds, and the scanlines of interlaced pictures,
\* which no call hands over.
LeftOut == {"volume", "drivesounds", "laced"}
SettingsReachCore == cpu = "runs" => untold \subseteq LeftOut

\* A disk goes into the drive, and an image to the unit, on whose row the file
\* selector was called, whatever keys came in while it was up.
PutWhereAsked ==
    /\ \A d \in df' \ df : d = asked
    /\ menustate = "HARDFILE_SELECTED" /\ menustate' # "NONE2" =>
         \A u \in Units : t_hardfile'[u] # t_hardfile[u] => asked = 2 * u + 2
InsertsWhereAsked == [][PutWhereAsked]_vars

\* The pages between entering the Memory page and being asked about it.
MemoryArea == {"MEMORY1", "MEMORY2", "ROMFILE_SELECTED", "ROMFILE_SELECTED1", "ROMFILE_SELECTED2"}
Selecting == menustate \in {"FILE_SELECT1", "FILE_SELECT2"} /\ fs.cancel = "MEMORY1"

\* Nobody leaves the Memory page with other memory than the Amiga was reset
\* with and has not been asked for the reset; the selection of a Kickstart in
\* between does not lose the question.  An error, Ctrl-Alt-Menu and the line
\* "No files!", which lead elsewhere, do.
MemoryAsked == menustate \in MemoryArea \/ Selecting \/ config.memory \in agreed

\* Unless the last boot found no card, a unit whose image is on it is open on
\* what config names: the copy edited on the Harddisks page, the tests for what
\* changed, boot and configuration files never leave another file open.
HardfileInUse ==
    ~NoCard => \A u \in Units : Present(config.hardfile[u]) => hdf[u] = Open(config.hardfile[u])

\* The same of every unit that config says is present, which is what ConfigIDE
\* tells the core.  It fails when the question of HARDFILE_CHANGED1 is answered twice.
PresentInUse ==
    \A u \in Units : LET h == config.hardfile[u] IN
        h.present /\ h.enabled # HDF_DISABLED => hdf[u] = Open(h)

\* Once the Amiga runs the core knows every setting: "Every other setting is
\* pushed to the core here" (config.c).  It fails for each field of LeftOut.
EverySettingTold == cpu = "runs" => untold = {}
=============================================================================
