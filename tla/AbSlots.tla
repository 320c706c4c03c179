------------------------------- MODULE AbSlots -------------------------------
(***************************************************************************)
(* The choice between the two slots of an A/B system: bootctrl_api.c, with *)
(* which fastboot switches the active slot and with which the rest of the  *)
(* boot loader learns it, avb_ab_flow.c, which verifies the slots and      *)
(* picks one, and load_vfy_boot_ab.c, which puts the two together.         *)
(*                                                                         *)
(* Both keep their state in the misc partition.  bootctrl_api.c has a copy *)
(* of it in memory and drops the copy when it writes; avb_ab_flow.c reads  *)
(* and writes the partition underneath that copy.  The power may go at any *)
(* step.  The preloader, which runs before, and Android, which runs after  *)
(* the boot loader, are external: only what this code says or assumes of   *)
(* them is modelled.                                                       *)
(***************************************************************************)
EXTENDS Naturals

CONSTANTS
    MaxPriority,    \* AVB_AB_MAX_PRIORITY
    MaxTries,       \* AVB_AB_MAX_TRIES_REMAINING
    Legacy,         \* whether misc may hold a backup of version 1 metadata
    Faults          \* what may fail: a subset of {"read", "write", "region", "verify", "post"}

ASSUME AbAssumption ==
    /\ MaxPriority \in Nat \ {0, 1}
    /\ MaxTries \in Nat \ {0}
    /\ Legacy \subseteq BOOLEAN /\ Legacy # {}
    /\ Faults \subseteq {"read", "write", "region", "verify", "post"}

Slots == {0, 1}     \* _a, _b
Other(s) == 1 - s

Slot == [priority : 0 .. MaxPriority, tries : 0 .. MaxTries, successful : BOOLEAN]
Metadata == [format : {"avb", "v1", "junk"}, slots : [Slots -> Slot]]
None == [format |-> "none"]     \* metadata_read = 0

VARIABLES
    pc,
    misc,       \* the metadata on the misc partition
    backup,     \* misc holds a backup of version 1 metadata
    region,     \* the boot region the boot ROM starts from
    image,      \* slot -> whether avb_ab_flow takes the result of verifying it
    saved,      \* metadata_saved, or None
    metadata,   \* the local copy of the function that runs
    orig,       \* ab_data_orig
    verified,   \* the slots with slot_data
    slot,       \* the slot set_active_slot or avb_ab_flow is about
    suffix,     \* androidboot.slot_suffix on the kernel's command line
    answer,     \* fastboot's answer to the last set_active
    unseen,     \* history: its set_boot_region failed with a positive number
    attempts    \* history: slot -> boots of it since its tries were last given
                \* to it, counted up to MaxTries + 1

disk == <<misc, backup, region, image>>
flowVars == <<orig, verified, suffix>>
vars == <<pc, disk, saved, metadata, flowVars, slot, answer, unseen, attempts>>

Unbootable == [priority |-> 0, tries |-> 0, successful |-> FALSE]
Fresh(p) == [priority |-> p, tries |-> MaxTries, successful |-> FALSE]
Garbage == {Unbootable, Fresh(MaxPriority)}    \* what an uninitialised slot may look like

Bootable(s) == s.priority > 0 /\ (s.successful \/ s.tries > 0)

\* Mutant: the used-up slot is found by its tries alone.
NormalizedByTries(s) == IF s.tries > 0 /\ ~s.successful THEN s ELSE Unbootable

\* slot_normalize
Normalized(s) == IF s.priority > 0 /\ (s.tries > 0) # s.successful THEN s ELSE Unbootable

\* avb_ab_data_init
InitialData == [format |-> "avb", slots |-> [s \in Slots |-> Fresh(MaxPriority - s)]]

\* The slot get_suffix names.
Top(m) == IF m.slots[0].priority >= m.slots[1].priority THEN 0 ELSE 1

Init ==
    /\ pc = "off"
    /\ misc = InitialData
    /\ backup \in Legacy
    /\ region = 0
    /\ image \in [Slots -> {"good", "bad"}]
    /\ saved = None
    /\ metadata = InitialData /\ orig = InitialData
    /\ verified = {}
    /\ slot = 0 /\ suffix = 0
    /\ answer = "none" /\ unseen = FALSE
    /\ attempts = [s \in Slots |-> 0]

---------------------------------------------------------------------------
(* bootctrl_api.c: read_write_partition_info *)

InfoRead == IF saved.format = "avb" THEN saved ELSE misc

\* A read fills the copy in memory, a write of m empties it.
ReadInfo == saved' = InfoRead

\* Mutant: metadata_read is not reset by a write.
WriteInfoKeepsCopy(m) == misc' = [m EXCEPT !.format = "avb"] /\ UNCHANGED saved

WriteInfo(m) == misc' = [m EXCEPT !.format = "avb"] /\ saved' = None

---------------------------------------------------------------------------
(* fastboot set_active *)

\* Mutant: the other slot loses a priority each time.
DemotedAlways(s) == [s EXCEPT !.priority = @ - 1]

Demoted(s) == IF s.priority = MaxPriority THEN [s EXCEPT !.priority = MaxPriority - 1] ELSE s

\* The metadata that makes s the active slot.
Activated(m, s) ==
    [format |-> "avb",
     slots |-> [t \in Slots |-> IF t = s THEN Fresh(MaxPriority) ELSE Demoted(m.slots[t])]]

SetActiveSlot(s) ==
    /\ pc = "fastboot"
    /\ slot' = s
    /\ metadata' = Activated(InfoRead, s)
    /\ ReadInfo
    /\ answer' = "none" /\ unseen' = FALSE
    /\ pc' = IF s = 1 /\ backup THEN "restore" ELSE "region"
    /\ UNCHANGED <<disk, flowVars, attempts>>

\* set_boot_region writes the version 1 metadata over the head of misc.
RestoreV1 ==
    /\ pc = "restore"
    /\ \/ misc' = [misc EXCEPT !.format = "v1"]
       \/ "write" \in Faults /\ UNCHANGED misc
    /\ pc' = "region"
    /\ UNCHANGED <<backup, region, image, saved, metadata, flowVars, slot, answer, unseen, attempts>>

\* Mutant: the result of set_boot_region is not looked at.
SetBootRegionUnchecked ==
    /\ pc = "region"
    /\ region' = slot \/ ("region" \in Faults /\ UNCHANGED region)
    /\ pc' = "write"
    /\ UNCHANGED <<misc, backup, image, saved, metadata, flowVars, slot, answer, unseen, attempts>>

\* set_active_slot gives up only when `ret < 0`, the answer of UFS and of a wrong
\* device; mmc_set_boot_part passes on the positive MMC_ERR_* of the card, with
\* which the command goes on.  Either way the card may have switched.
SetBootRegion ==
    /\ pc = "region"
    /\ \/ region' = slot /\ pc' = "write" /\ UNCHANGED <<answer, unseen>>
       \/ /\ "region" \in Faults
          /\ region' \in {region, slot}
          /\ \/ pc' = "write" /\ unseen' = TRUE /\ UNCHANGED answer
             \/ pc' = "fastboot" /\ answer' = "fail" /\ UNCHANGED unseen
    /\ UNCHANGED <<misc, backup, image, saved, metadata, flowVars, slot, attempts>>

SetActiveWrite ==
    /\ pc = "write"
    /\ \/ /\ WriteInfo(metadata)
          /\ answer' = "okay"
          /\ attempts' = [attempts EXCEPT ![slot] = 0]
       \/ /\ "write" \in Faults
          /\ answer' = "fail"
          /\ UNCHANGED <<misc, saved, attempts>>
    /\ pc' = "fastboot"
    /\ UNCHANGED <<backup, region, image, metadata, flowVars, slot, unseen>>

\* fastboot flash of the images of s.
Flash(s) ==
    /\ pc = "fastboot"
    /\ \E i \in {"good", "bad"} : image' = [image EXCEPT ![s] = i]
    /\ ReadInfo
    /\ UNCHANGED <<pc, misc, backup, region, metadata, flowVars, slot, answer, unseen, attempts>>

---------------------------------------------------------------------------
(* load_vfy_boot *)

Increased(s) ==
    IF s.tries < MaxTries /\ s.tries > 0 /\ ~s.successful
    THEN [s EXCEPT !.tries = @ + 1] ELSE s

\* increase_tries_remaining, up to its write.
IncreaseTries ==
    /\ pc = "boot"
    /\ ReadInfo
    /\ IF InfoRead.format = "avb"
       THEN /\ metadata' = [InfoRead EXCEPT !.slots[Top(InfoRead)] = Increased(@)]
            /\ pc' = "increase"
       ELSE UNCHANGED metadata /\ pc' = "load"
    /\ UNCHANGED <<disk, flowVars, slot, answer, unseen, attempts>>

IncreaseWrite ==
    /\ pc = "increase"
    /\ WriteInfo(metadata) \/ ("write" \in Faults /\ UNCHANGED <<misc, saved>>)
    /\ pc' = "load"
    /\ UNCHANGED <<backup, region, image, metadata, flowVars, slot, answer, unseen, attempts>>

\* The metadata avb_ab_data_read returns, which it writes first if misc has none.
LoadMetadata ==
    LET data == IF misc.format = "avb" THEN misc ELSE InitialData
    IN /\ pc = "load"
       /\ misc' = data
       /\ orig' = data
       /\ metadata' = [data EXCEPT !.slots = [s \in Slots |-> Normalized(data.slots[s])]]
       /\ attempts' = IF misc.format = "avb" THEN attempts ELSE [s \in Slots |-> 0]
       /\ verified' = {}
       /\ pc' = "verify0"
       /\ UNCHANGED <<backup, region, image, saved, suffix, slot, answer, unseen>>

\* avb_ab_data_read fails.  When it could not read, ab_data and ab_data_orig
\* have no value; when it could not write what it had made up, ab_data_orig has
\* none.  avb_ab_flow saves the one if it differs from the other.
LoadFails ==
    /\ pc = "load"
    /\ \/ "read" \in Faults /\ UNCHANGED misc
       \/ "read" \in Faults /\ misc' \in [format : {"junk"}, slots : [Slots -> Garbage]]
       \/ "write" \in Faults /\ misc.format # "avb" /\ misc' \in {misc, InitialData}
    /\ attempts' = IF misc' = misc THEN attempts ELSE [s \in Slots |-> 0]
    /\ pc' = "reset"
    /\ UNCHANGED <<backup, region, image, saved, metadata, flowVars, slot, answer, unseen>>

\* avb_slot_verify of slot n, which finds its partitions by name: the lookup
\* calls get_suffix.
VerifySlot(n) ==
    LET after == IF n = 0 THEN "verify1" ELSE "select"
    IN /\ pc = (IF n = 0 THEN "verify0" ELSE "verify1")
       /\ IF ~Bootable(metadata.slots[n])
          THEN pc' = after /\ UNCHANGED <<saved, metadata, verified>>
          ELSE /\ ReadInfo
               /\ \/ /\ image[n] = "good"
                     /\ verified' = verified \union {n}
                     /\ pc' = after
                     /\ UNCHANGED metadata
                  \/ /\ image[n] # "good"
                     /\ metadata' = [metadata EXCEPT !.slots[n] = Unbootable]
                     /\ pc' = after
                     /\ UNCHANGED verified
                  \/ /\ "verify" \in Faults   \* out of memory, or an I/O error
                     /\ verified' = {}
                     /\ pc' = "save"
                     /\ UNCHANGED metadata
       /\ UNCHANGED <<disk, orig, suffix, slot, answer, unseen, attempts>>

\* Mutant: the lower priority wins.
ChosenLowest ==
    IF \A s \in Slots : Bootable(metadata.slots[s])
    THEN Other(Top(metadata))
    ELSE CHOOSE s \in Slots : Bootable(metadata.slots[s])

Chosen ==
    IF \A s \in Slots : Bootable(metadata.slots[s])
    THEN Top(metadata)
    ELSE CHOOSE s \in Slots : Bootable(metadata.slots[s])

\* Mutant: a try is not counted when the slot has one left.
TriedUnlessLast(s) ==
    IF ~s.successful /\ s.tries > 1 THEN [s EXCEPT !.tries = @ - 1] ELSE s

Tried(s) == IF ~s.successful /\ s.tries > 0 THEN [s EXCEPT !.tries = @ - 1] ELSE s

SelectSlot ==
    /\ pc = "select"
    /\ IF \E s \in Slots : Bootable(metadata.slots[s])
       THEN /\ slot' = Chosen
            /\ metadata' = [metadata EXCEPT !.slots[Chosen] = Tried(@)]
            /\ UNCHANGED verified
       ELSE /\ verified' = {}
            /\ UNCHANGED <<slot, metadata>>
    /\ pc' = "save"
    /\ UNCHANGED <<disk, saved, orig, suffix, answer, unseen, attempts>>

\* save_metadata_if_changed, and the end of avb_ab_flow.  A flow that fails has no
\* slot_data, and no kernel runs: a locked device resets (handle_vboot_state) and
\* so does the one that lets verification errors pass, whose avb_ret is made OK
\* (load_vfy_boot_ab.c:475) but that has no boot image to go on with
\* (the PAL_ASSERTs of boot_info.c:341 and 401).
SaveMetadata ==
    /\ pc = "save"
    /\ \/ /\ misc' = IF metadata # orig THEN metadata ELSE misc
          /\ pc' = IF verified # {} THEN "post" ELSE "reset"
       \/ /\ metadata # orig /\ "write" \in Faults
          /\ UNCHANGED misc
          /\ pc' = "reset"
    /\ UNCHANGED <<backup, region, image, saved, metadata, flowVars, slot, answer, unseen, attempts>>

\* boot_post_processing: the image of the slot is passed on, the suffix comes
\* from get_suffix; then the kernel runs.
PostProcess ==
    /\ pc = "post"
    /\ suffix' = Top(InfoRead)
    /\ ReadInfo
    /\ attempts' = IF misc.slots[slot].successful \/ attempts[slot] > MaxTries
                   THEN attempts ELSE [attempts EXCEPT ![slot] = @ + 1]
    /\ pc' = "kernel"
    /\ UNCHANGED <<disk, metadata, orig, verified, slot, answer, unseen>>

\* boot_post_processing fails.  load_vfy_boot overwrites its result, so an unlocked
\* device goes on, but without the boot image it ends as above.
PostFails ==
    /\ pc = "post" /\ "post" \in Faults
    /\ saved' \in {saved, InfoRead}
    /\ pc' = "reset"
    /\ UNCHANGED <<disk, metadata, flowVars, slot, answer, unseen, attempts>>

---------------------------------------------------------------------------
(* The world around the boot loader, and the loss of power *)

\* The preloader: "Both preloader and avb_ab_flow function decrease
\* tries_remaining variable" (load_vfy_boot_ab.c:460).
Preloader ==
    /\ pc = "off"
    /\ misc' = IF misc.format = "avb" THEN [misc EXCEPT !.slots[Top(misc)] = Tried(@)] ELSE misc
    /\ pc' \in {"fastboot", "boot"}
    /\ UNCHANGED <<backup, region, image, saved, metadata, flowVars, slot, answer, unseen, attempts>>

\* Android marks the slot it runs from as avb_ab_mark_slot_successful does.
MarkSuccessful ==
    /\ pc = "kernel" /\ misc.format = "avb" /\ Bootable(misc.slots[slot])
    /\ misc' = [misc EXCEPT !.slots[slot].tries = 0, !.slots[slot].successful = TRUE]
    /\ pc' = "running"
    /\ UNCHANGED <<backup, region, image, saved, metadata, flowVars, slot, answer, unseen, attempts>>

\* Android updates the other slot and makes it active as
\* avb_ab_mark_slot_active does.
Update ==
    LET s == Other(slot)
    IN /\ pc = "kernel" /\ misc.format = "avb"
       /\ \E i \in {"good", "bad"} : image' = [image EXCEPT ![s] = i]
       /\ misc' = Activated([misc EXCEPT !.slots = [t \in Slots |-> Normalized(misc.slots[t])]], s)
       /\ attempts' = [attempts EXCEPT ![s] = 0]
       /\ pc' = "running"
       /\ UNCHANGED <<backup, region, saved, metadata, flowVars, slot, answer, unseen>>

\* A reboot, a reset after a failed boot, or the loss of power at any step.
PowerOff ==
    /\ pc # "off"
    /\ pc' = "off"
    /\ saved' = None
    /\ metadata' = InitialData /\ orig' = InitialData
    /\ verified' = {}
    /\ slot' = 0 /\ suffix' = 0
    /\ answer' = "none" /\ unseen' = FALSE
    /\ UNCHANGED <<disk, attempts>>

Fastboot ==
    \/ \E s \in Slots : SetActiveSlot(s) \/ Flash(s)
    \/ RestoreV1 \/ SetBootRegion \/ SetActiveWrite

LoadVfyBoot ==
    \/ IncreaseTries \/ IncreaseWrite
    \/ LoadMetadata \/ LoadFails
    \/ \E n \in Slots : VerifySlot(n)
    \/ SelectSlot \/ SaveMetadata \/ PostProcess \/ PostFails

Next == Preloader \/ Fastboot \/ LoadVfyBoot \/ MarkSuccessful \/ Update \/ PowerOff

Spec == Init /\ [][Next]_vars

---------------------------------------------------------------------------
(* Properties *)

TypeOK ==
    /\ pc \in {"off", "fastboot", "restore", "region", "write", "boot", "increase", "load",
               "verify0", "verify1", "select", "save", "post", "reset", "kernel", "running"}
    /\ misc \in Metadata /\ metadata \in Metadata /\ orig \in Metadata
    /\ saved \in Metadata \union {None}
    /\ backup \in BOOLEAN
    /\ region \in Slots /\ slot \in Slots /\ suffix \in Slots
    /\ image \in [Slots -> {"good", "bad"}]
    /\ verified \subseteq Slots
    /\ answer \in {"none", "okay", "fail"} /\ unseen \in BOOLEAN
    /\ attempts \in [Slots -> 0 .. MaxTries + 1]

\* A slot that never reports success is booted at most
\* AVB_AB_MAX_TRIES_REMAINING times, although three programs count and the
\* power may fail between them; then the other slot has its turn.  (`attempts`
\* starts again with the tries: when fastboot or an update makes the slot active,
\* and when metadata are made up.)
AttemptsBounded == \A s \in Slots : attempts[s] <= MaxTries

\* The kernel comes from a slot that was verified, and no slot that is still
\* bootable on the partition has a higher priority.
BootsHighest ==
    pc = "kernel" =>
        /\ image[slot] = "good"
        /\ \A s \in Slots : Bootable(misc.slots[s]) =>
                               misc.slots[s].priority <= misc.slots[slot].priority

\* A slot that can boot can boot after the step too, unless its image is bad,
\* the step takes its last try, or LoadFails writes garbage.
GoodSlotsKept ==
    \A s \in Slots :
        Bootable(misc.slots[s]) /\ ~Bootable(misc'.slots[s]) =>
            \/ misc'.format = "junk" \/ image[s] = "bad"
            \/ misc.slots[s].tries = 1 /\ ~misc.slots[s].successful

\* A good slot is never given up while it has tries left or has booted before:
\* no interrupted command, failed write or boot of the other slot does it.
GoodSlotsStay == [][GoodSlotsKept]_vars

\* When fastboot answers OKAY to set_active, the metadata name its slot, and so does
\* the boot region - unless the card failed to switch with an error set_active_slot
\* does not see (bootctrl_api.c:298 looks for `ret < 0`, mmc_common_inter.c:207
\* returns a positive one): then the region may be the other slot's.
OkayMeansActive ==
    answer = "okay" => misc.format = "avb" /\ Top(misc) = slot /\ (region = slot \/ unseen)

\* What fastboot tells of the slots is what misc holds: "force to read from
\* partition after successful partition_write()" (bootctrl_api.c:153).
CopyCurrent ==
    pc \in {"fastboot", "region", "write", "boot", "increase"} /\ ~backup => saved \in {None, misc}

\* The kernel is told the suffix of the slot its image was loaded from.
SuffixNamesSlot == pc = "kernel" => suffix = slot

\* A boot that cannot read the metadata leaves them alone: avb_ab_flow "Writes
\* A/B metadata to disk only if it has changed" (avb_ab_flow.c:192).
UnreadIsUnwritten == [][pc = "load" /\ pc' = "reset" /\ misc.format = "avb" => misc' = misc]_vars
=============================================================================
