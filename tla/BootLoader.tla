----------------------------- MODULE BootLoader -----------------------------
(***************************************************************************)
(* The MCUboot loader of the nRF5340 application core (9loader.c, one      *)
(* image, swap using move) with its network-core patch, and the watchdog   *)
(* that main.c of the mcuboot patch starts.  The slots, their trailers and *)
(* the progress of a swap are in flash and survive a reset; the rest does  *)
(* not.  swap_run() and the trailer functions belong to bootutil and are   *)
(* external: modelled as the loader uses them.                             *)
(***************************************************************************)
EXTENDS PcdUpdate

CONSTANTS Apps,       \* valid images of the application core
          Bad,        \* an image that fails boot_image_check()
          Sectors,    \* sectors of a slot, without the trailer
          MaxResets, MaxUploads, MaxFaults   \* bounds

Erased == "erased"
NetImages == Firmware
Images == Apps \cup NetImages \cup {Bad}

ASSUME LoaderAssumption == /\ Bad \notin Apps \cup NetImages /\ Apps \cap NetImages = {}
                           /\ Erased \notin Images /\ Apps # {}
                           /\ {Sectors, MaxResets, MaxUploads, MaxFaults} \subseteq Nat
                           /\ Sectors > 0

VARIABLES slot,       \* slot[s][i] = image whose sector i is there
          trailer,    \* magic, image_ok, copy_done and swap type of each slot
          idx,        \* sectors swapped, in the status area of the primary trailer
          pc,         \* step of context_boot_go(), "app" once it has jumped
          swap_type,  \* BOOT_SWAP_TYPE(state)
          resumed,    \* this boot completes a swap that a reset interrupted
          wdt,        \* has init_wdt() started the watchdog?
          resets, uploads, faults,
          fresh,      \* history: a swap was completed since the reset
          good,       \* history: the last image that was confirmed, or reverted to
          clobbered   \* history: an upload overwrote an image whose swap had begun

loaderVars == << slot, trailer, idx, pc, swap_type, resumed, wdt,
                 resets, uploads, faults, fresh, good, clobbered >>
vars == << loaderVars, pcdVars >>

Slots == {"primary", "secondary"}
UnsetTrailer == [magic |-> FALSE, ok |-> FALSE, done |-> FALSE, type |-> "NONE"]
Whole(i) == [n \in 1 .. Sectors |-> i]

\* BOOT_IS_UPGRADE()
IsUpgrade(t) == t \in {"TEST", "PERM", "REVERT"}

Init ==
  /\ \E a \in Apps : /\ slot = [primary |-> Whole(a), secondary |-> Whole(Erased)]
                     /\ good = a
  /\ trailer = [s \in Slots |-> UnsetTrailer]
  /\ idx = 0 /\ pc = "go" /\ swap_type = "NONE" /\ resumed = FALSE /\ wdt \in BOOLEAN
  /\ resets = 0 /\ uploads = 0 /\ faults = 0 /\ fresh = FALSE /\ clobbered = FALSE
  /\ PcdSpecInit

-----------------------------------------------------------------------------
\* boot_check_header_erased() and the test of ih_magic: is there a header?
HasHeader(s) == slot[s][1] # Erased

\* boot_image_check() and boot_is_header_valid(): the whole of a signed image.
boot_image_check(s) == \E i \in Apps \cup NetImages : slot[s] = Whole(i)

\* The reset vector of the image in the secondary slot is above PM_CPUNET_B0N_ADDRESS.
ForNetCore == slot["secondary"][1] \in NetImages

\* External, swap_read_status(): a swap has begun and has not been completed.
InSwap == trailer["primary"].magic /\ ~trailer["primary"].done

\* External, boot_swap_type_multi(): the table of trailer states, first match.
boot_swap_type_multi ==
  LET p == trailer["primary"]
      s == trailer["secondary"]
  IN  IF s.magic THEN IF s.ok THEN "PERM" ELSE "TEST"
      ELSE IF p.magic /\ ~p.ok /\ p.done THEN "REVERT" ELSE "NONE"

Confirmed == trailer["primary"].ok \/ ~trailer["primary"].magic

\* A flash operation that fails.
Fault == faults < MaxFaults /\ faults' = faults + 1

KeepCounters == UNCHANGED << wdt, resets, uploads >>
Volatile == << swap_type, resumed >>
History == << fresh, good, clobbered >>
-----------------------------------------------------------------------------
\* boot_prepare_image_for_update(), sectors, headers or status unreadable: no swap.
PrepareFails ==
  /\ pc = "go" /\ Fault
  /\ swap_type' = "NONE" /\ pc' = "check"
  /\ KeepCounters /\ UNCHANGED << slot, trailer, idx, resumed, History, pcdVars >>

\* Mutants: a partial swap is begun anew, or not completed at all.
PrepareResumeFromStart ==
  /\ pc = "go" /\ InSwap /\ idx > 0
  /\ swap_type' = trailer["primary"].type /\ resumed' = TRUE
  /\ idx' = 0 /\ pc' = "swap"
  /\ KeepCounters /\ UNCHANGED << slot, trailer, faults, History, pcdVars >>

PrepareResumeIgnored ==
  /\ pc = "go" /\ InSwap /\ idx > 0
  /\ swap_type' = "NONE" /\ resumed' = TRUE
  /\ pc' = "check"
  /\ KeepCounters /\ UNCHANGED << slot, trailer, idx, faults, History, pcdVars >>

\* A partial swap is found: boot_complete_partial_swap().
PrepareResume ==
  /\ pc = "go" /\ InSwap /\ idx > 0
  /\ swap_type' = trailer["primary"].type /\ resumed' = TRUE
  /\ pc' = "swap"
  /\ KeepCounters /\ UNCHANGED << slot, trailer, idx, faults, History, pcdVars >>

\* boot_validate_slot() of the secondary slot, for a caller that goes to step
\* `ok` with type t if it is valid, and takes type `no` if it is not.  Where only
\* the header is gone the trailer is erased too; an invalid image is erased.
ValidateSecondary(t, no, ok) ==
  /\ UNCHANGED << slot, idx >>
  /\ \/ /\ ~HasHeader("secondary")
        /\ trailer' = [trailer EXCEPT !["secondary"] = UnsetTrailer]
        /\ swap_type' = no /\ pc' = IF no = "FAIL" THEN "fail" ELSE "check"
     \/ /\ HasHeader("secondary") /\ ~boot_image_check("secondary")
        /\ swap_type' = no /\ pc' = "erase"
        /\ UNCHANGED trailer
     \/ /\ HasHeader("secondary") /\ boot_image_check("secondary")
        /\ swap_type' = t /\ pc' = ok
        /\ UNCHANGED trailer

\* The swap type was recorded but no sector moved: validate, then swap.
PreparePending ==
  /\ pc = "go" /\ InSwap /\ idx = 0
  /\ ValidateSecondary(trailer["primary"].type, "FAIL", "swap1")
  /\ KeepCounters /\ UNCHANGED << resumed, faults, History, pcdVars >>

\* boot_validated_swap_type(), the read of the reset vector or flash_area_open()
\* of the slot fails.
SwapTypeFails ==
  /\ pc = "go" /\ ~InSwap /\ Fault
  /\ HasHeader("secondary") \/ IsUpgrade(boot_swap_type_multi)
  /\ swap_type' = "FAIL" /\ pc' = "fail"
  /\ KeepCounters /\ UNCHANGED << slot, trailer, idx, resumed, History, pcdVars >>

\* Mutant: only what was asked for is swapped, a revert is not.
boot_validated_swap_type_asked ==
  /\ pc = "go" /\ ~InSwap
  /\ \/ /\ ~trailer["secondary"].magic
        /\ swap_type' = "NONE" /\ pc' = "check"
        /\ UNCHANGED << slot, trailer, idx >>
     \/ /\ trailer["secondary"].magic
        /\ ValidateSecondary(boot_swap_type_multi, "NONE",
                             IF ForNetCore THEN "netcore" ELSE "swap0")
  /\ KeepCounters /\ UNCHANGED << resumed, faults, History, pcdVars >>

\* Otherwise: no swap, or a validated one; an image for the network core is
\* handed over to it instead of being swapped.
boot_validated_swap_type ==
  /\ pc = "go" /\ ~InSwap
  /\ \/ /\ ~IsUpgrade(boot_swap_type_multi)
        /\ swap_type' = "NONE" /\ pc' = "check"
        /\ UNCHANGED << slot, trailer, idx >>
     \/ /\ IsUpgrade(boot_swap_type_multi)
        /\ ValidateSecondary(boot_swap_type_multi, "NONE",
                             IF ForNetCore THEN "netcore" ELSE "swap0")
  /\ KeepCounters /\ UNCHANGED << resumed, faults, History, pcdVars >>

\* Mutant: after the erase the type is left to the caller's default.
EraseSlotMutant ==
  /\ pc = "erase"
  /\ slot' = [slot EXCEPT !["secondary"] = Whole(Erased)]
  /\ trailer' = [trailer EXCEPT !["secondary"] = UnsetTrailer]
  /\ swap_type' = "PANIC" /\ pc' = "check"
  /\ KeepCounters /\ UNCHANGED << idx, resumed, faults, History, pcdVars >>

\* flash_area_erase() of the secondary slot: the image first, its trailer last.
EraseSlot ==
  /\ pc = "erase"
  /\ IF HasHeader("secondary")
     THEN /\ slot' = [slot EXCEPT !["secondary"] = Whole(Erased)]
          /\ UNCHANGED << trailer, pc >>
     ELSE /\ trailer' = [trailer EXCEPT !["secondary"] = UnsetTrailer]
          /\ pc' = IF swap_type = "FAIL" THEN "fail" ELSE "check"
          /\ UNCHANGED slot
  /\ KeepCounters /\ UNCHANGED << idx, Volatile, faults, History, pcdVars >>
-----------------------------------------------------------------------------
\* pcd_network_core_update() is called ...
NetCoreUpdate ==
  /\ pc = "netcore" /\ app_pc = "idle"
  /\ pcd_network_core_update(slot["secondary"][1])
  /\ UNCHANGED loaderVars

\* ... runs on both cores ...
NetCoreStep == PcdStep /\ UNCHANGED loaderVars

\* ... and has succeeded: the trailer's sector is erased, a failure is only printed.
NetCoreUpdated ==
  /\ pc = "netcore" /\ app_pc = "done"
  /\ app_pc' = "idle"
  /\ \/ trailer' = [trailer EXCEPT !["secondary"] = UnsetTrailer] /\ UNCHANGED faults
     \/ Fault /\ UNCHANGED trailer
  /\ swap_type' = "NONE" /\ pc' = "check"
  /\ KeepCounters
  /\ UNCHANGED << slot, idx, resumed, History, cmd, net_pc, net_i, s0 >>

\* ... or failed: BOOT_SWAP_TYPE_FAIL.
NetCoreFailed ==
  /\ pc = "netcore" /\ app_pc = "failed"
  /\ app_pc' = "idle"
  /\ swap_type' = "FAIL" /\ pc' = "fail"
  /\ KeepCounters
  /\ UNCHANGED << slot, trailer, idx, resumed, faults, History, cmd, net_pc, net_i, s0 >>
-----------------------------------------------------------------------------
\* External, swap_run(): a revert marks the secondary slot for a permanent swap
\* before the primary's trailer is given up; then the primary's trailer is
\* rewritten, the secondary's erased, and the sectors are exchanged one by one.
SwapMarkRevert ==
  /\ pc = "swap0" /\ swap_type = "REVERT" /\ ~trailer["secondary"].magic
  /\ trailer' = [trailer EXCEPT !["secondary"] = [UnsetTrailer EXCEPT !.magic = TRUE, !.ok = TRUE]]
  /\ KeepCounters /\ UNCHANGED << slot, idx, pc, Volatile, faults, History, pcdVars >>

SwapBegin ==
  /\ pc = "swap0" /\ trailer["secondary"].magic
  /\ trailer' = [trailer EXCEPT !["primary"] =
                   [magic |-> TRUE, ok |-> trailer["secondary"].ok, done |-> FALSE, type |-> swap_type]]
  /\ idx' = 0 /\ pc' = "swap1"
  /\ KeepCounters /\ UNCHANGED << slot, Volatile, faults, History, pcdVars >>

SwapEraseTrailer ==
  /\ pc = "swap1"
  /\ trailer' = [trailer EXCEPT !["secondary"] = UnsetTrailer]
  /\ pc' = "swap"
  /\ KeepCounters /\ UNCHANGED << slot, idx, Volatile, faults, History, pcdVars >>

\* Mutant: the primary slot's sector is erased before it is copied.
boot_copy_region_erases(to, from, n) ==
  [to EXCEPT ![n] = IF from = "primary" THEN Erased ELSE slot[from][n]]

\* boot_copy_region(): what is in `to` once sector n of slot `from` is copied there
\* (the sector has been erased by boot_erase_region()).
boot_copy_region(to, from, n) == [to EXCEPT ![n] = slot[from][n]]

\* boot_write_status(): one more sector is done, in the primary's trailer.
boot_write_status == idx' = idx + 1

SwapSector ==
  /\ pc = "swap" /\ idx < Sectors
  /\ slot' = [slot EXCEPT !["primary"] = boot_copy_region(@, "secondary", idx + 1),
                          !["secondary"] = boot_copy_region(@, "primary", idx + 1)]
  /\ boot_write_status
  /\ KeepCounters /\ UNCHANGED << trailer, pc, Volatile, faults, History, pcdVars >>

\* boot_swap_image() returns.
boot_swap_image ==
  /\ pc = "swap" /\ idx = Sectors
  /\ pc' = "image_ok"
  /\ KeepCounters /\ UNCHANGED << slot, trailer, idx, Volatile, faults, History, pcdVars >>

\* image_ok after a revert or a permanent swap.  When the write fails, a resumed
\* swap still gets its copy_done before the panic, a clean one does not.
SetImageOk ==
  /\ pc = "image_ok"
  /\ \/ /\ swap_type = "TEST"
        /\ pc' = "copy_done" /\ UNCHANGED << trailer, faults, good >>
     \/ /\ swap_type \in {"REVERT", "PERM"}
        /\ trailer' = [trailer EXCEPT !["primary"].ok = TRUE]
        /\ good' = slot["primary"][1]
        /\ pc' = "copy_done" /\ UNCHANGED faults
     \/ /\ swap_type \in {"REVERT", "PERM"} /\ Fault
        /\ trailer' = [trailer EXCEPT !["primary"].done = resumed]
        /\ pc' = "panic" /\ UNCHANGED good
  /\ KeepCounters /\ UNCHANGED << slot, idx, Volatile, fresh, clobbered, pcdVars >>

\* copy_done of every swap.
SetCopyDone ==
  /\ pc = "copy_done"
  /\ \/ /\ trailer' = [trailer EXCEPT !["primary"].done = TRUE]
        /\ swap_type' = IF resumed THEN "NONE" ELSE swap_type
        /\ fresh' = TRUE
        /\ pc' = "check" /\ UNCHANGED faults
     \/ Fault /\ pc' = "panic" /\ UNCHANGED << trailer, swap_type, fresh >>
  /\ KeepCounters /\ UNCHANGED << slot, idx, resumed, good, clobbered, pcdVars >>

\* context_boot_go(), BOOT_SWAP_TYPE_FAIL: pretend to have just reverted.
SwapTypeFail ==
  /\ pc = "fail"
  /\ \/ /\ trailer' = [trailer EXCEPT !["primary"].ok = TRUE]
        /\ pc' = "check" /\ UNCHANGED faults
     \/ Fault /\ pc' = "panic" /\ UNCHANGED trailer
  /\ KeepCounters /\ UNCHANGED << slot, idx, Volatile, History, pcdVars >>

\* Mutant: the primary slot is not validated again (only its header is looked at).
CheckPrimaryHeader ==
  /\ pc = "check" /\ HasHeader("primary")
  /\ pc' = "jump"
  /\ KeepCounters /\ UNCHANGED << slot, trailer, idx, Volatile, faults, History, pcdVars >>

\* The primary slot is validated again; without a bootable image main() stops.
CheckPrimary ==
  /\ pc = "check"
  /\ pc' = IF boot_image_check("primary") THEN "jump" ELSE "panic"
  /\ KeepCounters /\ UNCHANGED << slot, trailer, idx, Volatile, faults, History, pcdVars >>

\* main() protects the loader's flash, or stops, and do_boot() jumps.
main ==
  /\ pc = "jump"
  /\ \/ pc' = "app" /\ UNCHANGED faults
     \/ pc' = "panic" /\ Fault
  /\ KeepCounters /\ UNCHANGED << slot, trailer, idx, Volatile, History, pcdVars >>

LoaderStep ==
  \/ PrepareFails \/ PrepareResume \/ PreparePending \/ SwapTypeFails \/ boot_validated_swap_type
  \/ EraseSlot \/ NetCoreUpdate \/ NetCoreUpdated \/ NetCoreFailed
  \/ SwapMarkRevert \/ SwapBegin \/ SwapEraseTrailer \/ SwapSector \/ boot_swap_image
  \/ SetImageOk \/ SetCopyDone \/ SwapTypeFail \/ CheckPrimary \/ main
-----------------------------------------------------------------------------
\* The application is external.  It uploads an image into the secondary slot
\* only when it is confirmed itself, asks for a test or a permanent swap, and
\* confirms itself; it turns the network core on.
AppUpload ==
  /\ pc = "app" /\ Confirmed /\ uploads < MaxUploads
  /\ \E i \in Images : slot' = [slot EXCEPT !["secondary"] = Whole(i)]
  /\ trailer' = [trailer EXCEPT !["secondary"] = UnsetTrailer]
  /\ uploads' = uploads + 1
  /\ clobbered' = (clobbered \/ InSwap)
  /\ UNCHANGED << idx, pc, Volatile, wdt, resets, faults, fresh, good, pcdVars >>

AppRequest ==
  /\ pc = "app" /\ Confirmed /\ HasHeader("secondary") /\ ~trailer["secondary"].magic
  /\ \E perm \in BOOLEAN :
       trailer' = [trailer EXCEPT !["secondary"].magic = TRUE, !["secondary"].ok = perm]
  /\ KeepCounters /\ UNCHANGED << slot, idx, pc, Volatile, faults, History, pcdVars >>

AppConfirm ==
  /\ pc = "app" /\ ~Confirmed /\ trailer["primary"].done
  /\ trailer' = [trailer EXCEPT !["primary"].ok = TRUE]
  /\ good' = slot["primary"][1]
  /\ KeepCounters /\ UNCHANGED << slot, idx, pc, Volatile, faults, fresh, clobbered, pcdVars >>

AppNetOn == pc = "app" /\ NetOn /\ UNCHANGED loaderVars

\* init_wdt() runs before main(); it may fail to start the watchdog.
init_wdt == wdt' \in BOOLEAN

\* A reset, by power or by the watchdog.  When the loader hangs only the watchdog
\* ends it.
Reset ==
  /\ \/ pc # "go" /\ resets < MaxResets /\ resets' = resets + 1
     \/ pc = "panic" /\ wdt /\ UNCHANGED resets
  /\ pc' = "go" /\ swap_type' = "NONE" /\ resumed' = FALSE /\ fresh' = FALSE
  /\ init_wdt
  /\ PcdReset
  /\ UNCHANGED << slot, trailer, idx, uploads, faults, good, clobbered >>

Next == LoaderStep \/ NetCoreStep \/ AppUpload \/ AppRequest \/ AppConfirm \/ AppNetOn \/ Reset

Spec == Init /\ [][Next]_vars

\* Both cores run; a hung loader is reset by its watchdog if that was started.
FairSpec ==
  /\ Spec
  /\ WF_vars(LoaderStep)
  /\ WF_vars((AppRefill \/ AppPublish \/ AppEnd) /\ UNCHANGED loaderVars)
  /\ WF_vars((NetBoot \/ NetCopyInternal \/ NetLoop \/ NetPoll \/ NetValidate) /\ UNCHANGED loaderVars)
  /\ WF_vars(pc = "panic" /\ Reset)
-----------------------------------------------------------------------------
LoaderTypeOK ==
  /\ slot \in [Slots -> [1 .. Sectors -> Images \cup {Erased}]]
  /\ trailer \in [Slots -> [magic : BOOLEAN, ok : BOOLEAN, done : BOOLEAN,
                            type : {"NONE", "TEST", "PERM", "REVERT"}]]
  /\ idx \in 0 .. Sectors
  /\ swap_type \in {"NONE", "TEST", "PERM", "REVERT", "FAIL"}
  /\ {resumed, wdt, fresh, clobbered} \subseteq BOOLEAN
  /\ good \in Apps \cup NetImages

\* context_boot_go() jumps only into a complete application image, wherever resets
\* and flash faults hit the swap: never into half of one, nor into the network core's.
\* The exception needs a flash fault and then an upload over an image whose swap
\* had begun: PreparePending does not look at the reset vector.
JumpsIntoWholeImage ==
  pc = "app" => \E i \in IF clobbered THEN Images ELSE Apps : slot["primary"] = Whole(i)

\* While an image is on trial the last confirmed one is whole in the secondary
\* slot, so that the revert of boot_validated_swap_type() has something to go back to.
RevertPossible ==
  pc = "app" /\ ~Confirmed /\ faults = 0 => slot["secondary"] = Whole(good)

\* An image that has not confirmed itself runs only in the boot that swapped it
\* in: the next boot reverts it, however often the revert is interrupted.
TrialEndsWithReset == pc = "app" /\ ~Confirmed /\ faults = 0 => fresh

\* A swap in progress can be completed: the two images are there, sector by
\* sector, in one slot or the other.
SwapLosesNothing ==
  InSwap /\ faults = 0 =>
    \E a, b \in Apps : \A n \in 1 .. Sectors :
      << slot["primary"][n], slot["secondary"][n] >> = IF n <= idx THEN << b, a >> ELSE << a, b >>

\* Whatever resets and faults did to a swap, the loader comes to start an application
\* again, or hangs with no watchdog running (or the image was overwritten meanwhile).
Boots == []<>(pc = "app" \/ (pc = "panic" /\ ~wdt) \/ clobbered)

\* 9loader.c, BOOT_SWAP_TYPE_FAIL: "The image in secondary slot was invalid and is
\* now erased. Ensure we don't try to boot into it again on the next reboot."
FailMeansErased == pc = "fail" => slot["secondary"] = Whole(Erased)
=============================================================================
