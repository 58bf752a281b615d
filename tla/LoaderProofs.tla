---------------------------- MODULE LoaderProofs ----------------------------
(***************************************************************************)
(* The boot loader for every number of sectors, every set of images and    *)
(* any number of resets, uploads and flash faults: it jumps only into a    *)
(* whole application image, and, as long as no flash operation failed, an  *)
(* interrupted swap has lost nothing and an image on trial is reverted.    *)
(*                                                                         *)
(* The network-core update for every set of images and every length: a     *)
(* copy that was reported done has every chunk but the last in its place.  *)
(***************************************************************************)
EXTENDS BootLoader, TLAPS

-----------------------------------------------------------------------------
(* The swap of the application image.                                       *)

Trailers == [magic : BOOLEAN, ok : BOOLEAN, done : BOOLEAN,
             type : {"NONE", "TEST", "PERM", "REVERT", "FAIL"}]

LoaderTyped == /\ slot \in [Slots -> [1 .. Sectors -> Images \cup {Erased}]]
               /\ trailer \in [Slots -> Trailers]
               /\ idx \in 0 .. Sectors
               /\ swap_type \in {"NONE", "TEST", "PERM", "REVERT", "FAIL"}
               /\ resumed \in BOOLEAN
               /\ faults \in Nat

\* The loader swaps sectors and marks the result only in a swap that is recorded.
SwapRecorded == pc \in {"swap1", "swap", "image_ok", "copy_done"} => InSwap

\* The image that runs has been validated since the last write to its slot.
Validated == pc \in {"jump", "app"} => boot_image_check("primary")

\* No sector of the network core's images is in the primary slot, nor in the secondary one
\* when its sectors are about to be moved there.
NoNetSector ==
  ~clobbered => /\ \A n \in 1 .. Sectors : slot["primary"][n] \notin NetImages
                /\ InSwap \/ pc = "swap0" =>
                     \A n \in 1 .. Sectors : slot["secondary"][n] \notin NetImages

\* The inductive invariant of what the loader jumps into.
JumpInv == LoaderTyped /\ SwapRecorded /\ Validated /\ NoNetSector

\* Sectors 1 to idx of two images have been exchanged.
Exchanged(a, b) ==
  \A n \in 1 .. Sectors :
    << slot["primary"][n], slot["secondary"][n] >> = IF n <= idx THEN << b, a >> ELSE << a, b >>

\* As long as nothing failed there are two images half exchanged while a swap is recorded,
\* and one in the primary slot otherwise; and the loader is where this says.
SwapInv ==
  faults = 0 =>
    /\ InSwap => \E a, b \in Apps : Exchanged(a, b)
    /\ ~InSwap => \E a \in Apps : slot["primary"] = Whole(a)
    /\ InSwap => pc \in {"go", "swap1", "swap", "image_ok", "copy_done"}
    /\ pc = "swap0" => \E b \in Apps : slot["secondary"] = Whole(b)
    /\ pc = "swap1" => idx = 0
    /\ pc \in {"image_ok", "copy_done"} => idx = Sectors

\* The trailers of the two slots, and the steps of a swap that is recorded.
P == trailer["primary"]
S == trailer["secondary"]
Swapping == {"swap1", "swap", "image_ok", "copy_done"}

\* Where the last confirmed image is: in the primary slot when what runs is confirmed, in
\* the secondary one during a trial, half exchanged while a trial begins.
GoodKept ==
  /\ good \in Apps
  /\ ~InSwap /\ Confirmed => slot["primary"] = Whole(good)
  /\ ~InSwap /\ ~Confirmed => slot["secondary"] = Whole(good)
  /\ InSwap /\ ~P.ok => \E b \in Apps : Exchanged(good, b)
  /\ pc = "copy_done" /\ P.ok => slot["primary"] = Whole(good)

\* The trailers and the loader agree on the type of a swap.  During a trial the secondary
\* slot is marked only for its revert, and no longer once its sectors move.
TypesAgree ==
  /\ ~InSwap /\ ~Confirmed => (S.magic => S.ok)
  /\ InSwap => /\ P.type \in {"TEST", "PERM", "REVERT"}
               /\ P.ok <=> P.type # "TEST"
               /\ idx > 0 \/ pc \in {"swap", "image_ok", "copy_done"} => ~S.magic
  /\ pc \in Swapping => swap_type = P.type
  /\ pc = "swap0" => /\ swap_type \in {"TEST", "PERM", "REVERT"}
                     /\ S.magic \/ swap_type = "REVERT"
                     /\ S.magic => (S.ok <=> swap_type # "TEST")

\* The loader erases, updates the network core or gives up only when what is in the
\* primary slot is confirmed; it boots what is not only after the swap that brought it.
TrialKnown == /\ pc \in {"erase", "netcore", "fail"} => Confirmed
              /\ pc \in {"check", "jump", "app"} /\ ~Confirmed => fresh

\* With SwapInv, the inductive invariant of a trial.
TrialInv == faults = 0 => GoodKept /\ TypesAgree /\ TrialKnown

\* Only swap types that move an image are recorded in a trailer.
SwapTypes == {"NONE", "TEST", "PERM", "REVERT"}
TypesKnown == /\ P.type \in SwapTypes /\ S.type \in SwapTypes
              /\ pc = "swap0" => IsUpgrade(swap_type)

FlagsKnown == wdt \in BOOLEAN /\ fresh \in BOOLEAN /\ clobbered \in BOOLEAN

\* The first sector that is moved is that of an image that was validated, also after flash
\* faults and an upload over an image whose swap had begun; so what is taken for confirmed
\* at the end of the swap is a signed image.
Valid == Apps \cup NetImages
GoodKnown ==
  /\ good \in Valid
  /\ InSwap /\ idx > 0 => slot["primary"][1] \in Valid
  /\ pc = "swap0" => slot["secondary"][1] \in Valid
  /\ pc \in {"swap1", "swap"} /\ idx = 0 => slot["secondary"][1] \in Valid
  /\ pc = "image_ok" => idx > 0

\* With JumpInv, the inductive invariant of the types.
RecordInv == TypesKnown /\ FlagsKnown /\ GoodKnown
-----------------------------------------------------------------------------
\* A whole image has the same image in every sector, and a slot has a first one.
LEMMA WholeSectors ==
  /\ 1 \in 1 .. Sectors
  /\ \A i : \A n \in 1 .. Sectors : Whole(i)[n] = i
  BY LoaderAssumption DEF Whole

LEMMA LoaderTypedInit == Init => LoaderTyped
  <1> SUFFICES ASSUME Init PROVE LoaderTyped
    OBVIOUS
  <1>1. slot \in [Slots -> [1 .. Sectors -> Images \cup {Erased}]]
    <2>1. PICK a \in Apps : slot = [primary |-> Whole(a), secondary |-> Whole(Erased)]
      BY DEF Init
    <2>2. /\ Whole(a) \in [1 .. Sectors -> Images \cup {Erased}]
          /\ Whole(Erased) \in [1 .. Sectors -> Images \cup {Erased}]
      BY DEF Whole, Images
    <2> QED
      BY <2>1, <2>2 DEF Slots
  <1>2. trailer \in [Slots -> Trailers]
    BY DEF Init, UnsetTrailer, Trailers
  <1>3. idx \in 0 .. Sectors /\ faults \in Nat
    BY LoaderAssumption DEF Init
  <1>4. resumed \in BOOLEAN /\ swap_type \in {"NONE", "TEST", "PERM", "REVERT", "FAIL"}
    BY DEF Init
  <1> QED
    BY <1>1, <1>2, <1>3, <1>4 DEF LoaderTyped

\* A step that writes neither slot and leaves a trailer what it is.
LEMMA LoaderTypedKept ==
  ASSUME LoaderTyped, UNCHANGED slot, trailer' \in [Slots -> Trailers],
         idx' = idx \/ idx' = 0,
         swap_type' \in {"NONE", "TEST", "PERM", "REVERT", "FAIL"}, resumed' \in BOOLEAN,
         faults' = faults \/ faults' = faults + 1
  PROVE  LoaderTyped'
  <1>1. idx' \in 0 .. Sectors /\ faults' \in Nat
    BY LoaderAssumption DEF LoaderTyped
  <1> QED
    BY <1>1 DEF LoaderTyped

\* What the loader and the application store in a trailer.
LEMMA TrailerWrites ==
  ASSUME LoaderTyped
  PROVE  /\ [trailer EXCEPT !["secondary"] = UnsetTrailer] \in [Slots -> Trailers]
         /\ [trailer EXCEPT !["secondary"] = [UnsetTrailer EXCEPT !.magic = TRUE, !.ok = TRUE]]
              \in [Slots -> Trailers]
         /\ \A v \in BOOLEAN :
              /\ [trailer EXCEPT !["primary"].ok = v] \in [Slots -> Trailers]
              /\ [trailer EXCEPT !["primary"].done = v] \in [Slots -> Trailers]
              /\ [trailer EXCEPT !["secondary"].magic = TRUE, !["secondary"].ok = v]
                   \in [Slots -> Trailers]
         /\ [trailer EXCEPT !["primary"] =
               [magic |-> TRUE, ok |-> trailer["secondary"].ok, done |-> FALSE, type |-> swap_type]]
              \in [Slots -> Trailers]
  BY DEF LoaderTyped, Trailers, UnsetTrailer, Slots

\* Every step keeps the types.
LEMMA LoaderTypedNext == LoaderTyped /\ [Next]_vars => LoaderTyped'
  <1> SUFFICES ASSUME LoaderTyped, [Next]_vars
               PROVE  LoaderTyped'
    OBVIOUS
  <1> USE DEF Fault, Volatile, KeepCounters
  <1>a. /\ trailer \in [Slots -> Trailers] /\ resumed \in BOOLEAN
        /\ swap_type \in {"NONE", "TEST", "PERM", "REVERT", "FAIL"}
    BY DEF LoaderTyped
  <1>b. trailer["primary"].type \in {"NONE", "TEST", "PERM", "REVERT", "FAIL"}
    BY <1>a DEF Trailers, Slots
  <1>c. boot_swap_type_multi \in {"NONE", "TEST", "PERM", "REVERT"}
    BY DEF boot_swap_type_multi
  <1>d. \A n \in 1 .. Sectors : slot["primary"][n] \in Images \cup {Erased}
                             /\ slot["secondary"][n] \in Images \cup {Erased}
    BY DEF LoaderTyped, Slots
  <1>1. CASE PrepareFails \/ SwapTypeFails
    BY <1>1, <1>a, LoaderTypedKept DEF PrepareFails, SwapTypeFails
  <1>2. CASE PrepareResume
    BY <1>2, <1>a, <1>b, LoaderTypedKept DEF PrepareResume
  <1>3. CASE PreparePending
    BY <1>3, <1>a, <1>b, LoaderTypedKept, TrailerWrites DEF PreparePending, ValidateSecondary
  <1>4. CASE boot_validated_swap_type
    BY <1>4, <1>a, <1>c, LoaderTypedKept, TrailerWrites
    DEF boot_validated_swap_type, ValidateSecondary
  <1>5. CASE EraseSlot
    <2>1. CASE HasHeader("secondary")
      <3>1. slot' \in [Slots -> [1 .. Sectors -> Images \cup {Erased}]]
        BY <1>5, <2>1 DEF EraseSlot, LoaderTyped, Whole
      <3> QED
        BY <1>5, <2>1, <3>1 DEF EraseSlot, LoaderTyped
    <2>2. CASE ~HasHeader("secondary")
      BY <1>5, <2>2, <1>a, LoaderTypedKept, TrailerWrites DEF EraseSlot
    <2> QED
      BY <2>1, <2>2
  <1>6. CASE NetCoreUpdate \/ NetCoreStep \/ AppNetOn
    BY <1>6, <1>a, LoaderTypedKept DEF NetCoreUpdate, NetCoreStep, AppNetOn, loaderVars
  <1>7. CASE NetCoreUpdated \/ NetCoreFailed
    BY <1>7, <1>a, LoaderTypedKept, TrailerWrites DEF NetCoreUpdated, NetCoreFailed
  <1>8. CASE SwapMarkRevert \/ SwapBegin \/ SwapEraseTrailer
    BY <1>8, <1>a, LoaderTypedKept, TrailerWrites DEF SwapMarkRevert, SwapBegin, SwapEraseTrailer
  <1>9. CASE SwapSector
    <2>1. idx + 1 \in 1 .. Sectors
      BY <1>9, LoaderAssumption DEF SwapSector, LoaderTyped
    <2>2. /\ boot_copy_region(slot["primary"], "secondary", idx + 1)
               \in [1 .. Sectors -> Images \cup {Erased}]
          /\ boot_copy_region(slot["secondary"], "primary", idx + 1)
               \in [1 .. Sectors -> Images \cup {Erased}]
      BY <1>d, <2>1 DEF boot_copy_region, LoaderTyped, Slots
    <2>3. slot' \in [Slots -> [1 .. Sectors -> Images \cup {Erased}]]
      BY <1>9, <2>2 DEF SwapSector, LoaderTyped, Slots
    <2>4. idx' \in 0 .. Sectors
      BY <1>9, <2>1, LoaderAssumption DEF SwapSector, boot_write_status, LoaderTyped
    <2> QED
      BY <1>9, <2>3, <2>4 DEF SwapSector, LoaderTyped
  <1>10. CASE boot_swap_image \/ CheckPrimary \/ main
    BY <1>10, <1>a, LoaderTypedKept DEF boot_swap_image, CheckPrimary, main
  <1>11. CASE SetImageOk
    BY <1>11, <1>a, LoaderTypedKept, TrailerWrites DEF SetImageOk
  <1>12. CASE SetCopyDone \/ SwapTypeFail
    BY <1>12, <1>a, LoaderTypedKept, TrailerWrites DEF SetCopyDone, SwapTypeFail
  <1>13. CASE AppUpload
    <2>1. slot' \in [Slots -> [1 .. Sectors -> Images \cup {Erased}]]
      BY <1>13 DEF AppUpload, LoaderTyped, Whole
    <2>2. trailer' \in [Slots -> Trailers]
      BY <1>13, TrailerWrites DEF AppUpload
    <2> QED
      BY <1>13, <2>1, <2>2 DEF AppUpload, LoaderTyped
  <1>14. CASE AppRequest \/ AppConfirm
    BY <1>14, <1>a, LoaderTypedKept, TrailerWrites DEF AppRequest, AppConfirm
  <1>15. CASE Reset
    BY <1>15, <1>a, LoaderTypedKept DEF Reset
  <1>16. CASE UNCHANGED vars
    BY <1>16, <1>a, LoaderTypedKept DEF vars, loaderVars
  <1> QED
    BY <1>1, <1>2, <1>3, <1>4, <1>5, <1>6, <1>7, <1>8, <1>9, <1>10, <1>11, <1>12, <1>13, <1>14,
       <1>15, <1>16 DEF Next, LoaderStep
-----------------------------------------------------------------------------
\* What a trailer's write does to the record of a swap: only its two fields count.
LEMMA InSwapWrites ==
  ASSUME LoaderTyped
  PROVE  /\ trailer' = trailer => InSwap' = InSwap
         /\ trailer' = [trailer EXCEPT !["secondary"] = UnsetTrailer] => InSwap' = InSwap
         /\ trailer' = [trailer EXCEPT !["primary"].ok = TRUE] => InSwap' = InSwap
         /\ trailer' = [trailer EXCEPT !["primary"].done = TRUE] => ~InSwap'
         /\ \A v : trailer' = [trailer EXCEPT !["secondary"] = v] => InSwap' = InSwap
         /\ \A v : trailer' = [trailer EXCEPT !["secondary"].magic = TRUE, !["secondary"].ok = v]
              => InSwap' = InSwap
  BY DEF LoaderTyped, Trailers, Slots, InSwap

\* A step that writes to neither slot, begins no swap and validates nothing.
LEMMA JumpKept ==
  ASSUME JumpInv, LoaderTyped', UNCHANGED << slot, clobbered >>,
         InSwap' => InSwap,
         pc' \in {"swap1", "swap", "image_ok", "copy_done"} => InSwap',
         pc' # "swap0" \/ pc = "swap0",
         pc' \notin {"jump", "app"} \/ pc \in {"jump", "app"}
  PROVE  JumpInv'
  BY DEF JumpInv, SwapRecorded, Validated, NoNetSector, boot_image_check

LEMMA JumpInvInit == Init => JumpInv
  <1> SUFFICES ASSUME Init PROVE JumpInv
    OBVIOUS
  <1>1. PICK a \in Apps : slot = [primary |-> Whole(a), secondary |-> Whole(Erased)]
    BY DEF Init
  <1>2. NoNetSector
    BY <1>1, WholeSectors, LoaderAssumption
    DEF NoNetSector, Images, InSwap, Init, UnsetTrailer, Slots
  <1> QED
    BY <1>2, LoaderTypedInit DEF JumpInv, SwapRecorded, Validated, Init

\* A slot that passes boot_image_check() and is not for the network core holds an application.
LEMMA ValidApp ==
  ASSUME NEW s \in Slots, boot_image_check(s), slot[s][1] \notin NetImages
  PROVE  \E a \in Apps : slot[s] = Whole(a)
  BY WholeSectors DEF boot_image_check

LEMMA JumpInvNext == JumpInv /\ [Next]_vars => JumpInv'
  <1> SUFFICES ASSUME JumpInv, [Next]_vars
               PROVE  JumpInv'
    OBVIOUS
  <1> USE DEF KeepCounters, Volatile, History
  <1>a. LoaderTyped /\ LoaderTyped'
    BY LoaderTypedNext DEF JumpInv
  <1>1. CASE PrepareFails \/ SwapTypeFails
    BY <1>1, <1>a, JumpKept DEF PrepareFails, SwapTypeFails, InSwap
  <1>2. CASE PrepareResume
    BY <1>2, <1>a, JumpKept DEF PrepareResume, InSwap
  <1>3. CASE PreparePending
    <2>1. InSwap' = InSwap
      BY <1>3, <1>a, InSwapWrites DEF PreparePending, ValidateSecondary
    <2> QED
      BY <1>3, <1>a, <2>1, JumpKept DEF PreparePending, ValidateSecondary
  <1>4. CASE boot_validated_swap_type
    <2>1. InSwap' = InSwap
      BY <1>4, <1>a, InSwapWrites DEF boot_validated_swap_type, ValidateSecondary
    <2>2. CASE pc' = "swap0"
      <3>1. boot_image_check("secondary") /\ ~ForNetCore /\ UNCHANGED slot
        BY <1>4, <2>2 DEF boot_validated_swap_type, ValidateSecondary
      <3>2. PICK a \in Apps : slot["secondary"] = Whole(a)
        BY <3>1, ValidApp DEF ForNetCore, Slots
      <3>3. NoNetSector'
        BY <1>4, <2>1, <3>1, <3>2, WholeSectors, LoaderAssumption
        DEF boot_validated_swap_type, NoNetSector, JumpInv
      <3> QED
        BY <1>a, <2>2, <3>3 DEF JumpInv, SwapRecorded, Validated
    <2> QED
      BY <1>4, <1>a, <2>1, <2>2, JumpKept DEF boot_validated_swap_type, ValidateSecondary
  <1>5. CASE EraseSlot
    <2>1. CASE HasHeader("secondary")
      <3>1. /\ slot'["primary"] = slot["primary"] /\ slot'["secondary"] = Whole(Erased)
            /\ pc' = "erase" /\ InSwap' = InSwap /\ clobbered' = clobbered
        BY <1>5, <1>a, <2>1 DEF EraseSlot, LoaderTyped, Slots, InSwap
      <3> QED
        BY <1>a, <3>1, WholeSectors, LoaderAssumption
        DEF JumpInv, SwapRecorded, Validated, NoNetSector, Images
    <2>2. CASE ~HasHeader("secondary")
      BY <1>5, <2>2, <1>a, JumpKept, InSwapWrites DEF EraseSlot
    <2> QED
      BY <2>1, <2>2
  <1>6. CASE NetCoreUpdate \/ NetCoreStep \/ AppNetOn
    BY <1>6, <1>a, JumpKept DEF NetCoreUpdate, NetCoreStep, AppNetOn, loaderVars, InSwap, JumpInv,
       SwapRecorded
  <1>7. CASE NetCoreUpdated \/ NetCoreFailed
    <2>1. InSwap' = InSwap
      BY <1>7, <1>a, InSwapWrites DEF NetCoreUpdated, NetCoreFailed
    <2> QED
      BY <1>7, <1>a, <2>1, JumpKept DEF NetCoreUpdated, NetCoreFailed
  <1>8. CASE SwapMarkRevert
    <2>1. InSwap' = InSwap
      BY <1>8, <1>a, InSwapWrites DEF SwapMarkRevert
    <2> QED
      BY <1>8, <1>a, <2>1, JumpKept DEF SwapMarkRevert
  <1>9. CASE SwapBegin
    <2>1. pc = "swap0" /\ pc' = "swap1" /\ UNCHANGED << slot, clobbered >>
      BY <1>9 DEF SwapBegin
    <2>2. InSwap'
      BY <1>9, <1>a DEF SwapBegin, InSwap, LoaderTyped, Slots
    <2> QED
      BY <1>a, <2>1, <2>2 DEF JumpInv, SwapRecorded, Validated, NoNetSector
  <1>10. CASE SwapEraseTrailer
    <2>1. InSwap /\ InSwap' = InSwap
      BY <1>10, <1>a, InSwapWrites DEF SwapEraseTrailer, JumpInv, SwapRecorded
    <2> QED
      BY <1>10, <1>a, <2>1, JumpKept DEF SwapEraseTrailer
  <1>11. CASE SwapSector
    <2>1. /\ InSwap /\ InSwap' /\ pc' = "swap" /\ clobbered' = clobbered /\ idx + 1 \in 1 .. Sectors
      BY <1>11, <1>a, LoaderAssumption DEF SwapSector, JumpInv, SwapRecorded, InSwap, LoaderTyped
    <2>2. /\ slot'["primary"] = boot_copy_region(slot["primary"], "secondary", idx + 1)
          /\ slot'["secondary"] = boot_copy_region(slot["secondary"], "primary", idx + 1)
      BY <1>11, <1>a DEF SwapSector, LoaderTyped, Slots
    <2>3. \A n \in 1 .. Sectors :
            /\ slot'["primary"][n] \in {slot["primary"][n], slot["secondary"][n]}
            /\ slot'["secondary"][n] \in {slot["primary"][n], slot["secondary"][n]}
      BY <1>a, <2>1, <2>2 DEF boot_copy_region, LoaderTyped, Slots
    <2>4. NoNetSector'
      BY <2>1, <2>3 DEF JumpInv, NoNetSector
    <2> QED
      BY <1>a, <2>1, <2>4 DEF JumpInv, SwapRecorded, Validated
  <1>12. CASE boot_swap_image
    <2>1. InSwap /\ InSwap' = InSwap
      BY <1>12, <1>a DEF boot_swap_image, JumpInv, SwapRecorded, InSwap
    <2> QED
      BY <1>12, <1>a, <2>1, JumpKept DEF boot_swap_image
  <1>13. CASE SetImageOk
    <2>1. InSwap /\ (pc' = "copy_done" => InSwap')
      BY <1>13, <1>a, InSwapWrites DEF SetImageOk, JumpInv, SwapRecorded
    <2> QED
      BY <1>13, <1>a, <2>1, JumpKept DEF SetImageOk
  <1>14. CASE SetCopyDone
    <2>1. InSwap /\ pc' \in {"check", "panic"} /\ UNCHANGED << slot, clobbered >>
      BY <1>14, <1>a DEF SetCopyDone, JumpInv, SwapRecorded
    <2> QED
      BY <1>a, <2>1, JumpKept
  <1>15. CASE SwapTypeFail
    <2>1. InSwap' = InSwap
      BY <1>15, <1>a, InSwapWrites DEF SwapTypeFail
    <2> QED
      BY <1>15, <1>a, <2>1, JumpKept DEF SwapTypeFail
  <1>16. CASE CheckPrimary
    <2>1. UNCHANGED << slot, clobbered >> /\ InSwap' = InSwap /\ pc' \in {"jump", "panic"}
      BY <1>16 DEF CheckPrimary, InSwap
    <2>2. pc' = "jump" => boot_image_check("primary")
      BY <1>16 DEF CheckPrimary
    <2> QED
      BY <1>a, <1>16, <2>1, <2>2
      DEF CheckPrimary, JumpInv, SwapRecorded, Validated, NoNetSector, boot_image_check
  <1>17. CASE main
    BY <1>17, <1>a, JumpKept DEF main, InSwap
  <1>18. CASE AppUpload
    <2>1. /\ pc = "app" /\ pc' = "app" /\ slot'["primary"] = slot["primary"] /\ InSwap' = InSwap
          /\ clobbered' = (clobbered \/ InSwap)
      BY <1>18, <1>a, InSwapWrites DEF AppUpload, LoaderTyped, Slots
    <2> QED
      BY <1>a, <2>1 DEF JumpInv, SwapRecorded, Validated, NoNetSector, boot_image_check
  <1>19. CASE AppRequest \/ AppConfirm
    <2>1. InSwap' = InSwap
      BY <1>19, <1>a, InSwapWrites DEF AppRequest, AppConfirm
    <2> QED
      BY <1>19, <1>a, <2>1, JumpKept DEF AppRequest, AppConfirm
  <1>20. CASE Reset
    BY <1>20, <1>a, JumpKept DEF Reset, InSwap
  <1>21. CASE UNCHANGED vars
    BY <1>21, <1>a, JumpKept DEF vars, loaderVars, InSwap, JumpInv, SwapRecorded
  <1> QED
    BY <1>1, <1>2, <1>3, <1>4, <1>5, <1>6, <1>7, <1>8, <1>9, <1>10, <1>11, <1>12, <1>13, <1>14,
       <1>15, <1>16, <1>17, <1>18, <1>19, <1>20, <1>21 DEF Next, LoaderStep
-----------------------------------------------------------------------------
\* A step that writes to neither slot and leaves the record of the swap alone has to be
\* one that brings the loader where SwapInv says it is.
LEMMA SwapKept ==
  ASSUME SwapInv, faults' = faults, UNCHANGED << slot, idx >>, InSwap' = InSwap,
         InSwap => pc' \in {"go", "swap1", "swap", "image_ok", "copy_done"},
         pc' = "swap0" => pc = "swap0" \/ \E b \in Apps : slot["secondary"] = Whole(b),
         pc' = "swap1" => idx = 0,
         pc' \in {"image_ok", "copy_done"} => idx = Sectors
  PROVE  SwapInv'
  BY DEF SwapInv, Exchanged

LEMMA SwapInvInit == Init => SwapInv
  BY DEF Init, SwapInv, InSwap, UnsetTrailer, Slots

\* Before the first sector, and after the last one, each slot holds one image.
LEMMA NoneExchanged ==
  ASSUME LoaderTyped, NEW a \in Apps, NEW b \in Apps, Exchanged(a, b)
  PROVE  /\ idx = 0 => slot["primary"] = Whole(a) /\ slot["secondary"] = Whole(b)
         /\ idx = Sectors => slot["primary"] = Whole(b) /\ slot["secondary"] = Whole(a)
  <1>1. /\ slot["primary"] \in [1 .. Sectors -> Images \cup {Erased}]
        /\ slot["secondary"] \in [1 .. Sectors -> Images \cup {Erased}]
    BY DEF LoaderTyped, Slots
  <1>2. ASSUME idx = 0
        PROVE  \A n \in 1 .. Sectors : slot["primary"][n] = a /\ slot["secondary"][n] = b
    BY <1>2, LoaderAssumption DEF Exchanged
  <1>3. ASSUME idx = Sectors
        PROVE  \A n \in 1 .. Sectors : slot["primary"][n] = b /\ slot["secondary"][n] = a
    <2>1. \A n \in 1 .. Sectors : n <= idx
      BY <1>3, LoaderAssumption
    <2> QED
      BY <2>1 DEF Exchanged
  <1> QED
    BY <1>1, <1>2, <1>3 DEF Whole

\* The secondary slot of a swap that has been recorded but not begun is valid.
LEMMA PendingIsValid ==
  ASSUME LoaderTyped, SwapInv, faults = 0, InSwap, idx = 0
  PROVE  HasHeader("secondary") /\ boot_image_check("secondary")
  <1>1. PICK a \in Apps, b \in Apps : Exchanged(a, b)
    BY DEF SwapInv
  <1>2. slot["secondary"] = Whole(b)
    BY <1>1, NoneExchanged
  <1> QED
    BY <1>2, WholeSectors, LoaderAssumption DEF HasHeader, boot_image_check, Images

\* One more sector of two images is exchanged.
LEMMA SectorExchanged ==
  ASSUME LoaderTyped, SwapSector, NEW a \in Apps, NEW b \in Apps, Exchanged(a, b)
  PROVE  Exchanged(a, b)'
  <1>1. idx \in Nat /\ idx' = idx + 1 /\ idx + 1 \in 1 .. Sectors
    BY LoaderAssumption DEF SwapSector, boot_write_status, LoaderTyped
  <1>2. /\ slot'["primary"] = boot_copy_region(slot["primary"], "secondary", idx + 1)
        /\ slot'["secondary"] = boot_copy_region(slot["secondary"], "primary", idx + 1)
    BY DEF SwapSector, LoaderTyped, Slots
  <1>3. \A n \in 1 .. Sectors :
          /\ slot'["primary"][n] = IF n = idx + 1 THEN slot["secondary"][n] ELSE slot["primary"][n]
          /\ slot'["secondary"][n] = IF n = idx + 1 THEN slot["primary"][n] ELSE slot["secondary"][n]
    BY <1>1, <1>2 DEF boot_copy_region, LoaderTyped, Slots
  <1>4. SUFFICES ASSUME NEW n \in 1 .. Sectors
                 PROVE  << slot'["primary"][n], slot'["secondary"][n] >>
                          = IF n <= idx + 1 THEN << b, a >> ELSE << a, b >>
    BY <1>1 DEF Exchanged
  <1>5. << slot["primary"][n], slot["secondary"][n] >>
          = IF n <= idx THEN << b, a >> ELSE << a, b >>
    BY DEF Exchanged
  <1> QED
    BY <1>1, <1>3, <1>5, LoaderAssumption

\* As long as nothing failed, nothing has failed before.
LEMMA NoFaultBefore == LoaderTyped /\ [Next]_vars /\ faults' = 0 => faults = 0
  <1>1. [Next]_vars => faults' = faults \/ faults' = faults + 1
    BY DEF Next, LoaderStep, PrepareFails, PrepareResume, PreparePending, SwapTypeFails, Fault,
       boot_validated_swap_type, EraseSlot, NetCoreUpdate, NetCoreUpdated, NetCoreFailed,
       SwapMarkRevert, SwapBegin, SwapEraseTrailer, SwapSector, boot_swap_image, SetImageOk,
       SetCopyDone, SwapTypeFail, CheckPrimary, main, NetCoreStep, AppUpload, AppRequest,
       AppConfirm, AppNetOn, Reset, vars, loaderVars
  <1> QED
    BY <1>1 DEF LoaderTyped

LEMMA SwapInvNext == JumpInv /\ SwapInv /\ [Next]_vars => SwapInv'
  <1> SUFFICES ASSUME JumpInv, SwapInv, [Next]_vars, faults' = 0
               PROVE  SwapInv'
    BY DEF SwapInv
  <1> USE DEF KeepCounters, Volatile, History, Fault
  <1>a. /\ LoaderTyped /\ LoaderTyped' /\ faults = 0 /\ faults' # faults + 1
        /\ trailer \in [Slots -> Trailers]
    BY NoFaultBefore, LoaderTypedNext DEF JumpInv, LoaderTyped
  <1>b. InSwap => pc \in {"go", "swap1", "swap", "image_ok", "copy_done"}
    BY <1>a DEF SwapInv
  <1>1. CASE PrepareFails \/ SwapTypeFails
    BY <1>1, <1>a DEF PrepareFails, SwapTypeFails
  <1>2. CASE PrepareResume
    BY <1>2, <1>a, SwapKept DEF PrepareResume, InSwap
  <1>3. CASE PreparePending
    <2>1. HasHeader("secondary") /\ boot_image_check("secondary")
      BY <1>3, <1>a, PendingIsValid DEF PreparePending
    <2>2. InSwap' = InSwap /\ pc' = "swap1"
      BY <1>3, <2>1, <1>a, InSwapWrites DEF PreparePending, ValidateSecondary
    <2> QED
      BY <1>3, <1>a, <2>2, SwapKept DEF PreparePending, ValidateSecondary
  <1>4. CASE boot_validated_swap_type
    <2>1. InSwap' = InSwap /\ ~InSwap
      BY <1>4, <1>a, InSwapWrites DEF boot_validated_swap_type, ValidateSecondary
    <2>2. pc' = "swap0" => \E b \in Apps : slot["secondary"] = Whole(b)
      <3>1. pc' = "swap0" => boot_image_check("secondary") /\ slot["secondary"][1] \notin NetImages
        BY <1>4 DEF boot_validated_swap_type, ValidateSecondary, ForNetCore
      <3> QED
        BY <3>1, ValidApp DEF Slots
    <2> QED
      BY <1>4, <1>a, <2>1, <2>2, SwapKept DEF boot_validated_swap_type, ValidateSecondary
  <1>5. CASE EraseSlot
    <2>1. ~InSwap /\ ~InSwap'
      BY <1>5, <1>a, <1>b, InSwapWrites DEF EraseSlot
    <2>2. slot'["primary"] = slot["primary"] /\ pc' \in {"erase", "fail", "check"}
      BY <1>5, <1>a DEF EraseSlot, LoaderTyped, Slots
    <2> QED
      BY <1>a, <2>1, <2>2 DEF SwapInv
  <1>6. CASE NetCoreUpdate \/ NetCoreStep \/ AppNetOn \/ UNCHANGED vars
    <2>1. UNCHANGED << slot, trailer, idx, pc, faults >> /\ InSwap' = InSwap
      BY <1>6 DEF NetCoreUpdate, NetCoreStep, AppNetOn, vars, loaderVars, InSwap
    <2> QED
      BY <2>1 DEF SwapInv, Exchanged
  <1>7. CASE NetCoreUpdated \/ NetCoreFailed
    <2>1. InSwap' = InSwap /\ ~InSwap
      BY <1>7, <1>a, <1>b, InSwapWrites DEF NetCoreUpdated, NetCoreFailed
    <2> QED
      BY <1>7, <1>a, <2>1, SwapKept DEF NetCoreUpdated, NetCoreFailed
  <1>8. CASE SwapMarkRevert
    <2>1. InSwap' = InSwap /\ ~InSwap
      BY <1>8, <1>a, <1>b, InSwapWrites DEF SwapMarkRevert
    <2> QED
      BY <1>8, <1>a, <2>1, SwapKept DEF SwapMarkRevert
  <1>9. CASE SwapBegin
    <2>1. /\ pc = "swap0" /\ pc' = "swap1" /\ idx' = 0 /\ UNCHANGED slot /\ ~InSwap
      BY <1>9, <1>b DEF SwapBegin
    <2>2. PICK a \in Apps, b \in Apps : slot["primary"] = Whole(a) /\ slot["secondary"] = Whole(b)
      BY <1>a, <2>1 DEF SwapInv
    <2>3. Exchanged(a, b)'
      BY <2>1, <2>2, WholeSectors, LoaderAssumption DEF Exchanged
    <2>4. InSwap'
      BY <1>9, <1>a DEF SwapBegin, InSwap, Slots
    <2> QED
      BY <2>1, <2>3, <2>4 DEF SwapInv
  <1>10. CASE SwapEraseTrailer
    <2>1. InSwap' = InSwap
      BY <1>10, <1>a, InSwapWrites DEF SwapEraseTrailer
    <2> QED
      BY <1>10, <1>a, <2>1, SwapKept DEF SwapEraseTrailer
  <1>11. CASE SwapSector
    <2>1. InSwap /\ InSwap' /\ pc' = "swap"
      BY <1>11 DEF SwapSector, JumpInv, SwapRecorded, InSwap
    <2>2. PICK a \in Apps, b \in Apps : Exchanged(a, b)
      BY <1>a, <2>1 DEF SwapInv
    <2>3. Exchanged(a, b)'
      BY <1>11, <1>a, <2>2, SectorExchanged
    <2> QED
      BY <2>1, <2>3 DEF SwapInv
  <1>12. CASE boot_swap_image
    BY <1>12, <1>a, SwapKept DEF boot_swap_image, InSwap
  <1>13. CASE SetImageOk
    <2>1. pc' = "copy_done" /\ idx = Sectors /\ UNCHANGED << slot, idx >>
      BY <1>13, <1>a DEF SetImageOk, SwapInv
    <2>2. InSwap' = InSwap
      BY <1>13, <1>a, InSwapWrites DEF SetImageOk
    <2> QED
      BY <1>13, <1>a, <2>1, <2>2, SwapKept DEF SetImageOk
  <1>14. CASE SetCopyDone
    <2>1. InSwap /\ idx = Sectors /\ pc' = "check" /\ UNCHANGED slot
      BY <1>14, <1>a DEF SetCopyDone, SwapInv, JumpInv, SwapRecorded
    <2>2. ~InSwap'
      BY <1>14, <1>a, InSwapWrites DEF SetCopyDone
    <2>3. PICK a \in Apps, b \in Apps : Exchanged(a, b)
      BY <1>a, <2>1 DEF SwapInv
    <2>4. slot["primary"] = Whole(b)
      BY <1>a, <2>1, <2>3, NoneExchanged
    <2> QED
      BY <2>1, <2>2, <2>4 DEF SwapInv
  <1>15. CASE SwapTypeFail
    <2>1. InSwap' = InSwap /\ ~InSwap
      BY <1>15, <1>a, <1>b, InSwapWrites DEF SwapTypeFail
    <2> QED
      BY <1>15, <1>a, <2>1, SwapKept DEF SwapTypeFail
  <1>16. CASE CheckPrimary \/ main
    <2>1. InSwap' = InSwap /\ ~InSwap
      BY <1>16, <1>b DEF CheckPrimary, main, InSwap
    <2> QED
      BY <1>16, <1>a, <2>1, SwapKept DEF CheckPrimary, main
  <1>17. CASE AppUpload
    <2>1. pc' = "app" /\ ~InSwap /\ ~InSwap'
      BY <1>17, <1>a, <1>b, InSwapWrites DEF AppUpload
    <2>2. slot'["primary"] = slot["primary"]
      BY <1>17, <1>a DEF AppUpload, LoaderTyped, Slots
    <2> QED
      BY <1>a, <2>1, <2>2 DEF SwapInv
  <1>18. CASE AppRequest \/ AppConfirm
    <2>1. InSwap' = InSwap /\ ~InSwap
      BY <1>18, <1>a, <1>b, InSwapWrites DEF AppRequest, AppConfirm
    <2> QED
      BY <1>18, <1>a, <2>1, SwapKept DEF AppRequest, AppConfirm
  <1>19. CASE Reset
    BY <1>19, <1>a, SwapKept DEF Reset, InSwap
  <1> QED
    BY <1>1, <1>2, <1>3, <1>4, <1>5, <1>6, <1>7, <1>8, <1>9, <1>10, <1>11, <1>12, <1>13, <1>14,
       <1>15, <1>16, <1>17, <1>18, <1>19 DEF Next, LoaderStep
-----------------------------------------------------------------------------
\* What a write of a trailer leaves in it.
LEMMA TrailerFields ==
  ASSUME LoaderTyped
  PROVE  /\ trailer' = trailer => P' = P /\ S' = S
         /\ \A v : trailer' = [trailer EXCEPT !["secondary"] = v] => P' = P /\ S' = v
         /\ \A v : trailer' = [trailer EXCEPT !["primary"] = v] => P' = v /\ S' = S
         /\ \A v : trailer' = [trailer EXCEPT !["primary"].ok = v] =>
              /\ S' = S /\ P'.ok = v
              /\ P'.magic = P.magic /\ P'.done = P.done /\ P'.type = P.type
         /\ \A v : trailer' = [trailer EXCEPT !["primary"].done = v] =>
              /\ S' = S /\ P'.done = v
              /\ P'.magic = P.magic /\ P'.ok = P.ok /\ P'.type = P.type
         /\ \A v : trailer' = [trailer EXCEPT !["secondary"].magic = TRUE,
                                              !["secondary"].ok = v] =>
              /\ P' = P /\ S'.magic = TRUE /\ S'.ok = v /\ S'.type = S.type
  BY DEF LoaderTyped, Trailers, Slots, P, S

\* A step that changes nothing in flash.
LEMMA TrialKept ==
  ASSUME LoaderTyped, TrialInv, faults' = faults, UNCHANGED << slot, trailer, idx, good >>,
         \/ pc' \in {"go", "panic"}
         \/ pc' = "swap" /\ idx > 0 /\ swap_type' = P.type
         \/ pc' = "image_ok" /\ pc = "swap" /\ swap_type' = P.type
         \/ pc' = "swap1" /\ swap_type' = P.type
         \/ pc' \in {"jump", "app"} /\ (Confirmed \/ fresh')
         \/ pc' = "check" /\ Confirmed
         \/ UNCHANGED << pc, swap_type, fresh >>
  PROVE  TrialInv'
  <1>1. P' = P /\ S' = S /\ InSwap' = InSwap /\ Confirmed' = Confirmed
    BY TrailerFields DEF InSwap, Confirmed
  <1> QED
    BY <1>1 DEF TrialInv, GoodKept, TypesAgree, TrialKnown, Exchanged, Swapping

LEMMA TrialInvInit == Init => TrialInv
  <1> SUFFICES ASSUME Init PROVE TrialInv
    OBVIOUS
  <1>1. PICK a \in Apps : slot = [primary |-> Whole(a), secondary |-> Whole(Erased)] /\ good = a
    BY DEF Init
  <1>2. P = UnsetTrailer /\ ~InSwap /\ Confirmed /\ pc = "go"
    BY DEF Init, P, InSwap, Confirmed, UnsetTrailer, Slots
  <1> QED
    BY <1>1, <1>2 DEF TrialInv, GoodKept, TypesAgree, TrialKnown, Swapping

LEMMA TrialInvNext == JumpInv /\ SwapInv /\ TrialInv /\ [Next]_vars => TrialInv'
  <1> SUFFICES ASSUME JumpInv, SwapInv, TrialInv, [Next]_vars, faults' = 0
               PROVE  TrialInv'
    BY DEF TrialInv
  <1> USE DEF KeepCounters, Volatile, History, Fault
  <1>a. /\ LoaderTyped /\ LoaderTyped' /\ faults = 0 /\ faults' # faults + 1
        /\ trailer \in [Slots -> Trailers]
    BY NoFaultBefore, LoaderTypedNext DEF JumpInv, LoaderTyped
  <1>b. /\ GoodKept /\ TypesAgree /\ TrialKnown
        /\ InSwap => pc \in {"go", "swap1", "swap", "image_ok", "copy_done"}
    BY <1>a DEF SwapInv, TrialInv
  <1>c. ~InSwap /\ ~Confirmed => /\ HasHeader("secondary") /\ boot_image_check("secondary")
                                 /\ ~ForNetCore
    BY <1>b, WholeSectors, LoaderAssumption
    DEF GoodKept, HasHeader, boot_image_check, ForNetCore, NetImages, Images
  <1>1. CASE PrepareFails \/ SwapTypeFails
    BY <1>1, <1>a DEF PrepareFails, SwapTypeFails
  <1>2. CASE PrepareResume
    <2>1. /\ UNCHANGED << slot, trailer, idx, good >> /\ faults' = faults
          /\ pc' = "swap" /\ idx > 0 /\ swap_type' = P.type
      BY <1>2 DEF PrepareResume, P
    <2> QED
      BY <1>a, <2>1, TrialKept
  <1>3. CASE PreparePending
    <2>1. HasHeader("secondary") /\ boot_image_check("secondary")
      BY <1>3, <1>a, PendingIsValid DEF PreparePending
    <2>2. /\ UNCHANGED << slot, trailer, idx, good >> /\ faults' = faults
          /\ pc' = "swap1" /\ swap_type' = P.type
      BY <1>3, <2>1 DEF PreparePending, ValidateSecondary, P
    <2> QED
      BY <1>a, <2>2, TrialKept
  <1>4. CASE boot_validated_swap_type
    <2> USE <1>4 DEF boot_validated_swap_type
    <2>1. CASE ~IsUpgrade(boot_swap_type_multi)
      <3>1. Confirmed
        BY <1>b, <2>1 DEF IsUpgrade, boot_swap_type_multi, Confirmed, InSwap
      <3> QED
        BY <1>a, <2>1, <3>1, TrialKept
    <2>2. CASE IsUpgrade(boot_swap_type_multi) /\ Confirmed
      <3>1. P' = P /\ InSwap' = InSwap /\ Confirmed' /\ ~InSwap
        BY <1>a, <2>2, TrailerFields DEF ValidateSecondary, InSwap, Confirmed, P
      <3>2. CASE pc' # "swap0"
        BY <1>a, <1>b, <2>2, <3>1, <3>2
        DEF ValidateSecondary, TrialInv, GoodKept, TypesAgree, TrialKnown, Swapping
      <3>3. CASE pc' = "swap0"
        <4>1. UNCHANGED << trailer, slot, good >> /\ swap_type' = boot_swap_type_multi
          BY <2>2, <3>3 DEF ValidateSecondary
        <4>2. S' = S
          BY <4>1 DEF S
        <4> QED
          BY <1>b, <2>2, <3>1, <3>3, <4>1, <4>2
          DEF TrialInv, GoodKept, TypesAgree, TrialKnown, Swapping, IsUpgrade,
              boot_swap_type_multi, S
      <3> QED
        BY <3>2, <3>3
    <2>3. CASE IsUpgrade(boot_swap_type_multi) /\ ~Confirmed
      <3>1. /\ pc' = "swap0" /\ UNCHANGED << trailer, slot, good >>
            /\ swap_type' = boot_swap_type_multi
        BY <1>c, <2>3 DEF ValidateSecondary
      <3>2. P' = P /\ S' = S /\ InSwap' = InSwap /\ Confirmed' = Confirmed
        BY <3>1 DEF P, S, InSwap, Confirmed
      <3> QED
        BY <1>b, <2>3, <3>1, <3>2
        DEF TrialInv, GoodKept, TypesAgree, TrialKnown, Swapping, IsUpgrade,
            boot_swap_type_multi, S
    <2> QED
      BY <2>1, <2>2, <2>3
  <1>5. CASE EraseSlot
    <2>1. P' = P /\ ~InSwap /\ InSwap' = InSwap /\ Confirmed /\ Confirmed'
      BY <1>5, <1>a, <1>b, TrailerFields DEF EraseSlot, TrialKnown, P, InSwap, Confirmed
    <2>2. slot'["primary"] = slot["primary"] /\ pc' \in {"erase", "fail", "check"} /\ good' = good
      BY <1>5, <1>a DEF EraseSlot, LoaderTyped, Slots
    <2> QED
      BY <1>b, <2>1, <2>2 DEF TrialInv, GoodKept, TypesAgree, TrialKnown, Swapping
  <1>6. CASE NetCoreUpdate \/ NetCoreStep \/ AppNetOn \/ UNCHANGED vars
    BY <1>6, <1>a, TrialKept DEF NetCoreUpdate, NetCoreStep, AppNetOn, vars, loaderVars
  <1>7. CASE NetCoreUpdated \/ NetCoreFailed
    <2>1. P' = P /\ ~InSwap /\ InSwap' = InSwap /\ Confirmed /\ Confirmed'
      BY <1>7, <1>a, <1>b, TrailerFields
      DEF NetCoreUpdated, NetCoreFailed, TrialKnown, P, InSwap, Confirmed
    <2>2. UNCHANGED << slot, good >> /\ pc' \in {"check", "fail"}
      BY <1>7 DEF NetCoreUpdated, NetCoreFailed
    <2> QED
      BY <1>b, <2>1, <2>2 DEF TrialInv, GoodKept, TypesAgree, TrialKnown, Swapping
  <1>8. CASE SwapMarkRevert
    <2>1. P' = P /\ S'.magic = TRUE /\ S'.ok = TRUE
      <3>1. P' = P /\ S' = [UnsetTrailer EXCEPT !.magic = TRUE, !.ok = TRUE]
        BY <1>8, <1>a, TrailerFields DEF SwapMarkRevert
      <3> QED
        BY <3>1 DEF UnsetTrailer
    <2>2. ~InSwap /\ InSwap' = InSwap /\ Confirmed' = Confirmed
      BY <1>8, <1>b, <2>1 DEF SwapMarkRevert, P, InSwap, Confirmed
    <2> QED
      BY <1>8, <1>b, <2>1, <2>2
      DEF SwapMarkRevert, TrialInv, GoodKept, TypesAgree, TrialKnown, Swapping
  <1>9. CASE SwapBegin
    <2>1. /\ pc = "swap0" /\ pc' = "swap1" /\ idx' = 0 /\ S.magic
          /\ UNCHANGED << slot, good, swap_type >> /\ ~InSwap
      BY <1>9, <1>b DEF SwapBegin, S
    <2>2. S' = S /\ P'.magic = TRUE /\ P'.ok = S.ok /\ P'.done = FALSE /\ P'.type = swap_type
      <3>1. /\ S' = S
            /\ P' = [magic |-> TRUE, ok |-> S.ok, done |-> FALSE, type |-> swap_type]
        BY <1>9, <1>a, TrailerFields DEF SwapBegin, S
      <3> QED
        BY <3>1
    <2>3. InSwap' /\ ~InSwap
      BY <1>b, <2>1, <2>2 DEF InSwap, P
    <2>4. PICK a \in Apps, b \in Apps : slot["primary"] = Whole(a) /\ slot["secondary"] = Whole(b)
      BY <1>a, <2>1 DEF SwapInv
    <2>5. ~S.ok => slot["primary"] = Whole(good)
      BY <1>b, <2>1 DEF GoodKept, TypesAgree
    <2>6. ~S.ok => Exchanged(good, b)'
      BY <2>1, <2>4, <2>5, WholeSectors, LoaderAssumption DEF Exchanged
    <2> QED
      BY <1>b, <2>1, <2>2, <2>3, <2>6
      DEF TrialInv, GoodKept, TypesAgree, TrialKnown, Swapping
  <1>10. CASE SwapEraseTrailer
    <2>1. P' = P /\ ~S'.magic
      <3>1. P' = P /\ S' = UnsetTrailer
        BY <1>10, <1>a, TrailerFields DEF SwapEraseTrailer
      <3> QED
        BY <3>1 DEF UnsetTrailer
    <2>2. InSwap /\ InSwap'
      BY <1>10, <2>1 DEF SwapEraseTrailer, P, InSwap, JumpInv, SwapRecorded
    <2> QED
      BY <1>10, <1>b, <2>1, <2>2
      DEF SwapEraseTrailer, TrialInv, GoodKept, TypesAgree, TrialKnown, Exchanged, Swapping
  <1>11. CASE SwapSector
    <2>1. /\ InSwap /\ InSwap' /\ pc = "swap" /\ pc' = "swap" /\ P' = P /\ S' = S
          /\ UNCHANGED << good, swap_type >>
      BY <1>11 DEF SwapSector, JumpInv, SwapRecorded, InSwap, P, S
    <2>2. ~P.ok => \E b \in Apps : Exchanged(good, b)'
      BY <1>11, <1>a, <1>b, <2>1, SectorExchanged DEF GoodKept
    <2> QED
      BY <1>b, <2>1, <2>2 DEF TrialInv, GoodKept, TypesAgree, TrialKnown, Swapping
  <1>12. CASE boot_swap_image
    <2>1. swap_type = P.type
      BY <1>12, <1>b DEF boot_swap_image, TypesAgree, Swapping
    <2>2. /\ UNCHANGED << slot, trailer, idx, good >> /\ faults' = faults
          /\ pc' = "image_ok" /\ pc = "swap" /\ swap_type' = P.type
      BY <1>12, <2>1 DEF boot_swap_image
    <2> QED
      BY <1>a, <2>2, TrialKept
  <1>13. CASE SetImageOk
    <2>1. InSwap /\ pc = "image_ok" /\ idx = Sectors /\ swap_type = P.type
      BY <1>13, <1>a, <1>b
      DEF SetImageOk, SwapInv, JumpInv, SwapRecorded, TypesAgree, Swapping
    <2>2. PICK a \in Apps, b \in Apps : Exchanged(a, b)
      BY <1>a, <2>1 DEF SwapInv
    <2>3. slot["primary"] = Whole(b) /\ slot["primary"][1] = b
      BY <1>a, <2>1, <2>2, NoneExchanged, WholeSectors
    <2>4. /\ pc' = "copy_done" /\ UNCHANGED << slot, idx, swap_type >>
          /\ S' = S /\ P'.magic = P.magic /\ P'.done = P.done /\ P'.type = P.type
      BY <1>13, <1>a, TrailerFields DEF SetImageOk
    <2>5. InSwap'
      BY <2>1, <2>4 DEF InSwap, P
    <2>6. CASE swap_type = "TEST"
      BY <1>13, <1>b, <2>1, <2>4, <2>5, <2>6
      DEF SetImageOk, TrialInv, GoodKept, TypesAgree, TrialKnown, Exchanged, Swapping, P
    <2>7. CASE swap_type # "TEST"
      <3>1. good' = b /\ P'.ok = TRUE
        BY <1>13, <1>a, <2>3, <2>7, TrailerFields DEF SetImageOk
      <3> QED
        BY <1>b, <2>1, <2>3, <2>4, <2>5, <2>7, <3>1
        DEF TrialInv, GoodKept, TypesAgree, TrialKnown, Swapping
    <2> QED
      BY <2>6, <2>7
  <1>14. CASE SetCopyDone
    <2>1. /\ InSwap /\ idx = Sectors /\ pc = "copy_done" /\ pc' = "check" /\ fresh'
          /\ UNCHANGED << slot, good >>
      BY <1>14, <1>a DEF SetCopyDone, SwapInv, JumpInv, SwapRecorded
    <2>2. S' = S /\ P'.done = TRUE /\ P'.magic = P.magic /\ P'.ok = P.ok
      BY <1>14, <1>a, TrailerFields DEF SetCopyDone
    <2>3. ~InSwap' /\ (Confirmed' <=> P.ok)
      BY <2>1, <2>2 DEF InSwap, Confirmed, P
    <2>4. P.ok => slot["primary"] = Whole(good)
      BY <1>b, <2>1 DEF GoodKept
    <2>5. ~P.ok => slot["secondary"] = Whole(good)
      <3> SUFFICES ASSUME ~P.ok
                   PROVE  slot["secondary"] = Whole(good)
        OBVIOUS
      <3>1. PICK b \in Apps : Exchanged(good, b)
        BY <1>b, <2>1 DEF GoodKept
      <3> QED
        BY <1>a, <1>b, <2>1, <3>1, NoneExchanged DEF GoodKept
    <2> QED
      BY <1>b, <2>1, <2>2, <2>3, <2>4, <2>5
      DEF TrialInv, GoodKept, TypesAgree, TrialKnown, Swapping
  <1>15. CASE SwapTypeFail
    <2>1. P'.ok = TRUE /\ P'.magic = P.magic /\ P'.done = P.done /\ S' = S
      BY <1>15, <1>a, TrailerFields DEF SwapTypeFail
    <2>2. ~InSwap /\ ~InSwap' /\ Confirmed /\ Confirmed'
      BY <1>15, <1>b, <2>1 DEF SwapTypeFail, InSwap, P, Confirmed, TrialKnown
    <2>3. pc' = "check" /\ UNCHANGED << slot, good >>
      BY <1>15, <1>a DEF SwapTypeFail
    <2> QED
      BY <1>b, <2>1, <2>2, <2>3 DEF TrialInv, GoodKept, TypesAgree, TrialKnown, Swapping
  <1>16. CASE CheckPrimary \/ main
    <2>1. /\ UNCHANGED << slot, trailer, idx, good >> /\ faults' = faults
          /\ pc' = "panic" \/ (pc' \in {"jump", "app"} /\ (Confirmed \/ fresh'))
      BY <1>16, <1>a, <1>b DEF CheckPrimary, main, TrialKnown
    <2> QED
      BY <1>a, <2>1, TrialKept
  <1>17. CASE AppUpload
    <2>1. /\ P' = P /\ pc' = "app" /\ ~InSwap /\ InSwap' = InSwap /\ Confirmed /\ Confirmed'
      BY <1>17, <1>a, <1>b, TrailerFields DEF AppUpload, InSwap, Confirmed, P
    <2>2. slot'["primary"] = slot["primary"] /\ good' = good
      BY <1>17, <1>a DEF AppUpload, LoaderTyped, Slots
    <2> QED
      BY <1>b, <2>1, <2>2 DEF TrialInv, GoodKept, TypesAgree, TrialKnown, Swapping
  <1>18. CASE AppRequest
    <2>1. /\ P' = P /\ pc' = "app" /\ ~InSwap /\ InSwap' = InSwap /\ Confirmed /\ Confirmed'
          /\ UNCHANGED << slot, good >>
      BY <1>18, <1>a, <1>b, TrailerFields DEF AppRequest, InSwap, Confirmed, P
    <2> QED
      BY <1>b, <2>1 DEF TrialInv, GoodKept, TypesAgree, TrialKnown, Swapping
  <1>19. CASE AppConfirm
    <2>1. /\ P'.ok = TRUE /\ P'.magic = P.magic /\ P'.done = P.done
          /\ pc = "app" /\ pc' = "app" /\ ~InSwap /\ UNCHANGED slot /\ good' = slot["primary"][1]
      BY <1>19, <1>a, <1>b, TrailerFields DEF AppConfirm
    <2>2. ~InSwap' /\ Confirmed'
      BY <2>1 DEF InSwap, Confirmed, P
    <2>3. PICK a \in Apps : slot["primary"] = Whole(a)
      BY <1>a, <2>1 DEF SwapInv
    <2>4. good' = a
      BY <2>1, <2>3, WholeSectors
    <2> QED
      BY <2>1, <2>2, <2>3, <2>4 DEF TrialInv, GoodKept, TypesAgree, TrialKnown, Swapping
  <1>20. CASE Reset
    <2>1. UNCHANGED << slot, trailer, idx, good >> /\ faults' = faults /\ pc' = "go"
      BY <1>20 DEF Reset
    <2> QED
      BY <1>a, <2>1, TrialKept
  <1> QED
    BY <1>1, <1>2, <1>3, <1>4, <1>5, <1>6, <1>7, <1>8, <1>9, <1>10, <1>11, <1>12, <1>13, <1>14,
       <1>15, <1>16, <1>17, <1>18, <1>19, <1>20 DEF Next, LoaderStep
-----------------------------------------------------------------------------
\* The three invariants, each inductive with those before it.
LEMMA LoaderInvariant == Spec => [](JumpInv /\ SwapInv /\ TrialInv)
  <1>1. Init => JumpInv /\ SwapInv /\ TrialInv
    BY JumpInvInit, SwapInvInit, TrialInvInit
  <1>2. JumpInv /\ SwapInv /\ TrialInv /\ [Next]_vars => (JumpInv /\ SwapInv /\ TrialInv)'
    BY JumpInvNext, SwapInvNext, TrialInvNext
  <1> QED
    BY <1>1, <1>2, PTL DEF Spec

\* context_boot_go() jumps only into a whole image of the application core, wherever
\* resets and flash faults hit the swap and whatever is uploaded, unless an image whose
\* swap had begun was overwritten.
THEOREM LoaderJumpsIntoWholeImage == Spec => []JumpsIntoWholeImage
  <1>1. JumpInv => JumpsIntoWholeImage
    <2> SUFFICES ASSUME JumpInv, pc = "app"
                 PROVE  \E i \in IF clobbered THEN Images ELSE Apps : slot["primary"] = Whole(i)
      BY DEF JumpsIntoWholeImage
    <2>1. boot_image_check("primary")
      BY DEF JumpInv, Validated
    <2>2. CASE clobbered
      BY <2>1, <2>2 DEF boot_image_check, Images
    <2>3. CASE ~clobbered
      BY <2>1, <2>3, ValidApp, WholeSectors DEF JumpInv, NoNetSector, Slots
    <2> QED
      BY <2>2, <2>3
  <1> QED
    BY <1>1, LoaderInvariant, PTL

\* boot_swap_image() and boot_complete_partial_swap() can always finish: while a swap is
\* recorded and no flash operation failed, the two images are there, sector by sector, in
\* one slot or the other.
THEOREM LoaderSwapLosesNothing == Spec => []SwapLosesNothing
  <1>1. SwapInv => SwapLosesNothing
    BY DEF SwapInv, SwapLosesNothing, Exchanged
  <1> QED
    BY <1>1, LoaderInvariant, PTL

\* While an image is on trial the last confirmed one is whole in the secondary slot, ready
\* for the revert that boot_validated_swap_type() will ask for, whatever resets did to the
\* swap that began the trial, as long as no flash operation failed.
THEOREM LoaderCanRevert == Spec => []RevertPossible
  <1>1. JumpInv /\ SwapInv /\ TrialInv => RevertPossible
    <2> SUFFICES ASSUME SwapInv, TrialInv, pc = "app", ~Confirmed, faults = 0
                 PROVE  slot["secondary"] = Whole(good)
      BY DEF RevertPossible
    <2>1. ~InSwap
      BY DEF SwapInv
    <2> QED
      BY <2>1 DEF TrialInv, GoodKept
  <1> QED
    BY <1>1, LoaderInvariant, PTL

\* An image that has not confirmed itself runs only in the boot that swapped it in: every
\* reset takes boot_validated_swap_type() to the revert, however often that is interrupted.
THEOREM LoaderEndsTrial == Spec => []TrialEndsWithReset
  <1>1. TrialInv => TrialEndsWithReset
    BY DEF TrialInv, TrialKnown, TrialEndsWithReset
  <1> QED
    BY <1>1, LoaderInvariant, PTL
-----------------------------------------------------------------------------
\* Only SwapBegin records a swap type, and it records the one boot_validated_swap_type()
\* has come to.
LEMMA TypesKnownNext == LoaderTyped /\ TypesKnown /\ [Next]_vars => TypesKnown'
  <1> SUFFICES ASSUME LoaderTyped, TypesKnown, [Next]_vars
               PROVE  TypesKnown'
    OBVIOUS
  <1> USE DEF KeepCounters, Volatile, History
  <1>a. ASSUME trailer' = trailer \/ trailer' = [trailer EXCEPT !["secondary"] = UnsetTrailer]
        PROVE  P'.type \in SwapTypes /\ S'.type \in SwapTypes
    BY <1>a, TrailerFields DEF TypesKnown, UnsetTrailer, SwapTypes
  <1>1. CASE PrepareFails \/ SwapTypeFails \/ PrepareResume
    BY <1>1, <1>a DEF PrepareFails, SwapTypeFails, PrepareResume, TypesKnown
  <1>2. CASE PreparePending
    BY <1>2, <1>a DEF PreparePending, ValidateSecondary, TypesKnown
  <1>3. CASE boot_validated_swap_type
    BY <1>3, <1>a DEF boot_validated_swap_type, ValidateSecondary, TypesKnown
  <1>4. CASE EraseSlot
    BY <1>4, <1>a DEF EraseSlot, TypesKnown
  <1>5. CASE NetCoreUpdate \/ NetCoreStep \/ AppNetOn \/ UNCHANGED vars
    BY <1>5, <1>a DEF NetCoreUpdate, NetCoreStep, AppNetOn, vars, loaderVars, TypesKnown
  <1>6. CASE NetCoreUpdated \/ NetCoreFailed
    BY <1>6, <1>a DEF NetCoreUpdated, NetCoreFailed, TypesKnown
  <1>7. CASE SwapMarkRevert
    <2>1. P' = P /\ S' = [UnsetTrailer EXCEPT !.magic = TRUE, !.ok = TRUE]
      BY <1>7, TrailerFields DEF SwapMarkRevert
    <2>2. S'.type = "NONE"
      BY <2>1 DEF UnsetTrailer
    <2> QED
      BY <1>7, <2>1, <2>2 DEF SwapMarkRevert, TypesKnown, SwapTypes
  <1>8. CASE SwapBegin
    <2>1. /\ S' = S /\ pc' = "swap1" /\ IsUpgrade(swap_type)
          /\ P' = [magic |-> TRUE, ok |-> S.ok, done |-> FALSE, type |-> swap_type]
      BY <1>8, TrailerFields DEF SwapBegin, S, TypesKnown
    <2>2. P'.type = swap_type
      BY <2>1
    <2> QED
      BY <2>1, <2>2 DEF TypesKnown, SwapTypes, IsUpgrade
  <1>9. CASE SwapEraseTrailer
    BY <1>9, <1>a DEF SwapEraseTrailer, TypesKnown
  <1>10. CASE SwapSector \/ boot_swap_image \/ CheckPrimary \/ main
    BY <1>10, <1>a DEF SwapSector, boot_swap_image, CheckPrimary, main, TypesKnown
  <1>11. CASE SetImageOk \/ SetCopyDone \/ SwapTypeFail \/ AppConfirm
    BY <1>11, TrailerFields
    DEF SetImageOk, SetCopyDone, SwapTypeFail, AppConfirm, TypesKnown, SwapTypes
  <1>12. CASE AppUpload
    BY <1>12, <1>a DEF AppUpload, TypesKnown
  <1>13. CASE AppRequest
    BY <1>13, TrailerFields DEF AppRequest, TypesKnown, SwapTypes
  <1>14. CASE Reset
    BY <1>14, <1>a DEF Reset, TypesKnown
  <1> QED
    BY <1>1, <1>2, <1>3, <1>4, <1>5, <1>6, <1>7, <1>8, <1>9, <1>10, <1>11, <1>12, <1>13, <1>14
    DEF Next, LoaderStep

\* The flags are written by Reset, SetCopyDone and AppUpload only.
LEMMA FlagsKnownNext == FlagsKnown /\ [Next]_vars => FlagsKnown'
  <1> SUFFICES ASSUME FlagsKnown, [Next]_vars
               PROVE  FlagsKnown'
    OBVIOUS
  <1> USE DEF FlagsKnown
  <1>1. CASE Reset
    BY <1>1, Zenon DEF Reset, init_wdt
  <1>2. CASE SetCopyDone
    BY <1>2, Zenon DEF SetCopyDone, KeepCounters
  <1>3. CASE AppUpload
    BY <1>3, Zenon DEF AppUpload
  <1>4. CASE UNCHANGED << wdt, fresh, clobbered >>
    BY <1>4, Zenon
  <1>5. Reset \/ SetCopyDone \/ AppUpload \/ UNCHANGED << wdt, fresh, clobbered >>
    <2> USE DEF KeepCounters, History
    <2>1. CASE LoaderStep
      BY <2>1 DEF LoaderStep, PrepareFails, PrepareResume, PreparePending, SwapTypeFails,
         boot_validated_swap_type, EraseSlot, NetCoreUpdate, loaderVars, NetCoreUpdated,
         NetCoreFailed, SwapMarkRevert, SwapBegin, SwapEraseTrailer, SwapSector,
         boot_swap_image, SetImageOk, SwapTypeFail, CheckPrimary, main
    <2> QED
      BY <2>1 DEF Next, NetCoreStep, AppNetOn, AppRequest, AppConfirm, vars, loaderVars
  <1> QED
    BY <1>1, <1>2, <1>3, <1>4, <1>5

\* A step that writes to no slot, begins no swap and confirms nothing.
LEMMA FirstSectorKept ==
  ASSUME JumpInv, GoodKnown, UNCHANGED << slot, idx, good >>, InSwap' => InSwap,
         \/ pc' \notin {"swap0", "swap1", "swap", "image_ok"}
         \/ pc' = "swap0" /\ (pc = "swap0" \/ boot_image_check("secondary"))
         \/ pc' = "swap1" /\ boot_image_check("secondary")
         \/ pc' = "swap" /\ (pc \in {"swap1", "swap"} \/ idx > 0)
         \/ pc' = "image_ok" /\ idx > 0
         \/ pc' = pc
  PROVE  GoodKnown'
  <1>1. boot_image_check("secondary") => slot["secondary"][1] \in Valid
    BY WholeSectors DEF boot_image_check, Valid
  <1> QED
    BY <1>1 DEF GoodKnown

LEMMA GoodKnownNext == JumpInv /\ GoodKnown /\ [Next]_vars => GoodKnown'
  <1> SUFFICES ASSUME JumpInv, GoodKnown, [Next]_vars
               PROVE  GoodKnown'
    OBVIOUS
  <1> USE DEF KeepCounters, Volatile, History
  <1>a. LoaderTyped /\ idx \in 0 .. Sectors /\ Sectors \in Nat /\ Sectors > 0
    BY LoaderAssumption DEF JumpInv, LoaderTyped
  <1>1. CASE PrepareFails \/ SwapTypeFails \/ PrepareResume
    BY <1>1, FirstSectorKept DEF PrepareFails, SwapTypeFails, PrepareResume, InSwap
  <1>2. CASE PreparePending
    <2>1. InSwap' = InSwap
      BY <1>2, <1>a, InSwapWrites DEF PreparePending, ValidateSecondary
    <2> QED
      BY <1>2, <2>1, FirstSectorKept DEF PreparePending, ValidateSecondary
  <1>3. CASE boot_validated_swap_type
    <2>1. InSwap' = InSwap
      BY <1>3, <1>a, InSwapWrites DEF boot_validated_swap_type, ValidateSecondary
    <2> QED
      BY <1>3, <2>1, FirstSectorKept DEF boot_validated_swap_type, ValidateSecondary
  <1>4. CASE EraseSlot
    <2>1. InSwap' = InSwap /\ slot'["primary"] = slot["primary"]
      BY <1>4, <1>a, InSwapWrites DEF EraseSlot, LoaderTyped, Slots
    <2> QED
      BY <1>4, <2>1 DEF EraseSlot, GoodKnown
  <1>5. CASE NetCoreUpdate \/ NetCoreStep \/ AppNetOn \/ UNCHANGED vars
    BY <1>5, FirstSectorKept DEF NetCoreUpdate, NetCoreStep, AppNetOn, vars, loaderVars, InSwap
  <1>6. CASE NetCoreUpdated \/ NetCoreFailed
    <2>1. InSwap' = InSwap
      BY <1>6, <1>a, InSwapWrites DEF NetCoreUpdated, NetCoreFailed
    <2> QED
      BY <1>6, <2>1, FirstSectorKept DEF NetCoreUpdated, NetCoreFailed
  <1>7. CASE SwapMarkRevert \/ SwapEraseTrailer
    <2>1. InSwap' = InSwap
      BY <1>7, <1>a, InSwapWrites DEF SwapMarkRevert, SwapEraseTrailer
    <2> QED
      BY <1>7, <2>1, FirstSectorKept DEF SwapMarkRevert, SwapEraseTrailer
  <1>8. CASE SwapBegin
    BY <1>8 DEF SwapBegin, GoodKnown
  <1>9. CASE SwapSector
    <2>1. /\ InSwap /\ pc = "swap" /\ pc' = "swap" /\ good' = good /\ idx' = idx + 1
          /\ idx + 1 \in 1 .. Sectors
      BY <1>9, <1>a DEF SwapSector, boot_write_status, JumpInv, SwapRecorded
    <2>2. slot'["primary"] = boot_copy_region(slot["primary"], "secondary", idx + 1)
      BY <1>9, <1>a DEF SwapSector, LoaderTyped, Slots
    <2>3. slot'["primary"][1] = IF idx = 0 THEN slot["secondary"][1] ELSE slot["primary"][1]
      BY <1>a, <2>1, <2>2, WholeSectors DEF boot_copy_region, LoaderTyped, Slots
    <2>4. slot'["primary"][1] \in Valid
      BY <1>a, <2>1, <2>3 DEF GoodKnown
    <2> QED
      BY <1>a, <2>1, <2>4 DEF GoodKnown
  <1>10. CASE boot_swap_image
    BY <1>10, <1>a, FirstSectorKept DEF boot_swap_image, InSwap
  <1>11. CASE SetImageOk
    <2>1. InSwap /\ idx > 0 /\ UNCHANGED << slot, idx >> /\ pc' \in {"copy_done", "panic"}
      BY <1>11 DEF SetImageOk, GoodKnown, JumpInv, SwapRecorded
    <2>2. good' = good \/ good' = slot["primary"][1]
      BY <1>11 DEF SetImageOk
    <2> QED
      BY <2>1, <2>2 DEF GoodKnown
  <1>12. CASE SetCopyDone
    <2>1. InSwap /\ UNCHANGED << slot, idx, good >> /\ pc' \in {"check", "panic"}
      BY <1>12 DEF SetCopyDone, JumpInv, SwapRecorded
    <2> QED
      BY <2>1, FirstSectorKept
  <1>13. CASE SwapTypeFail
    <2>1. InSwap' = InSwap
      BY <1>13, <1>a, InSwapWrites DEF SwapTypeFail
    <2> QED
      BY <1>13, <2>1, FirstSectorKept DEF SwapTypeFail
  <1>14. CASE CheckPrimary \/ main
    BY <1>14, FirstSectorKept DEF CheckPrimary, main, InSwap
  <1>15. CASE AppUpload
    <2>1. InSwap' = InSwap /\ slot'["primary"] = slot["primary"] /\ pc' = "app"
      BY <1>15, <1>a, InSwapWrites DEF AppUpload, LoaderTyped, Slots
    <2> QED
      BY <1>15, <2>1 DEF AppUpload, GoodKnown
  <1>16. CASE AppRequest
    <2>1. InSwap' = InSwap
      BY <1>16, <1>a, InSwapWrites DEF AppRequest
    <2> QED
      BY <1>16, <2>1, FirstSectorKept DEF AppRequest
  <1>17. CASE AppConfirm
    <2>1. InSwap' = InSwap /\ slot["primary"][1] \in Valid
      BY <1>17, <1>a, InSwapWrites, WholeSectors
      DEF AppConfirm, JumpInv, Validated, boot_image_check, Valid
    <2> QED
      BY <1>17, <2>1 DEF AppConfirm, GoodKnown
  <1>18. CASE Reset
    BY <1>18, FirstSectorKept DEF Reset, InSwap
  <1> QED
    BY <1>1, <1>2, <1>3, <1>4, <1>5, <1>6, <1>7, <1>8, <1>9, <1>10, <1>11, <1>12, <1>13, <1>14,
       <1>15, <1>16, <1>17, <1>18 DEF Next, LoaderStep

LEMMA RecordInvInit == Init => RecordInv
  <1> SUFFICES ASSUME Init PROVE RecordInv
    OBVIOUS
  <1>1. FlagsKnown
    BY Zenon DEF Init, FlagsKnown
  <1>2. TypesKnown /\ GoodKnown
    BY DEF Init, TypesKnown, GoodKnown, P, S, UnsetTrailer, Slots, SwapTypes, Valid
  <1> QED
    BY <1>1, <1>2 DEF RecordInv

\* The types of the loader's state in flash and in memory, whatever fails: a trailer records
\* none but the types BOOT_IS_UPGRADE() accepts, and an image that counts as confirmed is
\* a signed one.
THEOREM LoaderTypeCorrect == Spec => []LoaderTypeOK
  <1>1. RecordInv /\ JumpInv /\ [Next]_vars => RecordInv'
    BY TypesKnownNext, FlagsKnownNext, GoodKnownNext DEF RecordInv, JumpInv
  <1>2. RecordInv /\ JumpInv => LoaderTypeOK
    <2> SUFFICES ASSUME RecordInv, JumpInv
                 PROVE  LoaderTypeOK
      OBVIOUS
    <2>1. trailer \in [Slots -> [magic : BOOLEAN, ok : BOOLEAN, done : BOOLEAN,
                                 type : {"NONE", "TEST", "PERM", "REVERT"}]]
      BY DEF RecordInv, JumpInv, LoaderTyped, TypesKnown, Trailers, Slots, P, S, SwapTypes
    <2>2. {resumed, wdt, fresh, clobbered} \subseteq BOOLEAN
      BY Zenon DEF RecordInv, FlagsKnown, JumpInv, LoaderTyped
    <2> QED
      BY <2>1, <2>2 DEF LoaderTypeOK, JumpInv, LoaderTyped, RecordInv, GoodKnown, Valid
  <1> QED
    BY <1>1, <1>2, RecordInvInit, LoaderInvariant, PTL DEF Spec

-----------------------------------------------------------------------------
(* The update of the network core.  The two cores share the command with no *)
(* lock.  What makes the copy come out in order is a turn: a chunk is       *)
(* written or available, never both, and bytes_moved is one ahead of what   *)
(* is written unless it is the application core's turn.  A reset keeps the  *)
(* command but not the turn: what is left of it then lets the network core  *)
(* end only if nothing but the last chunk was missing.                      *)

\* The image of the command, its length, and its first k chunks in their place.
Image == Chunks[cmd.data]
Size == Len(Image)
Copied(k) == \A n \in 1 .. k : s0[n] = Image[n]

Commands == [magic : {"NONE", "COPY", "DONE", "FAIL"}, data : Firmware \cup {NoImage},
             moved : Nat, chunk_len : Nat, available : BOOLEAN, written : BOOLEAN]

PcdTyped ==
  /\ cmd \in Commands
  /\ app_pc \in {"idle", "wait", "publish", "done", "failed"}
  /\ net_pc \in {"off", "boot", "run", "loop", "poll", "validate", "spin", "halt"}
  /\ net_i \in Nat /\ s0 \in Seq(Data) /\ net_i <= Len(s0)

\* Where pcd_fw_copy() and the check after it are.
Copying == net_pc \in {"loop", "poll", "validate"}

\* Only an image that was asked for is copied, and waited for until the copy is over.
CopyAsked == /\ cmd.magic \in {"COPY", "DONE"} => cmd.data \in Firmware
             /\ Copying => cmd.magic = "COPY"
             /\ net_pc = "poll" => cmd.data \in External
             /\ app_pc \in {"done", "failed"} => cmd.magic # "COPY"

\* bytes_moved while the application core serves the copy.
Turn == /\ cmd.available => ~cmd.written
        /\ app_pc = "publish" => cmd.written
        /\ net_i <= Size
        /\ cmd.moved = IF app_pc = "wait" /\ cmd.written THEN net_i
                       ELSE IF net_i < Size THEN net_i + 1 ELSE Size
        /\ net_pc = "poll" => net_i < Size
        /\ Copied(net_i)

\* ... and what is left of it after a reset.
Left == /\ net_pc = "poll" => cmd.moved < Size
        /\ cmd.moved = Size => Copied(Size - 1)

CopyInOrder ==
  cmd.magic = "COPY" =>
    /\ cmd.data \in External =>
         /\ cmd.moved \in 1 .. Size
         /\ net_pc = "validate" => cmd.moved = Size
         /\ app_pc \in {"wait", "publish"} => Turn
         /\ app_pc = "idle" => Left
    /\ net_pc = "validate" => Copied(Size - 1)

\* The inductive invariant.
PcdInv == PcdTyped /\ CopyAsked /\ CopyInOrder /\ AllButLastCopied
-----------------------------------------------------------------------------
\* The chunks of an image are a sequence that is not empty.
LEMMA ImageIsSequence ==
  ASSUME NEW f \in Firmware
  PROVE  /\ Chunks[f] \in Seq(Data) /\ Len(Chunks[f]) \in Nat \ {0}
         /\ \A n \in 1 .. Len(Chunks[f]) : Chunks[f][n] \in Data
  BY PcdAssumption

\* An image in internal flash is copied as a whole, over what was there.
LEMMA ImageWritten ==
  ASSUME NEW s \in Seq(Data), NEW c \in Seq(Data)
  PROVE  LET t == c \o SubSeq(s, Len(c) + 1, Len(s))
         IN  /\ t \in Seq(Data) /\ Len(c) <= Len(t)
             /\ \A k \in 1 .. Len(c) : t[k] = c[k]
  <1>1. SubSeq(s, Len(c) + 1, Len(s)) \in Seq(Data)
    OBVIOUS
  <1> QED
    BY <1>1

\* pcd_cmd_update() hands over the next chunk, or an empty one behind the last.
LEMMA Refilled ==
  ASSUME NEW c \in Commands, c.data \in Firmware, c.moved <= Len(Chunks[c.data])
  PROVE  LET r == Refill(c)
         IN  /\ r \in Commands
             /\ r.magic = c.magic /\ r.data = c.data
             /\ r.available = c.available /\ r.written = c.written
             /\ r.moved = IF c.moved < Len(Chunks[c.data]) THEN c.moved + 1 ELSE c.moved
  <1> DEFINE left == Len(Chunks[c.data]) - c.moved
             n == IF left > 1 THEN 1 ELSE left
  <1>1. Refill(c) = [c EXCEPT !.chunk_len = n, !.moved = c.moved + n]
    BY DEF Refill
  <1>2. Len(Chunks[c.data]) \in Nat /\ c.moved \in Nat
    BY ImageIsSequence DEF Commands
  <1>3. n = IF c.moved < Len(Chunks[c.data]) THEN 1 ELSE 0
    BY <1>2
  <1> HIDE DEF n
  <1>4. Refill(c) = [magic |-> c.magic, data |-> c.data, moved |-> c.moved + n, chunk_len |-> n,
                     available |-> c.available, written |-> c.written]
    BY <1>1 DEF Commands
  <1>5. c.moved + n \in Nat /\ n \in Nat
    BY <1>2, <1>3
  <1>6. Refill(c) \in Commands
    BY <1>4, <1>5 DEF Commands
  <1>7. Refill(c).moved = c.moved + n
    BY <1>4
  <1> QED
    BY <1>2, <1>3, <1>4, <1>6, <1>7

\* Nothing is copied before the first command.
LEMMA PcdInvInit == PcdSpecInit => PcdInv
  <1> SUFFICES ASSUME NEW f \in Firmware, PcdInit(f)
               PROVE  PcdInv
    BY DEF PcdSpecInit
  <1> USE DEF PcdInit
  <1>1. PcdTyped
    BY ImageIsSequence DEF PcdTyped, Commands
  <1>2. CopyAsked /\ CopyInOrder /\ AllButLastCopied
    BY DEF CopyAsked, Copying, CopyInOrder, AllButLastCopied
  <1> QED
    BY <1>1, <1>2 DEF PcdInv

\* pcd_network_core_update(): a new command, whatever the old one was.
LEMMA PcdInvUpdate ==
  ASSUME PcdInv, NEW f \in Firmware, pcd_network_core_update(f)
  PROVE  PcdInv'
  <1> USE DEF PcdInv, pcd_network_core_update
  <1> DEFINE c == [cmd EXCEPT !.magic = "COPY", !.data = f, !.moved = 0]
  <1>1. c.moved = 0 /\ c.data = f /\ Len(Chunks[f]) \in Nat \ {0}
    BY ImageIsSequence DEF PcdTyped, Commands
  <1>2. CASE f \in External
    <2>1. c \in Commands
      BY DEF PcdTyped, Commands
    <2>2. Refill(c) \in Commands /\ Refill(c).magic = "COPY" /\ Refill(c).data = f
          /\ Refill(c).moved = 1
      <3> HIDE DEF c
      <3>1. c.magic = "COPY"
        BY DEF c, PcdTyped, Commands
      <3> QED
        BY <1>1, <2>1, <3>1, Refilled
    <2>3. /\ cmd' \in Commands /\ cmd'.magic = "COPY" /\ cmd'.data = f /\ cmd'.moved = 1
          /\ cmd'.available /\ ~cmd'.written
      BY <1>2, <2>2 DEF pcd_cmd_write, Publish, Commands
    <2>4. PcdTyped'
      BY <2>3 DEF PcdTyped
    <2>5. CopyAsked' /\ AllButLastCopied'
      BY <2>3 DEF CopyAsked, AllButLastCopied, Copying, PcdTyped
    <2>6. CopyInOrder'
      BY <1>1, <2>3 DEF CopyInOrder, Turn, Copied, Image, Size, PcdTyped
    <2> QED
      BY <2>4, <2>5, <2>6
  <1>3. CASE f \notin External
    <2>1. cmd' = [magic |-> "COPY", data |-> f, moved |-> 0, chunk_len |-> cmd.chunk_len,
                  available |-> cmd.available, written |-> cmd.written]
      BY <1>3 DEF pcd_cmd_write, PcdTyped, Commands
    <2>2. PcdTyped'
      BY <2>1 DEF PcdTyped, Commands
    <2>3. CopyAsked' /\ AllButLastCopied'
      BY <2>1 DEF CopyAsked, AllButLastCopied, Copying, PcdTyped, Commands
    <2>4. CopyInOrder'
      BY <1>3, <2>1 DEF CopyInOrder, PcdTyped, Commands
    <2> QED
      BY <2>2, <2>3, <2>4
  <1> QED
    BY <1>2, <1>3

\* A reset leaves the command and the flash: what the two cores had agreed on is enough
\* for what is left.
LEMMA PcdInvReset ==
  ASSUME PcdInv, PcdReset
  PROVE  PcdInv'
  <1> USE DEF PcdInv, PcdReset
  <1>1. PcdTyped'
    BY DEF PcdTyped, Commands
  <1>2. CopyAsked' /\ AllButLastCopied'
    BY DEF CopyAsked, AllButLastCopied, Copying
  <1>3. CopyInOrder'
    <2>1. ASSUME cmd.magic = "COPY", cmd.data \in External, cmd.moved = Size
          PROVE  Copied(Size - 1)
      <3>1. Size \in Nat \ {0}
        BY <2>1, ImageIsSequence DEF CopyAsked, Size, Image
      <3>2. app_pc \in {"idle", "wait", "publish"}
        BY <2>1 DEF PcdTyped, CopyAsked
      <3>3. CASE app_pc = "idle"
        BY <2>1, <3>3 DEF CopyInOrder, Left
      <3>4. CASE app_pc \in {"wait", "publish"}
        <4>1. Turn
          BY <2>1, <3>4 DEF CopyInOrder
        <4>2. net_i >= Size - 1
          BY <2>1, <3>1, <4>1 DEF Turn, PcdTyped, Commands
        <4> QED
          BY <3>1, <4>1, <4>2 DEF Turn, Copied, PcdTyped, Commands
      <3> QED
        BY <3>2, <3>3, <3>4
    <2> QED
      BY <2>1 DEF CopyInOrder, Left, Copied, Image, Size
  <1> QED
    BY <1>1, <1>2, <1>3

\* The update is over and the loader goes on: the command is not a copy any more.
LEMMA PcdInvOver ==
  ASSUME PcdInv, app_pc \in {"done", "failed"}, app_pc' = "idle",
         UNCHANGED << cmd, net_pc, net_i, s0 >>
  PROVE  PcdInv'
  <1>1. PcdTyped'
    BY DEF PcdInv, PcdTyped, Commands
  <1>2. CopyAsked' /\ AllButLastCopied' /\ CopyInOrder'
    BY DEF PcdInv, CopyAsked, AllButLastCopied, Copying, CopyInOrder
  <1> QED
    BY <1>1, <1>2 DEF PcdInv
-----------------------------------------------------------------------------
\* The loop of the application core.
LEMMA PcdInvApp ==
  ASSUME PcdInv, AppRefill \/ AppPublish \/ AppEnd
  PROVE  PcdInv'
  <1> USE DEF PcdInv
  <1>1. CASE AppRefill
    <2> USE <1>1 DEF AppRefill
    <2>1. cmd \in Commands /\ cmd.magic = "COPY" /\ cmd.data \in External /\ cmd.data \in Firmware
      BY DEF PcdTyped, CopyAsked
    <2>2. Turn /\ Size \in Nat \ {0} /\ cmd.moved <= Size /\ cmd.moved = net_i
      BY <2>1, ImageIsSequence DEF CopyInOrder, Turn, Size, Image
    <2>3. /\ cmd' \in Commands /\ cmd'.magic = "COPY" /\ cmd'.data = cmd.data
          /\ cmd'.available = cmd.available /\ cmd'.written
          /\ cmd'.moved = IF net_i < Size THEN net_i + 1 ELSE net_i
      BY <2>1, <2>2, Refilled DEF Size, Image
    <2>4. PcdTyped'
      BY <2>3 DEF PcdTyped
    <2>5. CopyAsked' /\ AllButLastCopied'
      BY <2>1, <2>3 DEF CopyAsked, AllButLastCopied, Copying
    <2>6. Turn'
      <3>1. cmd.available = FALSE /\ cmd.written
        BY <2>1, <2>2 DEF Turn, Commands
      <3>2. Size' = Size /\ Image' = Image
        BY <2>3 DEF Size, Image
      <3> QED
        BY <2>2, <2>3, <3>1, <3>2 DEF Turn, Copied, PcdTyped
    <2>7. CopyInOrder'
      BY <2>1, <2>2, <2>3, <2>6 DEF CopyInOrder, Copied, Size, Image, PcdTyped
    <2> QED
      BY <2>4, <2>5, <2>7
  <1>2. CASE AppPublish
    <2> USE <1>2 DEF AppPublish
    <2>1. /\ cmd' \in Commands /\ cmd'.magic = cmd.magic /\ cmd'.data = cmd.data
          /\ cmd'.moved = cmd.moved /\ ~cmd'.written
      BY DEF Publish, PcdTyped, Commands
    <2>2. PcdTyped'
      BY <2>1 DEF PcdTyped
    <2>3. CopyAsked' /\ AllButLastCopied'
      BY <2>1 DEF CopyAsked, AllButLastCopied, Copying
    <2>4. CopyInOrder'
      BY <2>1 DEF CopyInOrder, Turn, Copied, Size, Image, PcdTyped
    <2> QED
      BY <2>2, <2>3, <2>4
  <1>3. CASE AppEnd
    <2> USE <1>3 DEF AppEnd
    <2>1. PcdTyped'
      BY DEF PcdTyped
    <2>2. CopyAsked' /\ AllButLastCopied' /\ CopyInOrder'
      BY DEF CopyAsked, AllButLastCopied, Copying, CopyInOrder
    <2> QED
      BY <2>1, <2>2
  <1> QED
    BY <1>1, <1>2, <1>3

\* A failure of the network core ends the copy.
LEMMA PcdInvNetFail ==
  ASSUME PcdInv, NetFail
  PROVE  PcdInv'
  <1> USE DEF PcdInv, NetFail
  <1>1. cmd' \in Commands /\ cmd'.magic = "FAIL"
    BY DEF PcdTyped, Commands
  <1>2. PcdTyped'
    BY <1>1 DEF PcdTyped
  <1>3. CopyAsked' /\ AllButLastCopied' /\ CopyInOrder'
    BY <1>1 DEF CopyAsked, AllButLastCopied, Copying, CopyInOrder
  <1> QED
    BY <1>2, <1>3

\* The network core up to its copy, and the ends of its loop.
LEMMA PcdInvNetMoves ==
  ASSUME PcdInv, NetOn \/ NetBoot \/ NetLoop
  PROVE  PcdInv'
  <1> USE DEF PcdInv
  <1>1. CASE NetOn
    <2>1. PcdTyped' /\ CopyAsked' /\ AllButLastCopied'
      BY <1>1 DEF NetOn, PcdTyped, CopyAsked, AllButLastCopied, Copying
    <2>2. CopyInOrder'
      BY <1>1 DEF NetOn, CopyInOrder, Left, Copied, Size, Image
    <2> QED
      BY <2>1, <2>2
  <1>2. CASE NetBoot /\ ~NetFail
    <2>1. PcdTyped' /\ CopyAsked' /\ AllButLastCopied'
      BY <1>2 DEF NetBoot, PcdTyped, CopyAsked, AllButLastCopied, Copying
    <2>2. CopyInOrder'
      BY <1>2 DEF NetBoot, CopyInOrder, Left, Turn, Copied, Size, Image
    <2> QED
      BY <2>1, <2>2
  <1>3. CASE NetLoop
    <2> USE <1>3 DEF NetLoop
    <2>1. cmd.magic = "COPY" /\ cmd.data \in Firmware /\ app_pc \in {"idle", "wait", "publish"}
      BY DEF CopyAsked, Copying, PcdTyped
    <2>2. Size \in Nat \ {0} /\ cmd.moved \in Nat /\ net_i \in Nat /\ cmd.moved <= Size
      BY <2>1, ImageIsSequence DEF CopyInOrder, Size, Image, PcdTyped, Commands
    <2>3. PcdTyped' /\ CopyAsked' /\ AllButLastCopied'
      BY <2>1 DEF PcdTyped, CopyAsked, AllButLastCopied, Copying
    <2>4. net_pc' = IF cmd.moved < Size THEN "poll" ELSE "validate"
      BY DEF Size, Image
    <2>5. ASSUME app_pc = "idle"
          PROVE  CopyInOrder'
      BY <2>1, <2>2, <2>4, <2>5 DEF CopyInOrder, Left, Copied, Size, Image
    <2>6. ASSUME app_pc \in {"wait", "publish"}
          PROVE  CopyInOrder'
      <3>1. Turn
        BY <2>1, <2>6 DEF CopyInOrder
      <3>2. Turn'
        BY <2>2, <2>4, <3>1 DEF Turn, Copied, Size, Image
      <3>3. cmd.moved = Size => Copied(Size - 1)
        BY <2>2, <3>1 DEF Turn, Copied
      <3> QED
        BY <2>1, <2>2, <2>4, <2>6, <3>2, <3>3 DEF CopyInOrder, Copied, Size, Image
    <2> QED
      BY <2>1, <2>3, <2>5, <2>6
  <1> QED
    BY <1>1, <1>2, <1>3, PcdInvNetFail DEF NetBoot

\* The copy itself: of an image in internal flash as a whole, of one in external flash a
\* chunk in its turn; what is copied after a reset, out of turn, is never believed.
LEMMA PcdInvNetCopies ==
  ASSUME PcdInv, NetCopyInternal \/ NetPoll
  PROVE  PcdInv'
  <1> USE DEF PcdInv
  <1>1. /\ cmd.magic = "COPY" /\ cmd.data \in Firmware /\ cmd \in Commands
        /\ app_pc \in {"idle", "wait", "publish"}
    BY DEF NetCopyInternal, NetPoll, CopyAsked, Copying, PcdTyped
  <1>2. Image \in Seq(Data) /\ Size \in Nat \ {0} /\ \A n \in 1 .. Size : Image[n] \in Data
    BY <1>1, ImageIsSequence DEF Image, Size
  <1>3. CASE NetCopyInternal
    <2> USE <1>3 DEF NetCopyInternal
    <2>1. s0' \in Seq(Data) /\ Size <= Len(s0') /\ \A k \in 1 .. Size : s0'[k] = Image[k]
      <3>1. s0' = Image \o SubSeq(s0, Len(Image) + 1, Len(s0))
        BY DEF Image
      <3>2. s0 \in Seq(Data)
        BY DEF PcdTyped
      <3>3. LET t == Image \o SubSeq(s0, Len(Image) + 1, Len(s0))
            IN  t \in Seq(Data) /\ Len(Image) <= Len(t)
                /\ \A k \in 1 .. Len(Image) : t[k] = Image[k]
        BY <1>2, <3>2, ImageWritten
      <3> QED
        BY <3>1, <3>3 DEF Size
    <2>2. PcdTyped'
      BY <1>2, <2>1 DEF PcdTyped, Size, Image
    <2>3. CopyAsked' /\ AllButLastCopied'
      BY <1>1 DEF CopyAsked, AllButLastCopied, Copying
    <2>4. CopyInOrder'
      <3>1. Size' = Size /\ Image' = Image
        BY DEF Size, Image
      <3>2. \A k \in 1 .. Size - 1 : k \in 1 .. Size
        BY <1>2
      <3>3. Copied(Size - 1)'
        BY <2>1, <3>1, <3>2 DEF Copied
      <3> QED
        BY <3>1, <3>3 DEF CopyInOrder
    <2> QED
      BY <2>2, <2>3, <2>4
  <1>4. CASE NetPoll /\ ~NetFail /\ cmd.available
    <2> USE <1>4 DEF NetPoll
    <2>1. cmd.data \in External
      BY DEF CopyAsked
    <2>2. /\ cmd' \in Commands /\ cmd'.magic = "COPY" /\ cmd'.data = cmd.data
          /\ cmd'.moved = cmd.moved /\ ~cmd'.available /\ cmd'.written
      BY <1>1 DEF Commands
    <2>3. cmd.moved \in 1 .. Size
      BY <1>1, <2>1 DEF CopyInOrder
    <2>4. Image[cmd.moved] \in Data
      BY <1>2, <2>3
    <2>5. /\ s0' \in Seq(Data) /\ net_i + 1 <= Len(s0')
          /\ s0'[net_i + 1] = Image[cmd.moved]
          /\ \A k \in 1 .. net_i : s0'[k] = s0[k]
      <3>1. s0' = [k \in 1 .. (IF net_i + 1 > Len(s0) THEN net_i + 1 ELSE Len(s0)) |->
                     IF k = net_i + 1 THEN Image[cmd.moved] ELSE s0[k]]
        BY DEF Image
      <3>2. s0 \in Seq(Data) /\ net_i \in Nat /\ net_i <= Len(s0)
        BY DEF PcdTyped
      <3> QED
        BY <2>4, <3>1, <3>2
    <2>6. PcdTyped'
      BY <2>2, <2>5 DEF PcdTyped
    <2>7. CopyAsked' /\ AllButLastCopied'
      BY <1>1, <2>2 DEF CopyAsked, AllButLastCopied, Copying
    <2>8. Size' = Size /\ Image' = Image
      BY <2>2 DEF Size, Image
    <2>9. ASSUME app_pc = "idle"
          PROVE  CopyInOrder'
      <3>1. cmd.moved < Size
        BY <1>1, <2>1, <2>9 DEF CopyInOrder, Left
      <3>2. Left'
        BY <1>2, <2>2, <2>3, <2>8, <3>1 DEF Left
      <3> QED
        BY <2>2, <2>3, <2>8, <2>9, <3>2 DEF CopyInOrder
    <2>10. ASSUME app_pc \in {"wait", "publish"}
           PROVE  CopyInOrder'
      <3>1. Turn
        BY <1>1, <2>1, <2>10 DEF CopyInOrder
      <3>2. app_pc = "wait" /\ net_i < Size /\ cmd.moved = net_i + 1
        BY <2>10, <3>1 DEF Turn
      <3>3. Copied(net_i)'
        BY <1>2, <2>5, <2>8, <3>1, <3>2 DEF Turn, Copied, PcdTyped
      <3>4. Turn'
        BY <1>2, <2>2, <2>8, <3>1, <3>2, <3>3 DEF Turn, PcdTyped
      <3> QED
        BY <1>1, <2>1, <2>2, <2>8, <2>10, <3>4 DEF CopyInOrder
    <2> QED
      BY <1>1, <2>6, <2>7, <2>9, <2>10
  <1>5. CASE NetPoll /\ ~NetFail /\ ~cmd.available
    <2> USE <1>5 DEF NetPoll
    <2>1. PcdTyped' /\ CopyAsked' /\ AllButLastCopied'
      BY DEF PcdTyped, CopyAsked, AllButLastCopied, Copying
    <2>2. CopyInOrder'
      BY DEF CopyInOrder, Left, Turn, Copied, Size, Image
    <2> QED
      BY <2>1, <2>2
  <1> QED
    BY <1>3, <1>4, <1>5, PcdInvNetFail DEF NetPoll

\* The check that ends the copy comes when nothing but the last chunk can be missing.
LEMMA PcdInvNetValidate ==
  ASSUME PcdInv, NetValidate
  PROVE  PcdInv'
  <1> USE DEF PcdInv
  <1>1. CASE ~NetFail
    <2> USE <1>1 DEF NetValidate
    <2>1. cmd.magic = "COPY" /\ cmd.data \in Firmware
      BY DEF CopyAsked, Copying
    <2>2. cmd' \in Commands /\ cmd'.magic = "DONE" /\ cmd'.data = cmd.data
      BY DEF PcdTyped, Commands
    <2>3. PcdTyped'
      BY <2>2 DEF PcdTyped
    <2>4. AllButLastCopied'
      BY <2>1, <2>2 DEF CopyInOrder, Copied, Size, Image, AllButLastCopied
    <2>5. CopyAsked' /\ CopyInOrder'
      BY <2>1, <2>2 DEF CopyAsked, Copying, CopyInOrder
    <2> QED
      BY <2>3, <2>4, <2>5
  <1> QED
    BY <1>1, PcdInvNetFail

\* Every step of the two cores.
LEMMA PcdInvStep ==
  ASSUME PcdInv, PcdStep
  PROVE  PcdInv'
  BY PcdInvApp, PcdInvNetMoves, PcdInvNetCopies, PcdInvNetValidate DEF PcdStep
-----------------------------------------------------------------------------
\* The loader asks for an update only of an image for the network core.
Handed == pc = "netcore" => slot["secondary"][1] \in Firmware

\* While it waits it leaves the slots alone, and it comes there through the test of the
\* reset vector only.
LEMMA HandedInit == Init => Handed
  BY DEF Init, Handed

LEMMA HandedNext == Handed /\ [Next]_vars => Handed'
  <1> SUFFICES ASSUME Handed, [Next]_vars
               PROVE  Handed'
    OBVIOUS
  <1> USE DEF Handed
  <1>1. CASE PrepareFails \/ PrepareResume \/ SwapTypeFails
    BY <1>1 DEF PrepareFails, PrepareResume, SwapTypeFails
  <1>2. CASE PreparePending
    BY <1>2 DEF PreparePending, ValidateSecondary
  <1>3. CASE boot_validated_swap_type
    BY <1>3 DEF boot_validated_swap_type, ValidateSecondary, ForNetCore, NetImages
  <1>4. CASE EraseSlot
    BY <1>4 DEF EraseSlot
  <1>5. CASE NetCoreUpdate \/ NetCoreUpdated \/ NetCoreFailed \/ NetCoreStep
    BY <1>5 DEF NetCoreUpdate, NetCoreUpdated, NetCoreFailed, NetCoreStep, loaderVars
  <1>6. CASE SwapMarkRevert \/ SwapBegin \/ SwapEraseTrailer
    BY <1>6 DEF SwapMarkRevert, SwapBegin, SwapEraseTrailer
  <1>7. CASE SwapSector \/ boot_swap_image
    BY <1>7 DEF SwapSector, boot_swap_image
  <1>8. CASE SetImageOk \/ SetCopyDone \/ SwapTypeFail
    BY <1>8 DEF SetImageOk, SetCopyDone, SwapTypeFail
  <1>9. CASE CheckPrimary \/ main
    BY <1>9 DEF CheckPrimary, main
  <1>10. CASE AppUpload \/ AppRequest \/ AppConfirm \/ AppNetOn
    BY <1>10 DEF AppUpload, AppRequest, AppConfirm, AppNetOn, loaderVars
  <1>11. CASE Reset
    BY <1>11 DEF Reset
  <1>12. CASE UNCHANGED vars
    BY <1>12 DEF vars, loaderVars
  <1> QED
    BY <1>1, <1>2, <1>3, <1>4, <1>5, <1>6, <1>7, <1>8, <1>9, <1>10, <1>11, <1>12
    DEF Next, LoaderStep

\* What leaves the cores and the command alone keeps the invariant.
LEMMA PcdInvStutter ==
  ASSUME PcdInv, UNCHANGED pcdVars
  PROVE  PcdInv'
  BY DEF PcdInv, pcdVars, PcdTyped, CopyAsked, Copying, CopyInOrder, Turn, Left, Copied, Size,
     Image, AllButLastCopied

\* The loader, the application and resets do to the update only what was shown above.
LEMMA PcdInvNext == PcdInv /\ Handed /\ [Next]_vars => PcdInv'
  <1> SUFFICES ASSUME PcdInv, Handed, [Next]_vars
               PROVE  PcdInv'
    OBVIOUS
  <1>1. CASE NetCoreUpdate
    BY <1>1, PcdInvUpdate DEF NetCoreUpdate, Handed
  <1>2. CASE NetCoreStep
    BY <1>2, PcdInvStep DEF NetCoreStep
  <1>3. CASE NetCoreUpdated \/ NetCoreFailed
    BY <1>3, PcdInvOver DEF NetCoreUpdated, NetCoreFailed
  <1>4. CASE AppNetOn
    BY <1>4, PcdInvNetMoves DEF AppNetOn
  <1>5. CASE Reset
    BY <1>5, PcdInvReset DEF Reset
  <1>6. CASE UNCHANGED pcdVars
    BY <1>6, PcdInvStutter
  <1>7. CASE LoaderStep /\ ~NetCoreUpdate /\ ~NetCoreUpdated /\ ~NetCoreFailed
    BY <1>6, <1>7 DEF LoaderStep, PrepareFails, PrepareResume, PreparePending, SwapTypeFails,
       boot_validated_swap_type, EraseSlot, SwapMarkRevert, SwapBegin, SwapEraseTrailer,
       SwapSector, boot_swap_image, SetImageOk, SetCopyDone, SwapTypeFail, CheckPrimary, main
  <1>8. CASE AppUpload \/ AppRequest \/ AppConfirm \/ UNCHANGED vars
    BY <1>6, <1>8 DEF AppUpload, AppRequest, AppConfirm, vars
  <1> QED
    BY <1>1, <1>2, <1>3, <1>4, <1>5, <1>7, <1>8 DEF Next, LoaderStep

\* The invariant of the update, with the loader, the application, faults and resets.
LEMMA LoaderKeepsPcdInv == Spec => [](PcdInv /\ Handed)
  <1>1. Init => PcdInv /\ Handed
    BY PcdInvInit, HandedInit DEF Init
  <1>2. PcdInv /\ Handed /\ [Next]_vars => (PcdInv /\ Handed)'
    BY PcdInvNext, HandedNext
  <1> QED
    BY <1>1, <1>2, PTL DEF Spec

\* Whatever the images, their lengths, the resets and the faults: when the boot loader of
\* the network core reports a copy as done (pcd_fw_copy_done), every chunk but the last is
\* the image's own, each in its place.
THEOREM CopyLosesOnlyTheLast == Spec => []AllButLastCopied
  BY LoaderKeepsPcdInv, PTL DEF PcdInv

\* The two cores take turns at the single chunk of RAM: while the application core serves
\* a copy (pcd_network_core_update), a chunk is written or available, and what has been
\* written are the image's first chunks in order.
THEOREM CoresTakeTurns ==
  Spec => [](/\ cmd.magic = "COPY" /\ cmd.data \in External
             /\ app_pc \in {"wait", "publish"}
             => Turn)
  BY LoaderKeepsPcdInv, PTL DEF PcdInv, CopyInOrder
=============================================================================
