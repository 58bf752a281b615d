----------------------------- MODULE PcdUpdate -----------------------------
(***************************************************************************)
(* The network-core update of the nRF5340 (9pcd.c, 9main.c): the boot      *)
(* loader of the application core hands an image to the boot loader of the *)
(* network core through a command in shared memory.  An image in internal  *)
(* flash is copied by the network core on its own; one in external flash   *)
(* goes through a single RAM chunk that the application core refills.      *)
(* Both cores read and write the command with no lock: each step below is  *)
(* one access that the other core can tell apart.  The fields are not      *)
(* volatile; the build is taken to read memory at every access.            *)
(***************************************************************************)
EXTENDS Naturals, Sequences

CONSTANTS Chunks,    \* Chunks[f] = the chunks of firmware f of the network core
          NoImage,   \* what the command points at before the first update
          External   \* firmware whose source is external flash (XIP addresses)

Firmware == DOMAIN Chunks
Data == UNION {{Chunks[f][n] : n \in DOMAIN Chunks[f]} : f \in Firmware}

ASSUME PcdAssumption ==
  /\ NoImage \notin Firmware /\ External \subseteq Firmware
  /\ \A f \in Firmware : Chunks[f] \in Seq(Data) /\ Len(Chunks[f]) > 0

VARIABLES cmd,     \* struct pcd_cmd in shared memory
          app_pc,  \* application core: step of pcd_network_core_update()
          net_pc,  \* network core: step of main() and pcd_fw_copy()
          net_i,   \* chunks that this call of pcd_fw_copy() has written
          s0       \* chunks in the network core's flash

pcdVars == << cmd, app_pc, net_pc, net_i, s0 >>

\* A reset of the application core holds the network core off; the shared RAM,
\* and with it the command, keeps its contents.
PcdReset ==
  /\ app_pc' = "idle" /\ net_pc' = "off" /\ net_i' = 0
  /\ UNCHANGED << cmd, s0 >>

PcdInit(f) ==
  /\ cmd = [magic |-> "NONE", data |-> NoImage, moved |-> 0, chunk_len |-> 0,
            available |-> FALSE, written |-> FALSE]
  /\ app_pc = "idle" /\ net_pc = "off" /\ net_i = 0
  /\ s0 = Chunks[f]
-----------------------------------------------------------------------------
\* pcd_cmd_update() up to the store of bytes_moved: one more chunk, or none when
\* all have been handed over.
Refill(c) ==
  LET left == Len(Chunks[c.data]) - c.moved
      n    == IF left > 1 THEN 1 ELSE left
  IN  [c EXCEPT !.chunk_len = n, !.moved = @ + n]

\* Its last two stores.
Publish(c) == [c EXCEPT !.written = FALSE, !.available = TRUE]

\* Mutant: bytes_moved is not reset for a new image.
pcd_cmd_write_mutant(f) ==
  LET c == [cmd EXCEPT !.magic = "COPY", !.data = f]
  IN  IF f \in External THEN Publish(Refill(c)) ELSE c

\* pcd_cmd_write() with the network core off; the copy is started.
pcd_cmd_write(f) ==
  LET c == [cmd EXCEPT !.magic = "COPY", !.data = f, !.moved = 0]
  IN  IF f \in External THEN Publish(Refill(c)) ELSE c

pcd_network_core_update(f) ==
  /\ app_pc = "idle"
  /\ cmd' = pcd_cmd_write(f)
  /\ app_pc' = "wait" /\ net_pc' = "boot" /\ net_i' = 0
  /\ UNCHANGED s0

\* The polling loop: a written chunk is replaced by the next one.
AppRefill ==
  /\ app_pc = "wait" /\ cmd.magic = "COPY" /\ cmd.written
  /\ cmd.data \in External
  /\ cmd' = Refill(cmd)
  /\ app_pc' = "publish"
  /\ UNCHANGED << net_pc, net_i, s0 >>

AppPublish ==
  /\ app_pc = "publish"
  /\ cmd' = Publish(cmd)
  /\ app_pc' = "wait"
  /\ UNCHANGED << net_pc, net_i, s0 >>

\* The loop ends: on success the network core is turned off again, on failure it is not.
AppEnd ==
  /\ app_pc = "wait" /\ cmd.magic # "COPY"
  /\ app_pc' = IF cmd.magic = "DONE" THEN "done" ELSE "failed"
  /\ net_pc' = IF cmd.magic = "DONE" THEN "off" ELSE net_pc
  /\ UNCHANGED << cmd, net_i, s0 >>
-----------------------------------------------------------------------------
\* pcd_fw_copy_invalidate() at the label failure of main(), and the end of main().
NetFail ==
  /\ cmd' = [cmd EXCEPT !.magic = "FAIL"]
  /\ net_pc' = "halt"
  /\ UNCHANGED << app_pc, net_i, s0 >>

\* The application turns the network core on.
NetOn ==
  /\ app_pc = "idle" /\ net_pc = "off"
  /\ net_pc' = "boot"
  /\ UNCHANGED << cmd, app_pc, net_i, s0 >>

\* main() up to pcd_fw_copy(), or to bl_boot() when no copy is asked for.  The
\* protection of b0n or of the firmware, the flash stream and the validation of
\* an image in internal flash may fail.
NetBoot ==
  /\ net_pc = "boot"
  /\ \/ NetFail
     \/ /\ net_pc' = IF cmd.magic = "COPY" THEN "loop" ELSE "run"
        /\ UNCHANGED << cmd, app_pc, net_i, s0 >>

\* pcd_fw_copy() of an image in internal flash: one write of the whole image.
NetCopyInternal ==
  /\ net_pc = "loop" /\ cmd.data \notin External
  /\ s0' = Chunks[cmd.data] \o SubSeq(s0, Len(Chunks[cmd.data]) + 1, Len(s0))
  /\ net_i' = Len(Chunks[cmd.data])
  /\ net_pc' = "validate"
  /\ UNCHANGED << cmd, app_pc >>

\* while (bytes_moved < len)
NetLoop ==
  /\ net_pc = "loop" /\ cmd.data \in External
  /\ net_pc' = IF cmd.moved < Len(Chunks[cmd.data]) THEN "poll" ELSE "validate"
  /\ UNCHANGED << cmd, app_pc, net_i, s0 >>

\* if (image_chunk_available): the chunk is written behind the previous ones.
NetPoll ==
  /\ net_pc = "poll"
  /\ IF cmd.available
     THEN \/ NetFail
          \/ /\ s0' = [n \in 1 .. (IF net_i + 1 > Len(s0) THEN net_i + 1 ELSE Len(s0)) |->
                         IF n = net_i + 1 THEN Chunks[cmd.data][cmd.moved] ELSE s0[n]]
             /\ net_i' = net_i + 1
             /\ cmd' = [cmd EXCEPT !.available = FALSE, !.written = TRUE]
             /\ net_pc' = "loop"
             /\ UNCHANGED app_pc
     ELSE /\ net_pc' = "loop"
          /\ UNCHANGED << cmd, app_pc, net_i, s0 >>

\* External: bl_validate_firmware() of s0 finds some firmware whose chunks are all there.
bl_validate_firmware == \E f \in Firmware : /\ Len(Chunks[f]) <= Len(s0)
                                            /\ \A n \in DOMAIN Chunks[f] : s0[n] = Chunks[f][n]

\* The check after the copy, pcd_fw_copy_done(), and the wait for the reset.
NetValidate ==
  /\ net_pc = "validate"
  /\ IF bl_validate_firmware
     THEN /\ cmd' = [cmd EXCEPT !.magic = "DONE"]
          /\ net_pc' = "spin"
          /\ UNCHANGED << app_pc, net_i, s0 >>
     ELSE NetFail

PcdStep == \/ AppRefill \/ AppPublish \/ AppEnd
           \/ NetBoot \/ NetCopyInternal \/ NetLoop \/ NetPoll \/ NetValidate
-----------------------------------------------------------------------------
\* Updates one after another, with no reset (the boot loader adds resets).
PcdRestart == app_pc \in {"done", "failed"} /\ PcdReset

PcdSpecInit == \E f \in Firmware : PcdInit(f)

PcdNext == \/ \E f \in Firmware : net_pc = "off" /\ pcd_network_core_update(f)
           \/ PcdStep
           \/ PcdRestart

PcdSpec == PcdSpecInit /\ [][PcdNext]_pcdVars

\* The command is DONE only when the network core's flash holds the image it was
\* for.  9main.c: "This check is only done to verify that the flash copy operation
\* was successful."
DoneMeansCopied ==
  cmd.magic = "DONE" => \A n \in DOMAIN Chunks[cmd.data] : s0[n] = Chunks[cmd.data][n]

\* What does hold of a copy that was reported done: every chunk but the last is
\* the image's own, each in its place, although one RAM chunk is used for all of
\* them and the two cores share it with no lock.
AllButLastCopied ==
  cmd.magic = "DONE" =>
    \A n \in 1 .. Len(Chunks[cmd.data]) - 1 : s0[n] = Chunks[cmd.data][n]
=============================================================================
