----------------------------- MODULE AppThreads -----------------------------
(***************************************************************************)
(* The device threads of the application core of nrf53_ble/otherExamples:  *)
(* flash_thread, which counts the starts in NVS and in the settings;       *)
(* adc_thread and the work item that samples the same converter; iic_thread*)
(* with its external interrupt; spi_thread; raw_nrfx_thread, which drives  *)
(* the same bus and a clock without Zephyr; and main with the buttons.     *)
(* The RPC and UART threads are in CoreRpc.tla.                            *)
(*                                                                         *)
(* The groups share no state: a behaviour watches one of them.  A reset may*)
(* come between any two steps; flash survives it.                          *)
(***************************************************************************)
EXTENDS Naturals

CONSTANT MaxBoots   \* bound

VARIABLE dev

Ram == [flash |-> "nvs_key", reboot_cnt |-> 0, key_s |-> FALSE,
        adc |-> "init", adc_work |-> FALSE, calibrated |-> FALSE,
        adc_async_read_pending |-> FALSE, converting |-> FALSE, async_sig |-> FALSE,
        iic |-> "wait", int |-> FALSE, sem_iic_op |-> FALSE,
        spi |-> "wait", raw |-> "init", sem_raw_spi_sync |-> FALSE, rtc |-> FALSE,
        main |-> "init", led |-> TRUE]

Init == \E group \in {"flash", "adc", "bus"} :
        dev = [group |-> group, ram |-> Ram, nvs_key |-> FALSE, nvs_cnt |-> 0,
               settings_key |-> FALSE, settings_cnt |-> 0, boots |-> 1, lost |-> FALSE]

reset == dev.boots < MaxBoots /\ dev' = [dev EXCEPT !.ram = Ram, !.boots = @ + 1]

At(pc) == dev.ram.flash = pc
-----------------------------------------------------------------------------
(* flash_thread.                                                            *)

\* nvs_usage_init, first part: the key is written when it is not there.
nvs_key ==
  /\ At("nvs_key")
  /\ \/ dev' = [dev EXCEPT !.ram.flash = "nvs_cnt", !.nvs_key = TRUE]
     \/ dev' = [dev EXCEPT !.ram.flash = "nvs_cnt", !.lost = TRUE]

\* Second part: one more than what was read.  The result of the write is ignored.
nvs_cnt ==
  /\ At("nvs_cnt")
  /\ \/ dev' = [dev EXCEPT !.ram.flash = "load", !.nvs_cnt = @ + 1]
     \/ dev' = [dev EXCEPT !.ram.flash = "load", !.lost = TRUE]

\* settings_usage_init: settings_load calls the handler for each value that is stored.
alpha_handle_set ==
  /\ At("load")
  /\ \/ dev' = [dev EXCEPT !.ram.flash = IF dev.settings_cnt = 0 THEN "key" ELSE "cnt",
                           !.ram.reboot_cnt = dev.settings_cnt,
                           !.ram.key_s = dev.settings_key]
     \/ dev' = [dev EXCEPT !.ram.flash = "returned"]    \* no settings subsystem

\* Mutant: the counter before the key.
settings_key_later ==
  /\ At("key")
  /\ dev' = [dev EXCEPT !.ram.flash = "key_last", !.ram.reboot_cnt = 1, !.settings_cnt = 1]

\* On the first start the key is saved, and then the counter.
settings_key ==
  /\ At("key")
  /\ \/ dev' = [dev EXCEPT !.ram.flash = "cnt", !.ram.key_s = TRUE, !.settings_key = TRUE]
     \/ dev' = [dev EXCEPT !.ram.flash = "cnt", !.ram.key_s = TRUE, !.lost = TRUE]

\* Mutant: what NVS counted.
settings_cnt_twice ==
  /\ At("cnt")
  /\ dev' = [dev EXCEPT !.ram.flash = "sleep", !.settings_cnt = dev.ram.reboot_cnt + dev.nvs_cnt]

settings_cnt ==
  /\ At("cnt")
  /\ LET n == dev.ram.reboot_cnt + 1
     IN \/ dev' = [dev EXCEPT !.ram.flash = "sleep", !.ram.reboot_cnt = n,
                              !.settings_cnt = n]
        \/ dev' = [dev EXCEPT !.ram.flash = "sleep", !.ram.reboot_cnt = n, !.lost = TRUE]

flash_thread == nvs_key \/ nvs_cnt \/ alpha_handle_set \/ settings_key \/ settings_cnt
-----------------------------------------------------------------------------
(* The converter: a thread and a work item, both every 20 seconds.          *)

\* A channel that cannot be set up leaves the work item unscheduled; the thread goes on.
init_adc ==
  /\ dev.ram.adc = "init"
  /\ \E ok \in BOOLEAN :
       dev' = [dev EXCEPT !.ram.adc = "loop", !.ram.adc_work = ok]

\* A read; the first one calibrates, and counts as calibrated also when it fails.
Read(d) == {[d EXCEPT !.ram.calibrated = TRUE],
            [d EXCEPT !.ram.calibrated = TRUE, !.lost = TRUE]}

\* The driver lets it wait while a conversion is running.
adc_sample_sync ==
  dev.ram.adc = "loop" /\ ~dev.ram.converting /\ dev' \in Read(dev)

\* Every other time the result of the last read is fetched.  The signal is never reset.
adc_sample_async ==
  /\ dev.ram.adc_work
  /\ \/ /\ ~dev.ram.adc_async_read_pending /\ ~dev.ram.converting
        /\ \/ dev' \in Read([dev EXCEPT !.ram.converting = TRUE,
                                        !.ram.adc_async_read_pending = TRUE])
           \/ dev' = [dev EXCEPT !.ram.calibrated = TRUE, !.lost = TRUE]
     \/ /\ dev.ram.adc_async_read_pending /\ dev.ram.async_sig
        /\ dev' = [dev EXCEPT !.ram.adc_async_read_pending = FALSE]

\* External: the conversion ends.
converted == dev.ram.converting /\ dev' = [dev EXCEPT !.ram.converting = FALSE,
                                                     !.ram.async_sig = TRUE]

Adc == init_adc \/ adc_sample_sync \/ adc_sample_async \/ converted
-----------------------------------------------------------------------------
(* Bus threads and buttons.                                                 *)

\* config_io_interrupt, after the bus was found and configured.
iic_start ==
  /\ dev.ram.iic = "wait" /\ ~dev.ram.int /\ ~dev.ram.sem_iic_op
  /\ \/ dev' = [dev EXCEPT !.ram.int = TRUE]
     \/ dev' = [dev EXCEPT !.ram.iic = "returned"]

ext_int_isr ==
  dev.ram.int /\ dev' = [dev EXCEPT !.ram.int = FALSE, !.ram.sem_iic_op = TRUE]

\* The first interrupt starts the thread; eeprom_cmd_read stops at the first error.
iic_thread ==
  \/ /\ dev.ram.iic = "wait" /\ dev.ram.sem_iic_op
     /\ dev' = [dev EXCEPT !.ram.iic = "read", !.ram.sem_iic_op = FALSE]
  \/ dev.ram.iic = "read" /\ dev' = [dev EXCEPT !.ram.int = TRUE]

\* main: LED and buttons, then the work queue of the LED.
main_app ==
  /\ dev.ram.main = "init"
  /\ \/ dev' = [dev EXCEPT !.ram.main = "done"]
     \/ dev' = [dev EXCEPT !.ram.main = "returned"]

blinky_work_fn == dev.ram.main = "done" /\ dev' = [dev EXCEPT !.ram.led = ~@]

\* Button 2 gives sem_spi_txrx; the first time the exchange starts, and never stops.
button_changed == /\ dev.ram.main = "done" /\ dev.ram.spi = "wait"
                  /\ dev' = [dev EXCEPT !.ram.spi = "given"]

\* Without the bus the thread is not there to take it.
spi_thread == dev.ram.spi = "given" /\ dev' = [dev EXCEPT !.ram.spi = "exchange"]

\* raw_spi_init and raw_rtc_init: what fails is only logged.
raw_init == /\ dev.ram.raw = "init"
            /\ \E ok \in BOOLEAN : dev' = [dev EXCEPT !.ram.raw = "wait", !.ram.rtc = ok]

\* The compare event of the clock comes once.
rtc_handler == dev.ram.rtc /\ dev' = [dev EXCEPT !.ram.rtc = FALSE]

\* Button 2 gives sem_raw_nrfx_txrx as well.
raw_start == /\ dev.ram.raw = "wait" /\ dev.ram.spi # "wait"
             /\ dev' = [dev EXCEPT !.ram.raw = "loop"]

\* nrfx_spim_xfer of spi_data_exchange is refused, or the thread waits for its end.
raw_exchange ==
  /\ dev.ram.raw = "loop"
  /\ \/ dev' = dev
     \/ dev' = [dev EXCEPT !.ram.raw = "transfer"]

spi_event_handler == /\ dev.ram.raw = "transfer" /\ ~dev.ram.sem_raw_spi_sync
                     /\ dev' = [dev EXCEPT !.ram.sem_raw_spi_sync = TRUE]

raw_synced == /\ dev.ram.raw = "transfer" /\ dev.ram.sem_raw_spi_sync
              /\ dev' = [dev EXCEPT !.ram.raw = "loop", !.ram.sem_raw_spi_sync = FALSE]

raw_nrfx_thread == raw_init \/ raw_start \/ raw_exchange \/ raw_synced

Bus == \/ iic_start \/ ext_int_isr \/ iic_thread \/ main_app \/ blinky_work_fn
       \/ button_changed \/ spi_thread
       \/ raw_nrfx_thread \/ rtc_handler \/ spi_event_handler

Next == \/ dev.group = "flash" /\ (flash_thread \/ reset)
        \/ dev.group = "adc" /\ Adc
        \/ dev.group = "bus" /\ Bus
-----------------------------------------------------------------------------
TypeOK ==
  /\ dev.ram.flash \in {"nvs_key", "nvs_cnt", "load", "key", "cnt", "sleep", "returned"}
  /\ {dev.nvs_cnt, dev.settings_cnt, dev.ram.reboot_cnt} \subseteq 0 .. MaxBoots
  /\ dev.ram.iic \in {"wait", "read", "returned"} /\ dev.ram.adc \in {"init", "loop"}
  /\ dev.ram.spi \in {"wait", "given", "exchange"}
  /\ dev.ram.raw \in {"init", "wait", "loop", "transfer"}
  /\ dev.ram.main \in {"init", "done", "returned"}

\* A count of starts stands for a key that was saved: a reset between the two saves, at
\* any start, never leaves a device that counts and has no key.
KeyBeforeCount == dev.settings_cnt > 0 => dev.settings_key \/ dev.lost

\* Neither counter counts a start twice, and only lost writes make the settings' one
\* overtake the other.
CountersTrue == /\ dev.nvs_cnt <= dev.boots /\ dev.settings_cnt <= dev.boots
                /\ dev.settings_cnt <= dev.nvs_cnt \/ dev.lost
=============================================================================
