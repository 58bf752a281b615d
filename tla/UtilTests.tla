----------------------------- MODULE UtilTests -----------------------------
(***************************************************************************)
(* Programs that exercise the kernel: app/threads_lp_test and              *)
(* util_test/stacks_monitor (two threads blink and report to a third one), *)
(* v1.6.1/lp_button_int (a button's interrupt next to main()) and          *)
(* watchdog_mcuboot/boot_and_app (an application that stops feeding).      *)
(***************************************************************************)
EXTENDS Naturals, Sequences

CONSTANTS NumBlocks,   \* messages that fit into the heap
          CNT          \* values of a counter (2^32 in the code)

VARIABLE utl

Blocks == 1..NumBlocks
Leds == {0, 1}

\* idle: blink0 waits in k_cpu_idle() and keeps every other thread out; mem: the messages;
\* hold, printed: what uart_out() is at; last: ghost, the latest counter printed of each LED.
Init == \E i \in {"threads_lp", "stacks", "button", "watchdog"} :
  utl = [image |-> i, pc |-> "init", fault |-> FALSE, idle |-> FALSE, cnt |-> [l \in Leds |-> 0],
         free |-> Blocks, mem |-> [b \in Blocks |-> << 0, 0 >>], fifo |-> << >>, hold |-> 0,
         printed |-> FALSE, last |-> [l \in Leds |-> CNT - 1], order |-> TRUE,
         blinks |-> [l \in Leds |-> "start"], led |-> "unknown", wdt |-> "none", fed |-> 0]

Blinkers == {"threads_lp", "stacks"}
-----------------------------------------------------------------------------
(* The blinking threads.  A LED that is not ready or cannot be configured   *)
(* ends its thread.                                                         *)

led_setup(l) == /\ utl.image \in Blinkers /\ utl.blinks[l] = "start" /\ ~utl.idle
                /\ \E s \in {"on", "ended"} : utl' = [utl EXCEPT !.blinks[l] = s]

\* One round: the LED is switched, the message allocated, written and queued.  An empty
\* heap stops the assertion, or writes through NULL.
Round(l) ==
  IF utl.free = {} THEN [utl EXCEPT !.fault = TRUE]
  ELSE LET b == CHOOSE x \in utl.free : TRUE
       IN  [utl EXCEPT !.free = @ \ {b}, !.mem[b] = << l, utl.cnt[l] >>,
                       !.fifo = Append(@, b), !.cnt[l] = (@ + 1) % CNT]

Blinks(image, l) ==
  utl.image = image /\ utl.blinks[l] = "on" /\ ~utl.idle /\ ~utl.fault

blink == \E l \in Leds : Blinks("stacks", l) /\ utl' = Round(l)

\* The thread of the higher priority sleeps and then waits for an interrupt itself.
blink_led0 == \/ Blinks("threads_lp", 0) /\ utl' = Round(0)
              \/ Blinks("threads_lp", 0) /\ utl' = [utl EXCEPT !.idle = TRUE]
              \/ utl.idle /\ utl' = [utl EXCEPT !.idle = FALSE]

blink_led1 == Blinks("threads_lp", 1) /\ utl' = Round(1)

\* Mutant: the message is freed before it is printed.
uart_out_frees ==
  /\ utl.image \in Blinkers /\ ~utl.idle /\ ~utl.fault
  /\ \/ /\ utl.hold = 0 /\ utl.fifo # << >>
        /\ utl' = [utl EXCEPT !.hold = Head(utl.fifo), !.fifo = Tail(@),
                              !.free = @ \union {Head(utl.fifo)}]
     \/ /\ utl.hold # 0
        /\ LET m == utl.mem[utl.hold]
           IN  utl' = [utl EXCEPT !.hold = 0, !.last[m[1]] = m[2],
                         !.order = @ /\ m[2] = (utl.last[m[1]] + 1) % CNT]

uart_out ==
  /\ utl.image \in Blinkers /\ ~utl.idle /\ ~utl.fault
  /\ \/ /\ utl.hold = 0 /\ utl.fifo # << >>
        /\ utl' = [utl EXCEPT !.hold = Head(utl.fifo), !.fifo = Tail(@)]
     \/ /\ utl.hold # 0 /\ ~utl.printed
        /\ LET m == utl.mem[utl.hold]
           IN  utl' = [utl EXCEPT !.printed = TRUE, !.last[m[1]] = m[2],
                         !.order = @ /\ m[2] = (utl.last[m[1]] + 1) % CNT]
     \/ /\ utl.hold # 0 /\ utl.printed
        /\ utl' = [utl EXCEPT !.free = @ \union {utl.hold}, !.hold = 0, !.printed = FALSE]
-----------------------------------------------------------------------------
(* lp_button_int: main() registers the interrupt before it looks at the LED *)
(* and drops the port of one that is not ready.                             *)

main_button ==
  /\ utl.image = "button" /\ ~utl.fault
  /\ \/ /\ utl.pc = "init"
        /\ utl' \in {[utl EXCEPT !.pc = "led"], [utl EXCEPT !.pc = "returned"]}
     \/ /\ utl.pc = "led"
        /\ utl' \in {[utl EXCEPT !.pc = "loop", !.led = "output"],
                     [utl EXCEPT !.pc = "returned", !.led = "NULL"]}

\* Each interrupt counts and prints; the port of the LED is used unchecked.
button_pressed ==
  /\ utl.image = "button" /\ ~utl.fault
  /\ utl.pc \in {"led", "loop"} \/ utl.led = "NULL"
  /\ utl' = [utl EXCEPT !.fault = utl.led = "NULL"]
-----------------------------------------------------------------------------
(* The watchdog is set up before the kernel starts; main() does not know    *)
(* the result.                                                              *)

WDT_FEED_TRIES == 5

init_wdt ==
  /\ utl.image = "watchdog" /\ utl.pc = "init"
  /\ \E w \in {"none", "bound", "armed"} : utl' = [utl EXCEPT !.pc = "feed", !.wdt = w]

\* A watchdog that was not found is fed through NULL, one that was not set up in vain.
main_watchdog ==
  /\ utl.image = "watchdog" /\ utl.pc = "feed" /\ ~utl.fault
  /\ utl' = IF utl.wdt = "none" THEN [utl EXCEPT !.fault = TRUE]
            ELSE [utl EXCEPT !.fed = @ + 1,
                             !.pc = IF utl.fed + 1 = WDT_FEED_TRIES THEN "wait" ELSE @]

\* 50 ms between two feeds are within the window of 1 s: it expires only later.
wdt_expires ==
  /\ utl.pc = "wait" /\ utl.wdt = "armed"
  /\ utl' = [utl EXCEPT !.pc = "init", !.wdt = "none", !.fed = 0]

Next == \/ (\E l \in Leds : led_setup(l)) \/ blink \/ blink_led0 \/ blink_led1 \/ uart_out
        \/ main_button \/ button_pressed \/ init_wdt \/ main_watchdog \/ wdt_expires
-----------------------------------------------------------------------------
TypeOK == utl \in [image : Blinkers \union {"button", "watchdog"},
                   pc : {"init", "led", "loop", "returned", "feed", "wait"},
                   fault : BOOLEAN, idle : BOOLEAN, cnt : [Leds -> 0..CNT-1], free : SUBSET Blocks,
                   mem : [Blocks -> Leds \X (0..CNT-1)], fifo : Seq(Blocks), hold : {0} \union Blocks,
                   printed : BOOLEAN, last : [Leds -> 0..CNT-1], order : BOOLEAN,
                   blinks : [Leds -> {"start", "on", "ended"}], led : {"unknown", "output", "NULL"},
                   wdt : {"none", "bound", "armed"}, fed : 0..WDT_FEED_TRIES]

\* The messages of each LED are printed once each and in order, as they were written.
PrintedInOrder == utl.order

\* An application that fed its watchdog for the last time is reset (Recovers in Firmware.tla).
AwaitsReset == utl.pc = "wait" /\ utl.wdt = "armed"
Restarted == utl.pc = "init"
=============================================================================
