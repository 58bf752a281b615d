---------------------------- MODULE UartSamples ----------------------------
(***************************************************************************)
(* The samples that print over a UART they initialise themselves:          *)
(* test_coded_phy_scan_uart_onoff (the UART is on only while the scanner   *)
(* reports a beacon), driver/uart_0 and uart_1 (echo), temp/uart_0 (power  *)
(* cycle); with test_coded_phy_scan, which prints to the console, and the  *)
(* beacon of both, test_coded_phy_beacon.                                  *)
(***************************************************************************)
EXTENDS Naturals

VARIABLE prt

Images == {"onoff", "uart_0", "uart_1", "cycle", "console", "beacon"}

\* pc: where main() and the scanner's callback, in the receive thread of the stack, are.
\* dev: whether the UART can be bound; on, rx: its power and its receive interrupt;
\* err: its line; fifo: a character came; up: the latest uart_init() succeeded;
\* refused: the latest power-off failed; adv, led: the beacon's.
Init == \E i \in Images, d, e \in BOOLEAN :
  prt = [image |-> i, pc |-> [main |-> "init", scan |-> "idle"], dev |-> d, fault |-> FALSE,
         on |-> TRUE, rx |-> FALSE, err |-> e, fifo |-> FALSE, up |-> FALSE,
         refused |-> FALSE, scanning |-> FALSE, adv |-> FALSE, led |-> FALSE]

Go(t, next) == [prt EXCEPT !.pc[t] = next]

At(images, t, from) == prt.image \in images /\ ~prt.fault /\ prt.pc[t] = from
-----------------------------------------------------------------------------
(* The UART                                                                 *)

\* The line becomes valid, or breaks; a character comes.
line == /\ prt.on /\ ~prt.fault
        /\ \/ prt' = [prt EXCEPT !.err = ~@]
           \/ prt' = [prt EXCEPT !.fifo = TRUE]

\* The result of uart_init() is not looked at: without a device the next character is
\* written through NULL, after the time-out of 500 ms to a UART left as it was.
Unchecked(t, next) ==
  \/ ~prt.dev /\ prt' = [prt EXCEPT !.fault = TRUE]
  \/ prt.dev /\ prt.err /\ prt' = [Go(t, next) EXCEPT !.fifo = FALSE, !.up = FALSE]

\* An invalid line: the characters are dropped, 10 ms later it is looked at again.
Retry == prt.dev /\ prt.err /\ prt' = [prt EXCEPT !.fifo = FALSE]

Started(on, t, next) ==
  prt.dev /\ ~prt.err /\ prt' = [Go(t, next) EXCEPT !.on = on, !.rx = TRUE, !.up = on]

\* The result of the power-on is not looked at either.
at_uart_init(t, next) == \/ Unchecked(t, next) \/ Retry
                         \/ \E on \in {TRUE, prt.on} : Started(on, t, next)

uart_init(t, from, next) == At({"onoff"}, t, from) /\ at_uart_init(t, next)

uart_init_0 == /\ At({"uart_0"}, "main", "init")
               /\ Unchecked("main", "print") \/ Retry \/ Started(prt.on, "main", "print")

uart1_init == /\ At({"uart_1"}, "main", "init")
              /\ Unchecked("main", "print") \/ Retry \/ Started(prt.on, "main", "print")

uart_init_cycle == At({"cycle"}, "main", "init") /\ at_uart_init("main", "print")

\* The interrupt reads the characters and sends them back.
isr == prt.rx /\ prt.fifo /\ ~prt.fault /\ prt' = [prt EXCEPT !.fifo = FALSE]

\* Turns the interrupts off, sleeps 2 ms and then powers off, which may fail.
irq_disable(t, from, next) ==
  At({"onoff"}, t, from) /\ prt' = [Go(t, next) EXCEPT !.rx = FALSE]

power_off(t, from, next) ==
  /\ At({"onoff"}, t, from)
  /\ \E on \in {FALSE, prt.on} :
       prt' = [Go(t, next) EXCEPT !.on = on, !.refused = on, !.fifo = @ /\ on, !.up = @ /\ on]
-----------------------------------------------------------------------------
(* main() of the scanners returns at an error, but not at one of            *)
(* bt_scan_start(); the UART then stays on.                                 *)

LedAndBluetooth(images, from, next) ==
  /\ At(images, "main", from)
  /\ prt' \in {Go("main", next), Go("main", "returned")}

Scan(from, image) ==
  /\ At({image}, "main", from)
  /\ \E s \in BOOLEAN : prt' = [Go("main", "loop") EXCEPT !.scanning = s]

\* Mutant: main() starts the scanner before it turns the UART off.
main_early ==
  \/ uart_init("main", "init", "led")
  \/ LedAndBluetooth({"onoff"}, "led", "deinit")
  \/ At({"onoff"}, "main", "deinit")
     /\ \E s \in BOOLEAN : prt' = [Go("main", "irq") EXCEPT !.scanning = s]
  \/ irq_disable("main", "irq", "off")
  \/ power_off("main", "off", "loop")

main == \/ uart_init("main", "init", "led")
        \/ LedAndBluetooth({"onoff"}, "led", "deinit")
        \/ irq_disable("main", "deinit", "off")
        \/ power_off("main", "off", "scan")
        \/ Scan("scan", "onoff")

main_console == LedAndBluetooth({"console"}, "init", "scan") \/ Scan("scan", "console")

toggle == prt.pc.main = "loop" /\ prt' = [prt EXCEPT !.led = ~@]

\* A beacon was found: the UART is turned on, written to and turned off.
scan_filter_match ==
  \/ At({"onoff"}, "scan", "idle") /\ prt.scanning /\ prt' = Go("scan", "init")
  \/ uart_init("scan", "init", "print")
  \/ At({"onoff"}, "scan", "print") /\ prt' = Go("scan", "deinit")
  \/ irq_disable("scan", "deinit", "off")
  \/ power_off("scan", "off", "idle")
-----------------------------------------------------------------------------
(* driver/uart_0, uart_1: main() prints and returns, the interrupt goes on. *)

main_0 == uart_init_0 \/ (At({"uart_0"}, "main", "print") /\ prt' = Go("main", "returned"))

main_1 == uart1_init \/ (At({"uart_1"}, "main", "print") /\ prt' = Go("main", "returned"))

\* temp/uart_0: after the first message both UARTs are disabled and powered down for 2 s by
\* their registers; the second message is printed 100 ms after they were enabled again.
uart_lp_pwr_off == /\ At({"cycle"}, "main", "print")
                   /\ prt' = [Go("main", "sleep") EXCEPT !.on = FALSE, !.fifo = FALSE, !.up = FALSE]

uart_lp_pwr_on == At({"cycle"}, "main", "sleep") /\ prt' = [Go("main", "again") EXCEPT !.on = TRUE]

main_cycle == \/ uart_init_cycle \/ uart_lp_pwr_off \/ uart_lp_pwr_on
              \/ At({"cycle"}, "main", "again") /\ prt' = Go("main", "returned")
-----------------------------------------------------------------------------
(* test_coded_phy_beacon                                                    *)

\* bt_enable() fails unnoticed, the other errors end main(); the transmit power is
\* changed or an error printed.
set_up == LedAndBluetooth({"beacon"}, "init", "start")

\* The LED is lit, the counter in the data incremented, and the data are advertised.
adv_start ==
  /\ At({"beacon"}, "main", "start")
  /\ prt' \in {[Go("main", "stop") EXCEPT !.adv = TRUE, !.led = TRUE],
               [Go("main", "returned") EXCEPT !.led = TRUE]}

\* An error leaves it advertising with the LED off.
adv_stop ==
  /\ At({"beacon"}, "main", "stop")
  /\ prt' \in {[Go("main", "start") EXCEPT !.adv = FALSE, !.led = FALSE],
               [Go("main", "returned") EXCEPT !.led = FALSE]}

main_beacon == set_up \/ adv_start \/ adv_stop

Next == \/ line \/ isr \/ main \/ main_console \/ toggle \/ scan_filter_match
        \/ main_0 \/ main_1 \/ main_cycle \/ main_beacon
-----------------------------------------------------------------------------
Pcs == {"init", "led", "deinit", "irq", "off", "scan", "loop", "returned", "print", "sleep",
        "again", "start", "stop", "idle"}

TypeOK == prt \in [image : Images, pc : [{"main", "scan"} -> Pcs], dev : BOOLEAN, fault : BOOLEAN,
                   on : BOOLEAN, rx : BOOLEAN, err : BOOLEAN, fifo : BOOLEAN, up : BOOLEAN,
                   refused : BOOLEAN, scanning : BOOLEAN, adv : BOOLEAN, led : BOOLEAN]

\* What the scanner prints leaves the UART it turned on, whatever main() does; between two
\* beacons the UART is off, unless it refused; the beacon is lit while it advertises.
UartAsNeeded ==
  /\ prt.pc.scan = "print" /\ prt.up => prt.on /\ prt.rx
  /\ prt.scanning /\ prt.pc = [main |-> "loop", scan |-> "idle"] /\ prt.image = "onoff" =>
       /\ ~prt.rx
       /\ prt.on => prt.refused
  /\ prt.adv /\ prt.pc.main # "returned" => prt.led
=============================================================================
