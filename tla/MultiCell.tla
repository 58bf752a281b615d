----------------------------- MODULE MultiCell ------------------------------
(***************************************************************************)
(* Location from neighbour cells (multi_cell).  The modem's events fill    *)
(* cell_data and give a semaphore of limit 1; the main thread takes it,    *)
(* prints the data and asks a server for the location, which may take      *)
(* longer than the next measurement.  Measurements are started by the      *)
(* button, by a change of the cell and periodically.                       *)
(***************************************************************************)
EXTENDS Naturals

CONSTANT NumCells   \* bound: cells the device may be in; 0 is none

VARIABLE cell

Cells == 1..NumCells

\* unseen: cell_data holds a measurement that main() has not begun to use.  torn: it was
\* overwritten while main() used it.
Init == cell = [pc |-> "init", lte |-> FALSE, lte_connected |-> FALSE,
                button |-> FALSE, periodic |-> FALSE, changed |-> FALSE,
                prev_cell_id |-> 0, measuring |-> FALSE, cell_data_ready |-> FALSE,
                unseen |-> FALSE, torn |-> FALSE]
-----------------------------------------------------------------------------
(* The main thread.                                                         *)

\* Work items, the certificate, and the button, whose error is only printed.
main_init ==
  /\ cell.pc = "init"
  /\ \/ \E b \in BOOLEAN : cell' = [cell EXCEPT !.pc = "connect", !.button = b]
     \/ cell' = [cell EXCEPT !.pc = "returned"]

\* Only an error of the connection itself is returned.
lte_connect ==
  /\ cell.pc = "connect"
  /\ \/ cell' = [cell EXCEPT !.pc = "wait", !.lte = TRUE]
     \/ cell' = [cell EXCEPT !.pc = "returned"]

main_wait ==
  /\ cell.pc = "wait" /\ cell.lte_connected
  /\ cell' = [cell EXCEPT !.pc = "id", !.lte_connected = FALSE, !.periodic = TRUE]

\* A device without an id asks all the same.
get_device_id == cell.pc = "id" /\ cell' = [cell EXCEPT !.pc = "take"]

main_take ==
  /\ cell.pc = "take" /\ cell.cell_data_ready
  /\ cell' = [cell EXCEPT !.pc = "print", !.cell_data_ready = FALSE, !.unseen = FALSE,
                !.torn = FALSE]

print_cell_data == cell.pc = "print" /\ cell' = [cell EXCEPT !.pc = "get"]

\* Mutant: what was given meanwhile is taken as done.
multicell_location_get_resets ==
  cell.pc = "get" /\ cell' = [cell EXCEPT !.pc = "take", !.cell_data_ready = FALSE]

\* An error is only printed.
multicell_location_get == cell.pc = "get" /\ cell' = [cell EXCEPT !.pc = "take"]

main == \/ main_init \/ lte_connect \/ main_wait \/ get_device_id \/ main_take
        \/ print_cell_data \/ multicell_location_get
-----------------------------------------------------------------------------
(* Measurements.  One that is running refuses the next; only printed.       *)

start_cell_measurements(c) == {c, [c EXCEPT !.measuring = cell.lte]}

button_handler == cell.button /\ cell' \in start_cell_measurements(cell)

cell_change_search_work_fn ==
  cell.changed /\ cell' \in start_cell_measurements([cell EXCEPT !.changed = FALSE])

\* It is scheduled again, whatever became of the measurement.
periodic_search_work_fn ==
  cell.periodic /\ cell' \in start_cell_measurements(cell)

\* LTE_LC_EVT_NW_REG_STATUS
registered == cell.lte /\ cell' = [cell EXCEPT !.lte_connected = TRUE]

\* LTE_LC_EVT_CELL_UPDATE
cell_update ==
  /\ cell.lte
  /\ \E id \in Cells : /\ id # cell.prev_cell_id
                       /\ cell' = [cell EXCEPT !.changed = TRUE, !.prev_cell_id = id]

\* LTE_LC_EVT_NEIGHBOR_CELL_MEAS
neighbor_cell_meas ==
  /\ cell.measuring
  /\ cell' = [cell EXCEPT !.measuring = FALSE, !.cell_data_ready = TRUE, !.unseen = TRUE,
                !.torn = @ \/ cell.pc \in {"print", "get"}]

lte_handler == registered \/ cell_update \/ neighbor_cell_meas

Next == \/ main \/ button_handler \/ cell_change_search_work_fn
        \/ periodic_search_work_fn \/ lte_handler
-----------------------------------------------------------------------------
TypeOK == cell \in [pc : {"init", "connect", "wait", "id", "take", "print", "get", "returned"},
                    lte : BOOLEAN, lte_connected : BOOLEAN, button : BOOLEAN,
                    periodic : BOOLEAN, changed : BOOLEAN, prev_cell_id : {0} \cup Cells,
                    measuring : BOOLEAN, cell_data_ready : BOOLEAN, unseen : BOOLEAN,
                    torn : BOOLEAN]

\* A measurement that main() has not begun to use will wake it, and one that came while it
\* used another will do so again: what is torn is followed by a request with new data.
NoLostMeasurement == cell.unseen \/ (cell.torn /\ cell.pc # "take") => cell.cell_data_ready

\* A measurement is followed by a request for the location (Recovers in Firmware.tla),
\* once the device is registered; main() waits for that only once.
Measured == cell.unseen /\ cell.pc \in {"id", "take", "print", "get"}
Located == cell.pc = "print" /\ ~cell.unseen
=============================================================================
