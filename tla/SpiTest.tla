------------------------------ MODULE SpiTest ------------------------------
(***************************************************************************)
(* The SPI samples (driver/SPI_nRF91_ncs_v1.2.1, SPI_nRF91, SPI and        *)
(* spi_flash).  The first three bind a chip select pin and a controller,   *)
(* without looking at the result, and then transfer for ever; the first    *)
(* keeps the latest transfers in the ring spi_chk.                         *)
(***************************************************************************)
EXTENDS Naturals, Sequences

CONSTANTS CHK,     \* entries of spi_chk (50 in the code)
          READS    \* single reads of a round (20)

VARIABLE spi

Images == {"v121", "nrf91", "loopback", "flash"}

\* recent: ghost, the transfers of spi_rw(), latest first.
Init == \E i \in Images :
  spi = [image |-> i, pc |-> "init", cs |-> FALSE, dev |-> FALSE, fault |-> FALSE,
         chk |-> [k \in 0..CHK-1 |-> "none"], cnt |-> 0, recent |-> << >>, call |-> 1,
         tx |-> 0, rdid |-> << >>, res |-> << >>, sector |-> "old", matches |-> "none"]
-----------------------------------------------------------------------------
(* spi_init(): a binding that fails is printed, and main() goes on.         *)

\* Mutant: the controller is bound although there is no pin to select the chip.
Bind_anyway(next) ==
  \E c, d \in BOOLEAN : spi' = [spi EXCEPT !.pc = next, !.cs = c, !.dev = d]

Bind(next) ==
  \E c, d \in BOOLEAN : spi' = [spi EXCEPT !.pc = next, !.cs = c, !.dev = c /\ d]

spi_init == /\ spi.image = "v121" /\ spi.pc = "init" /\ Bind("dummy")

spi_init_nrf91 == /\ spi.image = "nrf91" /\ spi.pc = "init" /\ Bind("rdid")

spi_init_loopback == /\ spi.image = "loopback" /\ spi.pc = "init" /\ Bind("send")
-----------------------------------------------------------------------------
\* The controller that was not bound is NULL, and the driver uses it.
Transfer(from, next) ==
  /\ spi.pc = from /\ ~spi.fault
  /\ spi' = IF spi.dev THEN next ELSE [spi EXCEPT !.fault = TRUE]

\* What the flash drives in each byte of a transfer that starts with the command.
Clocked(command) ==
  CASE command = "RDID" -> << "float", "id", "id", "id" >>
    [] command = "RES"  -> << "float", "any", "any", "any", "signature" >>

\* Two receive buffers: the bytes of the first one, clocked with the command, are dropped.
Received(command, dropped, kept) == SubSeq(Clocked(command), dropped + 1, dropped + kept)

\* Mutant: the byte that is clocked with the command is kept.
spi_read_rdid_shifted ==
  /\ spi.image = "v121"
  /\ \E id \in {spi.rdid, Received("RDID", 0, 3)} :
       Transfer("rdid", [spi EXCEPT !.pc = "write_2", !.rdid = id])

\* An error of the transfer is printed instead of the identification.
spi_read_rdid ==
  /\ spi.image = "v121"
  /\ \E id \in {spi.rdid, Received("RDID", 1, 3)} :
       Transfer("rdid", [spi EXCEPT !.pc = "write_2", !.rdid = id])

spi_read_res ==
  /\ spi.image = "v121"
  /\ \E es \in {spi.res, Received("RES", 1, 4)} :
       Transfer("res", [spi EXCEPT !.pc = "rems", !.res = es])

\* Sends nothing: what is printed as the answer to 0x90 answers no command.
spi_read_rems == spi.image = "v121" /\ Transfer("rems", [spi EXCEPT !.pc = "dummy"])

\* Receives nothing, and prints a receive buffer that was never written.
spi_dummy_writes == spi.image = "v121" /\ Transfer("dummy", [spi EXCEPT !.pc = "rdid"])
-----------------------------------------------------------------------------
(* spi_rw(): the transfer is noted in the ring before it is made.  After an *)
(* error the status returned is uninitialised; no caller looks at it.       *)

\* The calls of a round of spi_dummy_write_2().
Calls == [k \in 1..READS |-> "read 1"]
         \o << "read 3", "write 7", "read 1", "read 1", "write 1", "write 2" >>

\* Mutant: the counter wraps one entry too late.
Entry_late == IF spi.cnt > CHK THEN 0 ELSE spi.cnt

Entry == IF spi.cnt >= CHK THEN 0 ELSE spi.cnt

spi_rw(transfer) ==
  [spi EXCEPT !.chk = [k \in DOMAIN @ |-> IF k = Entry THEN transfer ELSE @[k]],
              !.cnt = Entry + 1,
              !.recent = SubSeq(<< transfer >> \o @, 1, IF Len(@) = CHK THEN CHK ELSE Len(@) + 1)]

spi_dummy_write_2 ==
  /\ spi.image = "v121"
  /\ LET last == spi.call = Len(Calls)
     IN  Transfer("write_2", [spi_rw(Calls[spi.call]) EXCEPT
           !.call = IF last THEN 1 ELSE @ + 1, !.pc = IF last THEN "res" ELSE @])

main == spi_init \/ spi_dummy_writes \/ spi_read_rdid \/ spi_dummy_write_2
        \/ spi_read_res \/ spi_read_rems
-----------------------------------------------------------------------------
(* SPI_nRF91                                                                *)

\* The set of 2 receive buffers is said to have 7: the driver takes what lies behind it on
\* the stack for buffers, which may be empty, be filled by it, or fault.
spi_read_rdid_nrf91 ==
  /\ spi.image = "nrf91"
  /\ \/ Transfer("rdid", [spi EXCEPT !.pc = "res", !.rdid = Received("RDID", 1, 3)])
     \/ Transfer("rdid", [spi EXCEPT !.pc = "res"])
     \/ Transfer("rdid", [spi EXCEPT !.fault = TRUE])

spi_read_res_nrf91 ==
  /\ spi.image = "nrf91"
  /\ \E es \in {spi.res, Received("RES", 1, 4)} :
       Transfer("res", [spi EXCEPT !.pc = "rems", !.res = es])

spi_read_rems_nrf91 == spi.image = "nrf91" /\ Transfer("rems", [spi EXCEPT !.pc = "rdid"])

main_nrf91 == spi_init_nrf91 \/ spi_read_rdid_nrf91 \/ spi_read_res_nrf91 \/ spi_read_rems_nrf91
-----------------------------------------------------------------------------
(* SPI: one byte, counted up when the transfer succeeds.                    *)

spi_test_send ==
  /\ spi.image = "loopback"
  /\ \E sent \in {0, 1} : Transfer("send", [spi EXCEPT !.tx = (@ + sent) % 256])

main_loopback == spi_init_loopback \/ spi_test_send
-----------------------------------------------------------------------------
(* spi_flash: erases, writes and compares once.                             *)

\* A failed write may leave the sector half written.
Flash(from, next) ==
  /\ spi.image = "flash" /\ spi.pc = from
  /\ next

\* main() returns without a device; it goes on after an erase that failed.
flash_erase ==
  Flash("init", \/ spi' = [spi EXCEPT !.pc = "end"]
                \/ \E s \in {"old", "erased"} : spi' = [spi EXCEPT !.pc = "write", !.dev = TRUE, !.sector = s])

\* Without the erase, programming only clears bits: a mix of both.
flash_write ==
  Flash("write", \/ spi' = [spi EXCEPT !.pc = "end", !.sector = "mixed"]
                 \/ spi' = [spi EXCEPT !.pc = "read",
                              !.sector = IF @ = "erased" THEN "expected" ELSE "mixed"])

flash_read ==
  Flash("read", \/ spi' = [spi EXCEPT !.pc = "end"]
                \/ \E m \in {"match", "mismatch"} :
                     /\ spi.sector = "expected" => m = "match"
                     /\ spi' = [spi EXCEPT !.pc = "end", !.matches = m])

main_flash == flash_erase \/ flash_write \/ flash_read

Next == main \/ main_nrf91 \/ main_loopback \/ main_flash
-----------------------------------------------------------------------------
Transfers == {Calls[k] : k \in DOMAIN Calls}

TypeOK == spi \in [image : Images,
                   pc : {"init", "dummy", "rdid", "write_2", "res", "rems", "send", "write", "read", "end"},
                   cs : BOOLEAN, dev : BOOLEAN, fault : BOOLEAN,
                   chk : [0..CHK-1 -> Transfers \union {"none"}], cnt : 0..CHK,
                   recent : {r \in Seq(Transfers) : Len(r) <= CHK}, call : 1..Len(Calls),
                   tx : 0..255, rdid : Seq({"float", "id"}), res : Seq({"any", "signature"}),
                   sector : {"old", "erased", "mixed", "expected"},
                   matches : {"none", "match", "mismatch"}]

\* The ring holds the latest transfers, the newest one below spi_chk_cnt.
RingIsRecent == \A k \in 1..Len(spi.recent) :
                  spi.chk[(spi.cnt + CHK - k) % CHK] = spi.recent[k]

\* Nothing is transferred over a controller whose chip nobody selects, and what is printed
\* as the identification came from the flash, byte by byte.
AnswersOfChip == /\ spi.image # "flash" /\ spi.dev => spi.cs
                 /\ spi.rdid \in {<< >>, << "id", "id", "id" >>}
=============================================================================
