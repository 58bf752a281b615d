------------------------------ MODULE Firmware ------------------------------
(***************************************************************************)
(* The smaller programs of the repository.  Each module describes the state*)
(* of one device (of two boards or two cores in FlashThroughput and        *)
(* CoreRpc) by one record.  Programs are never in one image: a behaviour   *)
(* chooses an image, starts it and runs nothing else.                      *)
(***************************************************************************)
EXTENDS Naturals

CONSTANTS MaxResets, MaxReboots, MaxBoots,       \* bounds on restarts
          MaxBacklog, MaxLosses, NumCells,       \* bounds on the surroundings
          MaxRefs,                               \* bound on references to a connection
          Heap, Packets, Last, TxBufs, SmpBufs,  \* buffers, and lengths of bursts
          NumSlots, NumConns, MaxHr,             \* connections of the battery relay
          Levels,                                \* of the power of a radio
          CHK, READS,                            \* ring of transfers, reads of a round
          NumBufs, NumBlocks, CNT,               \* buffers, messages and their counters
          THRESHOLD_CNT, NUM_SPEED_CACULATIONS,  \* packets of a rate, rates of a burst
          Voltages                               \* of a battery

ASSUME FirmwareAssumption ==
  /\ {MaxResets, MaxReboots, MaxBacklog, MaxLosses, NumCells,
      Packets, TxBufs, SmpBufs, NumConns, NumSlots, MaxHr, READS, NumBufs, NumBlocks}
       \subseteq Nat
  /\ {MaxBoots, MaxRefs, Heap, Last, Levels, CHK, CNT, THRESHOLD_CNT} \subseteq Nat \ {0}
  /\ NUM_SPEED_CACULATIONS \in Nat \ {0, 1}   \* the first rate of a burst is not the only one
  /\ Voltages \subseteq Nat
  /\ NumConns < NumSlots     \* there is a slot for every connection, and one more

VARIABLES image,   \* the program in flash
          state    \* its record

vars == << image, state >>

Fota == INSTANCE UdpFota WITH fota <- state
Udp  == INSTANCE UdpLowPower WITH udp <- state
Mqtt == INSTANCE MqttClient WITH mqtt <- state
Nusc == INSTANCE NusCentral WITH nusc <- state
Nusp == INSTANCE NusPeripheral WITH nusp <- state
Gble == INSTANCE GatewayBle WITH gble <- state
Dmn  == INSTANCE DmNode WITH dmn <- state
Thr  == INSTANCE FlashThroughput WITH thr <- state
Rpc  == INSTANCE CoreRpc WITH rpc <- state
Dev  == INSTANCE AppThreads WITH dev <- state
Bas  == INSTANCE BasRelay WITH bas <- state
Cts  == INSTANCE CtsClient WITH cts <- state
Pwr  == INSTANCE PowerControl WITH pwr <- state
Per  == INSTANCE Peripherals WITH per <- state
Cell == INSTANCE MultiCell WITH cell <- state
Agps == INSTANCE AgpsClient WITH agps <- state
Spi  == INSTANCE SpiTest WITH spi <- state
Prt  == INSTANCE UartSamples WITH prt <- state
Uar  == INSTANCE PlainUart WITH uar <- state
Bat  == INSTANCE BatteryMonitor WITH bat <- state
Utl  == INSTANCE UtilTests WITH utl <- state

Init == \/ image = "fota" /\ Fota!Init
        \/ image = "udp"  /\ Udp!Init
        \/ image = "mqtt" /\ Mqtt!Init
        \/ image = "nusc" /\ Nusc!Init
        \/ image = "nusp" /\ Nusp!Init
        \/ image = "gble" /\ Gble!Init
        \/ image = "dmn"  /\ Dmn!Init
        \/ image = "thr"  /\ Thr!Init
        \/ image = "rpc"  /\ Rpc!Init
        \/ image = "dev"  /\ Dev!Init
        \/ image = "bas"  /\ Bas!Init
        \/ image = "cts"  /\ Cts!Init
        \/ image = "pwr"  /\ Pwr!Init
        \/ image = "per"  /\ Per!Init
        \/ image = "cell" /\ Cell!Init
        \/ image = "agps" /\ Agps!Init
        \/ image = "spi"  /\ Spi!Init
        \/ image = "prt"  /\ Prt!Init
        \/ image = "uar"  /\ Uar!Init
        \/ image = "bat"  /\ Bat!Init
        \/ image = "utl"  /\ Utl!Init

Next == /\ \/ image = "fota" /\ Fota!Next
           \/ image = "udp"  /\ Udp!Next
           \/ image = "mqtt" /\ Mqtt!Next
           \/ image = "nusc" /\ Nusc!Next
           \/ image = "nusp" /\ Nusp!Next
           \/ image = "gble" /\ Gble!Next
           \/ image = "dmn"  /\ Dmn!Next
           \/ image = "thr"  /\ Thr!Next
           \/ image = "rpc"  /\ Rpc!Next
           \/ image = "dev"  /\ Dev!Next
           \/ image = "bas"  /\ Bas!Next
           \/ image = "cts"  /\ Cts!Next
           \/ image = "pwr"  /\ Pwr!Next
           \/ image = "per"  /\ Per!Next
           \/ image = "cell" /\ Cell!Next
           \/ image = "agps" /\ Agps!Next
           \/ image = "spi"  /\ Spi!Next
           \/ image = "prt"  /\ Prt!Next
           \/ image = "uar"  /\ Uar!Next
           \/ image = "bat"  /\ Bat!Next
           \/ image = "utl"  /\ Utl!Next
        /\ UNCHANGED image

\* Threads run, started work ends and a watchdog that is not fed expires; nothing is
\* assumed of buttons, peers and faults.
Fairness ==
  /\ WF_vars(image = "fota" /\ Fota!main /\ UNCHANGED image)
  /\ WF_vars(image = "fota" /\ Fota!WorkQueue /\ UNCHANGED image)
  /\ WF_vars(image = "fota" /\ Fota!fota_dl_handler /\ UNCHANGED image)
  /\ WF_vars(image = "udp" /\ Udp!Thread /\ UNCHANGED image)
  /\ WF_vars(image = "udp" /\ Udp!lte_handler /\ UNCHANGED image)
  /\ WF_vars(image = "mqtt" /\ Mqtt!main /\ UNCHANGED image)
  /\ WF_vars(image = "mqtt" /\ Mqtt!closed_socket /\ UNCHANGED image)
  /\ WF_vars(image = "gble" /\ Gble!leds_update /\ UNCHANGED image)
  /\ WF_vars(image = "rpc" /\ ~state.fault /\ Rpc!RxCommand /\ UNCHANGED image)
  /\ WF_vars(image = "rpc" /\ ~state.fault /\ Rpc!uart_tx_done /\ UNCHANGED image)
  /\ WF_vars(image = "cell" /\ Cell!main /\ UNCHANGED image)
  /\ WF_vars(image = "agps" /\ Agps!WorkQueue /\ UNCHANGED image)
  /\ WF_vars(image = "utl" /\ Utl!wdt_expires /\ UNCHANGED image)
  \* An attempt to connect that is repeated for ever succeeds once.
  /\ SF_vars(image = "mqtt" /\ Mqtt!connect /\ state'.conn = "connecting" /\ UNCHANGED image)
  /\ SF_vars(image = "mqtt" /\ Mqtt!modem_configure /\ state'.pc = "init" /\ UNCHANGED image)

Spec == Init /\ [][Next]_vars /\ Fairness
-----------------------------------------------------------------------------
TypeOK == /\ image = "fota" => Fota!TypeOK
          /\ image = "udp"  => Udp!TypeOK
          /\ image = "mqtt" => Mqtt!TypeOK
          /\ image = "nusc" => Nusc!TypeOK
          /\ image = "nusp" => Nusp!TypeOK
          /\ image = "gble" => Gble!TypeOK
          /\ image = "dmn"  => Dmn!TypeOK
          /\ image = "thr"  => Thr!TypeOK
          /\ image = "rpc"  => Rpc!TypeOK
          /\ image = "dev"  => Dev!TypeOK
          /\ image = "bas"  => Bas!TypeOK
          /\ image = "cts"  => Cts!TypeOK
          /\ image = "pwr"  => Pwr!TypeOK
          /\ image = "per"  => Per!TypeOK
          /\ image = "cell" => Cell!TypeOK
          /\ image = "agps" => Agps!TypeOK
          /\ image = "spi"  => Spi!TypeOK
          /\ image = "prt"  => Prt!TypeOK
          /\ image = "uar"  => Uar!TypeOK
          /\ image = "bat"  => Bat!TypeOK
          /\ image = "utl"  => Utl!TypeOK

\* No device is left alone: whatever connections, failures and losses came, in whatever
\* order, it is linked, searches or advertises, unless a call of the library that does
\* so was refused and nobody tried again (scan_connecting_error(), adv_start()); and it
\* advertises as its link demands (adv_work_handle(), disconnected() of the coded one).
LinkKept == /\ image = "nusc" => Nusc!LinkKept
            /\ image = "nusp" => Nusp!LinkKept
            /\ image = "gble" => Gble!LinkKept
            /\ image = "dmn"  => Dmn!AdvertisesAsLinked
            /\ image = "thr"  => Thr!LinkKept
            /\ image = "bas"  => Bas!LinkKept
            /\ image = "per"  => Per!LinkKept

\* What is handed from one thread, interrupt or core to another stays accounted for:
\* receive buffers (uart_cb), references to connections (button_changed and
\* disconnected), the one download at a time (dfu_button_pressed), blocks without an
\* acknowledgement (endpoint_cb), transmit buffers that wait (my_uart_send), slots of
\* connections (scan_connecting and connected), measurements (lte_handler and main),
\* the ring of transfers (spi_rw), messages between threads (blink and uart_out).
Accounted == /\ image = "nusc" => Nusc!ReceiverRetries
             /\ image = "nusp" => Nusp!RefsKnown
             /\ image = "fota" => Fota!OneDownload
             /\ image = "thr"  => Thr!WindowOfTwo
             /\ image = "rpc"  => Rpc!StrandedBounded
             /\ image = "bas"  => Bas!OneSlotEach
             /\ image = "cell" => Cell!NoLostMeasurement
             /\ image = "spi"  => Spi!RingIsRecent
             /\ image = "uar"  => Uar!BuffersOwned
             /\ image = "utl"  => Utl!PrintedInOrder

\* What one part of a device believes or has stored of another is true: the connection
\* the network core reported, the image confirmed after it was online, the modem put to
\* sleep by the work item, the counters of starts and their key in flash, the service
\* that was discovered and the encryption (discover_completed_cb, security_changed), the
\* handle whose power is set, the button a central has read, the reboot that a button
\* asks for, the UART that is on (scan_filter_match), the rate of a burst
\* (recv_data_process), the level of a battery (battery_level_pptt).
Agrees == /\ image = "rpc"  => Rpc!AppKnowsLink
          /\ image = "fota" => Fota!ConfirmedOnline
          /\ image = "udp"  => Udp!SleepsBetween
          /\ image = "dev"  => Dev!KeyBeforeCount /\ Dev!CountersTrue
          /\ image = "cts"  => Cts!SubscribedWhenReady
          /\ image = "pwr"  => Pwr!ConnKnown /\ Pwr!LevelChosen
          /\ image = "per"  => Per!ButtonSeen
          /\ image = "agps" => Agps!RebootHeld
          /\ image = "spi"  => Spi!AnswersOfChip
          /\ image = "prt"  => Prt!UartAsNeeded
          /\ image = "uar"  => Uar!RateOfBurst
          /\ image = "bat"  => Bat!LevelOnCurve

\* The device goes on after a failure: periodic uploads, the client that connects again
\* and acknowledges, the button of a download that failed, the LED after a disconnection,
\* the calls between two cores, the measurement that is sent, the reboot that was asked
\* for, the watchdog that is no longer fed.
Recovers ==
  /\ (\/ image = "fota" /\ Fota!ButtonPressed
      \/ image = "udp"  /\ Udp!Uploading
      \/ image = "mqtt" /\ Mqtt!Offline
      \/ image = "gble" /\ Gble!LitAlone
      \/ image = "rpc"  /\ Rpc!CallPending
      \/ image = "cell" /\ Cell!Measured
      \/ image = "agps" /\ Agps!RebootAsked
      \/ image = "utl"  /\ Utl!AwaitsReset)
     ~>
     (\/ image = "fota" /\ Fota!ButtonBack
      \/ image = "udp"  /\ Udp!UploadOver
      \/ image = "mqtt" /\ Mqtt!Reconnecting
      \/ image = "gble" /\ Gble!LitTruly
      \/ image = "rpc"  /\ Rpc!CallReturned
      \/ image = "cell" /\ Cell!Located
      \/ image = "agps" /\ Agps!Rebooted
      \/ image = "utl"  /\ Utl!Restarted)
  /\ (image = "mqtt" /\ Mqtt!MessageWaits) ~> (image = "mqtt" /\ Mqtt!MessageHandled)
=============================================================================
