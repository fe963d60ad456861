-------------------------------- MODULE Devices --------------------------------
(***************************************************************************)
(* The parts of the crate that share no state, side by side: a behaviour   *)
(* is about one of them, chosen in the initial state, and the others stay  *)
(* as one of their initial states has them.                                *)
(***************************************************************************)
EXTENDS Switch, Heap, Timers, Delay, Spi, SpiFlash, Lcd, Clock, SoftSpi, Cache,
        PageTable, Touch, Uart, Rates, Registers

VARIABLE device   \* the part this behaviour is about

deviceVars == <<device, switchVars, heapVars, timerVars, delayVars, spiVars, flashVars, lcdVars,
                clockVars, softVars, cacheVars, pageVars, touchVars, uartVars, rateVars, regVars>>

DeviceNames ==
  {"switch", "heap", "timers", "delay", "spi", "flash", "lcd", "clock", "soft spi", "cache",
   "page table", "touch", "uart", "rates", "registers"}

\* A part that is not looked at has one initial state.
DevicesInit ==
  /\ device \in DeviceNames
  /\ RegInit /\ (device # "registers" => area = "gates")
  /\ SwitchInit /\ (device # "switch" => manner = CHOOSE m \in Manners : TRUE)
  /\ HeapInit
  /\ TimersInit /\ (device # "timers" => ~rearms)
  /\ DelayInit
  /\ SpiInit
  /\ FlashInit
  /\ LcdInit /\ (device # "lcd" => readback)
  /\ ClockInit /\ (device # "clock" => cpuSrc = "OSC24M" /\ ratio = CHOOSE r \in Ratios : TRUE)
  /\ SoftSpiInit /\ (device # "soft spi" => wiring = [cpol |-> 0, cpha |-> 0, three |-> FALSE])
  /\ CacheInit /\ (device # "cache" => held = {})
  /\ PageTableInit /\ (device # "page table" => descs = <<>>)
  /\ TouchInit /\ (device # "touch" => flags = [y_reverse |-> FALSE, x_reverse |-> FALSE, xy_exchange |-> FALSE])
  /\ UartInit /\ (device # "uart" => solo)
  /\ RatesInit

\* The parts other than this one stay.
Only(name) ==
  /\ UNCHANGED device
  /\ (name # "switch" => UNCHANGED switchVars)
  /\ (name # "heap" => UNCHANGED heapVars)
  /\ (name # "timers" => UNCHANGED timerVars)
  /\ (name # "delay" => UNCHANGED delayVars)
  /\ (name # "spi" => UNCHANGED spiVars)
  /\ (name # "flash" => UNCHANGED flashVars)
  /\ (name # "lcd" => UNCHANGED lcdVars)
  /\ (name # "clock" => UNCHANGED clockVars)
  /\ (name # "soft spi" => UNCHANGED softVars)
  /\ (name # "cache" => UNCHANGED cacheVars)
  /\ (name # "page table" => UNCHANGED pageVars)
  /\ (name # "touch" => UNCHANGED touchVars)
  /\ (name # "uart" => UNCHANGED uartVars)
  /\ (name # "rates" => UNCHANGED rateVars)
  /\ (name # "registers" => UNCHANGED regVars)

DevicesNext ==
  \/ device = "switch" /\ SwitchStep /\ Only("switch")
  \/ device = "heap" /\ HeapStep /\ Only("heap")
  \/ device = "timers" /\ TimersStep /\ Only("timers")
  \/ device = "delay" /\ DelayStep /\ Only("delay")
  \/ device = "spi" /\ SpiStep /\ Only("spi")
  \/ device = "flash" /\ FlashStep /\ Only("flash")
  \/ device = "lcd" /\ LcdStep /\ Only("lcd")
  \/ device = "clock" /\ ClockStep /\ Only("clock")
  \/ device = "soft spi" /\ SoftSpiStep /\ Only("soft spi")
  \/ device = "cache" /\ CacheStep /\ Only("cache")
  \/ device = "page table" /\ SetNextMapping /\ Only("page table")
  \/ device = "touch" /\ TouchStep /\ Only("touch")
  \/ device = "uart" /\ UartStep /\ Only("uart")
  \/ device = "rates" /\ RatesStep /\ Only("rates")
  \/ device = "registers" /\ RegStep /\ Only("registers")

DevicesSpec == DevicesInit /\ [][DevicesNext]_deviceVars

-----------------------------------------------------------------------------
DevicesTypeOK ==
  /\ device \in DeviceNames
  /\ CASE device = "switch" -> SwitchTypeOK [] device = "heap" -> HeapTypeOK
       [] device = "timers" -> TimersTypeOK [] device = "spi" -> SpiTypeOK
       [] device = "flash" -> FlashTypeOK   [] device = "lcd" -> LcdTypeOK
       [] device = "clock" -> ClockTypeOK   [] device = "soft spi" -> SoftSpiTypeOK
       [] device = "cache" -> CacheTypeOK   [] device = "touch" -> TouchTypeOK
       [] device = "uart" -> UartTypeOK     [] device = "registers" -> RegTypeOK
       [] OTHER -> TRUE

\* What is handed out by the heap is its caller's, and addresses map where the
\* last descriptor says.
MemoryKept ==
  (device = "heap" => HeapKept) /\ (device = "page table" => MapsLikeLast)

\* The clock tree stays in its limits and ends at the rates asked for; a timer channel
\* gives one shot for a one-shot, loses no interrupt while a callback is installed and
\* does not run while it is set up; the SPI divider and, in the range where prescaler
\* 120 can count it, the PWM period are what was asked for.  How often a periodic
\* channel interrupts is not part of it.
TimingKept ==
  /\ device = "clock" => ClocksKept
  /\ device = "timers" => TimersKept
  /\ device = "rates" => RatesKept

\* Every bus carries the bytes of its calls, no more and no less, and is at rest
\* between them; the flash chip is never sent what it would ignore.  Three things are
\* exempt: the SPI calls that come after one that timed out and left bytes in the FIFO
\* (late), UART users that are not let in one at a time (solo), and soft SPI with three
\* wires in modes 1 and 3.
BusesKept ==
  CASE device = "spi" -> SpiKept     [] device = "soft spi" -> SoftSpiKept
    [] device = "flash" -> FlashKept [] device = "uart" -> LineKept
    [] OTHER -> TRUE

\* The panel is driven only from a buffer, but for one step of an initialisation of a
\* display that is on; touches are neither missed nor invented, and none is mapped
\* further out than one past the panel.
PanelKept ==
  (device = "lcd" => ShowsABuffer) /\ (device = "touch" => TouchKept)

\* What single steps may not do: a flash call that says Ok without having done its
\* span, a wait for blanking that ends on a stale one, an interrupt left unarmed, a
\* delay cut short, the CPU's PLL changed under it or not locked, a cached write lost,
\* a cache range only partly done.
StepsKept ==
  /\ SpanIsDone /\ EdgeIsFresh /\ StaysArmed /\ DelayAtLeast
  /\ CpuPllStill /\ CpuOnLockedPll /\ LossesAsked /\ RangeIsDone
=============================================================================
