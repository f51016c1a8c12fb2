------------------------------ MODULE SpiClock ------------------------------
(***************************************************************************)
(* The SPI bit clock of CM7/Core/Src/SPI.c: PLL2 multiplier DIVN2, divider *)
(* of the SPI peripheral and the bitrate kept in the RTC backup registers, *)
(* which outlive a restart.  Frequencies are in KHz.                       *)
(***************************************************************************)
EXTENDS Integers

CONSTANT Freqs      \* the arguments of the spiclk command, 0 excepted

ASSUME FreqsAssumption == Freqs \subseteq Int \ {0}

VARIABLES
  divN2,        \* PLL2DIVR, field N2, plus one
  sSPIdivider,
  prescaler,    \* hspi2.Init.BaudRatePrescaler, as the number it divides by
  bitrate,      \* GSysCfg.SPIbitrate and its backup register
  started       \* StartUARTTask has set the bitrate

clockVars == <<divN2, sSPIdivider, prescaler, bitrate, started>>

Xtal == 25000       \* KHz
PLL_DIVM2 == 12
P2 == 4             \* PLL2DIVR, field P2, plus one
R2 == 2             \* the output of PLL2 that clocks the QSPI flash
Top == 29948        \* the highest frequency with divider 8

Clamp(khz) ==
  CASE khz < 74      -> 75
    [] khz > 4 * Top -> 4 * Top
    [] OTHER         -> khz

Divider_xOverlap(khz) ==
  IF khz <= Top \div 16     THEN 128
  ELSE IF khz <= Top \div 8 THEN 64
  ELSE IF khz <= Top \div 4 THEN 32
  ELSE IF khz <= Top        THEN 16
  ELSE IF khz <= 2 * Top    THEN 4
  ELSE 2

(* 256 is chosen first for a low frequency, then overwritten with 128.     *)
Divider(khz) ==
  IF khz <= Top \div 16     THEN 128
  ELSE IF khz <= Top \div 8 THEN 64
  ELSE IF khz <= Top \div 4 THEN 32
  ELSE IF khz <= Top \div 2 THEN 16
  ELSE IF khz <= Top        THEN 8
  ELSE IF khz <= 2 * Top    THEN 4
  ELSE 2

DivN2(khz, d) == (khz * d * P2 * PLL_DIVM2) \div Xtal + 1

(* SPI_PLLConfig: what the 9 bit field of PLL2DIVR keeps of n - 1.         *)
SPI_PLLConfig(n) == divN2' = ((n - 1) % 512) + 1

(* MX_SPI2_Init: a divider without a case of its own ends in the default.  *)
Prescaler(d) == IF d \in {4, 8, 16, 32, 64, 128} THEN d ELSE 2

SPI_GetClock(n, d) ==
  (((((Xtal * 1000) \div PLL_DIVM2) * n) \div P2) \div d + 500) \div 1000

(* Power-on: SystemClock_Config, the initialised sSPIdivider, SPI_Init.    *)
ClockInit ==
  /\ divN2 = 96
  /\ sSPIdivider = 128
  /\ prescaler = Prescaler(128)
  /\ bitrate = 10000
  /\ started = FALSE

SPI_SetConfig_xNoInit(khz) ==
  LET f == Clamp(khz)
  IN /\ SPI_PLLConfig(DivN2(f, Divider(f)))
     /\ sSPIdivider' = Divider(f)
     /\ bitrate' = khz
     /\ UNCHANGED prescaler

SPI_SetConfig_xSaveOld(khz) ==
  LET f == Clamp(khz)
  IN /\ SPI_PLLConfig(DivN2(f, Divider(f)))
     /\ sSPIdivider' = Divider(f)
     /\ prescaler' = Prescaler(Divider(f))
     /\ bitrate' = SPI_GetClock(divN2, sSPIdivider)

(* The divider is written, and the peripheral set up again, only when it   *)
(* changes; the saved bitrate is the argument before it was clamped.       *)
SPI_SetConfig(khz) ==
  LET f == Clamp(khz)
  IN /\ SPI_PLLConfig(DivN2(f, Divider(f)))
     /\ IF Divider(f) # sSPIdivider
        THEN sSPIdivider' = Divider(f) /\ prescaler' = Prescaler(Divider(f))
        ELSE UNCHANGED <<sSPIdivider, prescaler>>
     /\ bitrate' = khz

(* StartUARTTask sets the bitrate it finds in the backup registers.        *)
StartUARTTask ==
  /\ ~started
  /\ SPI_SetConfig(bitrate)
  /\ started' = TRUE

CMD_spiclk(khz) ==
  /\ started
  /\ SPI_SetConfig(khz)
  /\ UNCHANGED started

(* A reset keeps the backup registers, and nothing else.                   *)
Restart ==
  /\ started
  /\ divN2' = 96
  /\ sSPIdivider' = 128
  /\ prescaler' = Prescaler(128)
  /\ started' = FALSE
  /\ UNCHANGED bitrate
-----------------------------------------------------------------------------
(* The peripheral divides by its own setting, which SPI_SetConfig leaves   *)
(* alone when the divider stays the same.                                  *)
Clock == SPI_GetClock(divN2, prescaler)

(* What one step of DIVN2 changes, rounded up.                             *)
StepKHz(d) == Xtal \div (PLL_DIVM2 * P2 * d) + 1

(* DIVN2 "can be: 4..512" (SPI.c:502), and the divider is one that         *)
(* MX_SPI2_Init knows.                                                     *)
ClockTypeOK ==
  /\ divN2 \in 4 .. 512
  /\ sSPIdivider \in {2, 4, 8, 16, 32, 64, 128}
  /\ prescaler \in {2, 4, 8, 16, 32, 64, 128}
  /\ bitrate \in Freqs \cup {10000}
  /\ started \in BOOLEAN

(* The clock in effect is the requested one, or the next step above it:    *)
(* the re-initialisation that SPI_SetConfig skips is never missed, across  *)
(* restarts too (SPI.c:543-547).                                           *)
ClockMeetsRequest ==
  started => /\ Clock >= Clamp(bitrate)
             /\ Clock <= Clamp(bitrate) + StepKHz(sSPIdivider)

(* Asking for more never gives a slower clock, although DIVN2 and divider  *)
(* jump in opposite directions where the ranges of the table meet.         *)
FasterIsFaster ==
  [][started /\ started' =>
       (Clamp(bitrate') >= Clamp(bitrate) => Clock' >= Clock)]_clockVars

(* The clock in effect is the one StartUARTTask would set from the backup  *)
(* register, so a restart brings back the clock that was in use.           *)
RestartRestores ==
  started => LET f == Clamp(bitrate)
             IN Clock = SPI_GetClock(DivN2(f, Divider(f)), Divider(f))
=============================================================================
