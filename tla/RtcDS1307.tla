------------------------------ MODULE RtcDS1307 ------------------------------
(***************************************************************************)
(* RtcDS1307.cpp: a clock whose halt bit is in the register of the         *)
(* seconds, and memory behind the registers of the clock.                  *)
(* The sizes are CONSTANTS so that TLC can take a small chip; the library  *)
(* has RAMSTART 8, RAMEND 63 and addresses of 8 bits, Bytes 256.           *)
(***************************************************************************)
EXTENDS Integers, Sequences, SequencesExt

CONSTANTS
  REG_RAMSTART, REG_RAMEND, Bytes,
  Values,       (* what a register may hold                                  *)
  MaxCount      (* the longest run of bytes that is written or read          *)

ASSUME DS1307Assumption ==
  /\ REG_RAMSTART \in Nat \ {0} /\ REG_RAMEND \in Nat /\ Bytes \in Nat /\ MaxCount \in Nat
  /\ REG_RAMSTART < REG_RAMEND /\ REG_RAMEND < Bytes /\ 0 \in Values

VARIABLES
  ch,           (* CH: the clock is halted                                   *)
  reg,          (* the registers, those of the time first                    *)
  timeRegs,     (* history: what SetDateTime() or the chip wrote last        *)
  stored,       (* history: the memory as the calls should have left it      *)
  wrapped       (* history: an address beyond the end of a byte was used     *)

ds1307 == <<ch, reg, timeRegs, stored, wrapped>>

Registers == 0..REG_RAMEND
Clock     == 0..(REG_RAMSTART - 1)
Memory    == 0..(REG_RAMEND - REG_RAMSTART)

DS1307TypeOK ==
  /\ ch \in BOOLEAN /\ reg \in [Registers -> Values] /\ wrapped \in BOOLEAN
  /\ timeRegs \in [Clock -> Values] /\ stored \in [Memory -> Values]

DS1307Init ==
  /\ ch = TRUE /\ reg = [r \in Registers |-> 0]
  /\ timeRegs = [r \in Clock |-> 0] /\ stored = [a \in Memory |-> 0] /\ wrapped = FALSE

\* The address on the chip, an uint8_t.
Address(memoryAddress) == (memoryAddress + REG_RAMSTART) % Bytes

Wraps(memoryAddress) == memoryAddress + REG_RAMSTART >= Bytes

----------------------------------------------------------------------------
SetIsRunning ==
  /\ ch' \in BOOLEAN
  /\ UNCHANGED <<reg, timeRegs, stored, wrapped>>

\* The running state is retained; the time goes to the registers before the
\* control register.
SetDateTime1307 ==
  \E time \in [Clock -> Values] :
    /\ reg' = [r \in Registers |-> IF r \in Clock THEN time[r] ELSE reg[r]]
    /\ timeRegs' = time
    /\ UNCHANGED <<ch, stored, wrapped>>

\* Seeded fault: the run may be one byte longer than the memory.
Written_OneMore(address, values) == Min({Len(values), REG_RAMEND + 2 - address})

\* How much of a run fits.
Written(address, values) == Min({Len(values), REG_RAMEND + 1 - address})

\* SetMemory() of one byte or of several.  The chip's pointer goes on from its last
\* register with the first.
SetMemory ==
  \E memoryAddress \in 0..(Bytes - 1), values \in SeqOf(Values, MaxCount) :
    LET address == Address(memoryAddress)
        n == IF address <= REG_RAMEND THEN Written(address, values) ELSE 0
    IN  /\ reg' = [r \in Registers |->
                     LET i == (r - address) % (REG_RAMEND + 1)
                     IN  IF i < n THEN values[i + 1] ELSE reg[r]]
        /\ stored' = [a \in Memory |->
                        IF a \in memoryAddress..(memoryAddress + Len(values) - 1)
                        THEN values[a - memoryAddress + 1] ELSE stored[a]]
        /\ wrapped' = (wrapped \/ Wraps(memoryAddress))
        /\ UNCHANGED <<ch, timeRegs>>

Register(address) == reg[address % (REG_RAMEND + 1)]

\* GetMemory() of one byte, or of several: at most one less than there are.
GetMemory(memoryAddress, countBytes) ==
  LET address == Address(memoryAddress)
      n == IF address <= REG_RAMEND THEN Min({countBytes, REG_RAMEND - REG_RAMSTART}) ELSE 0
  IN  [i \in 1..n |-> Register(address + i - 1)]

DS1307Next == SetIsRunning \/ SetDateTime1307 \/ SetMemory

----------------------------------------------------------------------------
\* As long as no address has passed the end of a byte, what is stored never reaches
\* the clock, and is read again where it was stored.
MemoryAndClockApart ==
  ~wrapped =>
    /\ \A r \in Clock : reg[r] = timeRegs[r]
    /\ \A a \in Memory, n \in 0..MaxCount :
         \A i \in 1..Len(GetMemory(a, n)) :
           a + i - 1 \in Memory => GetMemory(a, n)[i] = stored[a + i - 1]
=============================================================================
