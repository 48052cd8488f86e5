---------------------------- MODULE ArmHexNumber ----------------------------
(***************************************************************************)
(* The number parser of /proc/cpuinfo values (arm_cpuinfo_parse_hex in     *)
(* src/src/cdisasm_cpu_identify.c), one digit per step.  The text is a     *)
(* sequence of digits of any length, leading zeros included; where it      *)
(* stops, and what may follow, is lexical and left out.                    *)
(***************************************************************************)
EXTENDS Naturals

CONSTANTS
  MaxWord,   \* UINT32_MAX
  MaxText    \* bound on what the text may stand for, for model checking

ASSUME WordAssumption ==
  /\ MaxWord \in Nat
  /\ MaxWord >= 15
  /\ MaxText \in Nat

Digits == 0..15

VARIABLES
  number,       \* result: what has been accumulated
  foundDigit,   \* found_digit
  refused,      \* the overflow check has returned 0
  meant         \* history: what the text read so far stands for

numberVars == <<number, foundDigit, refused, meant>>

NumberTypeOK ==
  /\ number \in 0..MaxWord
  /\ foundDigit \in BOOLEAN
  /\ refused \in BOOLEAN
  /\ meant \in Nat

NumberInit ==
  /\ number = 0
  /\ foundDigit = FALSE
  /\ refused = FALSE
  /\ meant = 0

\* Mutant: the check looks at the sum after it has wrapped around.
Overflows_TooLate(d) == (number * 16 + d) % (MaxWord + 1) < number

\* The check multiplies nothing, so that it cannot overflow itself.
Overflows(d) == number > (MaxWord - d) \div 16

Read(d) ==
  /\ ~refused
  /\ meant < MaxText
  /\ meant' = 16 * meant + d
  /\ IF Overflows(d)
     THEN refused' = TRUE /\ UNCHANGED <<number, foundDigit>>
     ELSE /\ number' = (number * 16 + d) % (MaxWord + 1)
          /\ foundDigit' = TRUE
          /\ UNCHANGED refused

NumberNext == \E d \in Digits : Read(d)

NumberSpec == NumberInit /\ [][NumberNext]_numberVars

\* The parser refuses exactly the texts that do not fit the word, and what it
\* accepts it reads without wrapping around.
ReadsExactly ==
  /\ refused => meant > MaxWord
  /\ ~refused => number = meant

=============================================================================
