----------------------------- MODULE ArmProfiles ----------------------------
(***************************************************************************)
(* The named ARM profiles and the identification registers they stand for  *)
(* (cdisasm_internal_classify_arm_midr in src/src/cdisasm_cpu_identify.c). *)
(* A core is the pair of the implementer and part fields of its MIDR; the  *)
(* variant, architecture and revision fields name nothing.                 *)
(***************************************************************************)
EXTENDS Naturals

CONSTANT HasNeon   \* arm_process_has_neon: what the process may execute

ASSUME NeonAssumption == HasNeon \in BOOLEAN

Unknown == "UNKNOWN"

Arm == \h41
Fujitsu == \h46
Apple == \h61

\* The cores each case of the two switch statements returns a profile for.
CoresOf ==
  [ARM7TDMI   |-> {Arm} \X {\h770},
   CORTEX_A7  |-> {Arm} \X {\hc07},
   CORTEX_A9  |-> {Arm} \X {\hc09},
   CORTEX_A32 |-> {Arm} \X {\hd01},
   CORTEX_A34 |-> {Arm} \X {\hd02},
   CORTEX_A53 |-> {Arm} \X {\hd03},
   CORTEX_A35 |-> {Arm} \X {\hd04},
   A64FX      |-> {Fujitsu} \X {\h001},
   APPLE_A8   |-> {Apple} \X (\h002..\h003),
   APPLE_A9   |-> {Apple} \X (\h004..\h005),
   APPLE_A10  |-> {Apple} \X (\h006..\h007),
   APPLE_A11  |-> {Apple} \X (\h008..\h009),
   APPLE_A12  |-> {Apple} \X {\h00b, \h00c, \h010, \h011},
   APPLE_A13  |-> {Apple} \X (\h012..\h013),
   APPLE_A14  |-> {Apple} \X (\h020..\h021),
   APPLE_M1   |-> {Apple} \X {\h022, \h023, \h024, \h025, \h028, \h029},
   APPLE_A15  |-> {Apple} \X (\h030..\h031),
   APPLE_M2   |-> {Apple} \X {\h032, \h033, \h034, \h035, \h038, \h039},
   APPLE_A16  |-> {Apple} \X (\h040..\h041),
   APPLE_M3   |-> {Apple} \X {\h042, \h043, \h044, \h045, \h048, \h049},
   APPLE_A17  |-> {Apple} \X (\h050..\h051),
   APPLE_M4   |-> {Apple} \X {\h052, \h053, \h054, \h055, \h058, \h059}]

Profiles == DOMAIN CoresOf \cup {"CORTEX_A7_NEON", "CORTEX_A9_NEON"}

\* arm_neon_profile
NeonProfile(plain) ==
  CASE HasNeon /\ plain = "CORTEX_A7" -> "CORTEX_A7_NEON"
    [] HasNeon /\ plain = "CORTEX_A9" -> "CORTEX_A9_NEON"
    [] OTHER -> plain

\* The profile of a core, Unknown if the catalog does not name it.
Profile(core) ==
  IF \E p \in DOMAIN CoresOf : core \in CoresOf[p]
  THEN NeonProfile(CHOOSE p \in DOMAIN CoresOf : core \in CoresOf[p])
  ELSE Unknown

=============================================================================
