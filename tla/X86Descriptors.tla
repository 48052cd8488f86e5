--------------------------- MODULE X86Descriptors ---------------------------
(***************************************************************************)
(* Some buckets of the recognition table of the generated x86 decoder      *)
(* (src/src/x86/generated/cdisasm_x86_isa_decode.inc), each with all its   *)
(* rows: two with and without a ModRM byte, the forms for which the        *)
(* decoder is asked again after INVALID and the rows those share an opcode *)
(* with, and one with sized immediates.                                    *)
(* The table has 1547 buckets; one that is not here is taken for absent.   *)
(***************************************************************************)
EXTENDS Integers, Sequences

Registers == {3}      \* mod_mask 8
Memory == 0..2        \* mod_mask 7
Any8 == 0..7

\* A row of the table.  "fields" has the predicates, as the values they allow.
Row(name, bit, order, specificity, fields) ==
  [name |-> name, bit |-> bit, order |-> order, specificity |-> specificity,
   fields |-> fields, modes |-> {16, 32, 64}, modrm |-> FALSE, evapx |-> FALSE,
   fp16 |-> FALSE, mods |-> 0..3, regs |-> Any8, rms |-> Any8,
   immediate |-> "NONE", masking |-> FALSE, noRsp |-> FALSE]

WithModrm(row, mods) == [row EXCEPT !.modrm = TRUE, !.mods = mods]

\* MOV with a moffs operand; JMPABS is its REX2 spelling.
A1Rows ==
  {[Row("JMPABS", "APX", 10773, 8,
        [REP |-> {0}, OSZ |-> {0}, ASZ |-> {0}, REXW |-> {0}, REX2 |-> {1}])
      EXCEPT !.modes = {64}, !.immediate = "REL_64"],
   [Row("MOV", "NONE", 1824, 1, [REX2 |-> {0}])
      EXCEPT !.immediate = "MEMDISP_V"]}

\* UD0 has a short and a long form, each with a decode bit.
FFRows ==
  {Row("UD0", "UD0_SHORT", 2670, 0, <<>>),
   WithModrm(Row("UD0", "UD0_LONG", 2672, 4, <<>>), Registers),
   WithModrm(Row("UD0", "UD0_LONG", 2671, 2, <<>>), Memory)}

B9Rows ==
  {WithModrm(Row("UD1", "PPRO", 2674, 4, <<>>), Registers),
   WithModrm(Row("UD1", "PPRO", 2673, 2, <<>>), Memory)}

\* VGATHERDPD and VGATHERDPS: memory with a SIB byte, in 32-bit addresses or more.
GatherRows ==
  LET Gather(name, order, w, vl) ==
        [WithModrm(Row(name, "AVX2GATHER", order, 14,
                       [EASZ |-> {2, 3}, REXW |-> {w}, REX2 |-> {0},
                        VEX_PREFIX |-> {1}, VL |-> {vl}]), Memory)
           EXCEPT !.rms = {4}]
  IN  {Gather("VGATHERDPD", 6115, 1, 0), Gather("VGATHERDPD", 6114, 1, 1),
       Gather("VGATHERDPS", 6120, 0, 0), Gather("VGATHERDPS", 6119, 0, 1)}

\* POP2 and POP2P: two registers, neither of them RSP.
Pop2Rows ==
  LET Pop2(name, order, w) ==
        [WithModrm(Row(name, "APX_F_N3", order, 22,
                       [REXW |-> {w}, REX2 |-> {0}, VEX_PREFIX |-> {0},
                        VL |-> {0}, UBIT |-> {1}, ZEROING |-> {0}, ND |-> {1},
                        NF |-> {0}]), Registers)
           EXCEPT !.modes = {64}, !.regs = {0}, !.evapx = TRUE, !.noRsp = TRUE]
  IN  {Pop2("POP2", 10769, 0), Pop2("POP2P", 10770, 1)}

\* IMUL by an immediate of the operand size.
ImulRows ==
  LET Imul(pp, nd, nf, mods) ==
        [WithModrm(Row("IMUL", IF nd = 0 /\ nf = 0 THEN "APX" ELSE "APX_F_N3",
                       1579 + 16 * pp + 4 * nf + 2 * nd + IF mods = Memory THEN 1 ELSE 0,
                       IF mods = Registers THEN 17 ELSE 15,
                       [REX2 |-> {0}, VEX_PREFIX |-> {pp}, VL |-> {0},
                        UBIT |-> {1}, ZEROING |-> {0}, ND |-> {nd}, NF |-> {nf},
                        VEXDEST3 |-> {1}, VEXDEST210 |-> {7}, VEXDEST4 |-> {0}]),
                   mods)
           EXCEPT !.modes = {64}, !.evapx = TRUE, !.immediate = "IMM_Z"]
  IN  {Imul(pp, nd, nf, mods) :
         pp \in {0, 1}, nd \in {0, 1}, nf \in {0, 1}, mods \in {Registers, Memory}}

\* CFCMOVZ, CMOVZ and SETZ.  No two of these rows match the same instruction.
ZeroRows ==
  LET Zero(name, pp, nd, nf, mods) ==
        [WithModrm(Row(name, "APX_F_N3", 0, IF mods = Registers THEN 14 ELSE 12,
                       [REX2 |-> {0}, VEX_PREFIX |-> {pp}, VL |-> {0}, UBIT |-> {1},
                        ZEROING |-> {0}, ND |-> {nd}, NF |-> {nf}]), mods)
           EXCEPT !.modes = {64}, !.evapx = TRUE]
      \* Without a new destination EVEX.vvvv is reserved.
      none == [VEXDEST3 |-> {1}, VEXDEST210 |-> {7}, VEXDEST4 |-> {0}]
      Fixed(row) ==
        [row EXCEPT !.specificity = @ + 3,
           !.fields = [f \in DOMAIN @ \cup DOMAIN none |->
                         IF f \in DOMAIN none THEN none[f] ELSE @[f]]]
  IN  UNION {
        {Fixed(Zero("CFCMOV", pp, 0, nf, mods)), Zero("CFCMOV", pp, 1, 1, mods),
         Zero("CMOV", pp, 1, 0, mods), Fixed(Zero("SETCC", 2, nf, 0, mods))} :
          pp \in {0, 1}, nf \in {0, 1}, mods \in {Registers, Memory}}

\* VFCMADDCPH (F2) and VFMADDCPH (F3), whose memory forms may have U = 0.
Fp16Rows ==
  LET Width(vl) == IF vl = 0 THEN "FP16_128" ELSE IF vl = 1 THEN "FP16_256" ELSE "FP16_512"
      Name(pp) == IF pp = 2 THEN "VFCMADDCPH" ELSE "VFMADDCPH"
      first(pp) == IF pp = 2 THEN 8873 ELSE 8923
      Fp16(pp, vl, mods) ==
        WithModrm(Row(Name(pp), Width(vl),
                      first(pp) + 2 * vl + IF mods = Memory THEN IF vl = 2 THEN 2 ELSE 1 ELSE 0,
                      IF mods = Memory THEN 7 ELSE 10,
                      LET both == [REXW |-> {0}, REX2 |-> {0}, VEX_PREFIX |-> {pp},
                                   VL |-> {vl}, UBIT |-> {1}, BCRC |-> {0, 1}]
                      IN  IF mods = Memory THEN both
                          ELSE [both EXCEPT !.BCRC = {0}]), mods)
      Rounded(pp) ==
        WithModrm(Row(Name(pp), "FP16_512", first(pp) + 5, 9,
                      [REXW |-> {0}, REX2 |-> {0}, VEX_PREFIX |-> {pp},
                       UBIT |-> {1}, BCRC |-> {1}]), Registers)
      Half(row) == [row EXCEPT !.fp16 = TRUE, !.masking = TRUE]
  IN  {Half(Fp16(pp, vl, mods)) : pp \in {2, 3}, vl \in 0..2, mods \in {Registers, Memory}}
      \cup {Half(Rounded(pp)) : pp \in {2, 3}}

Bucket(space, map, opcode) ==
  CASE <<space, map, opcode>> = <<"LEGACY", 0, \hA1>> -> A1Rows
    [] <<space, map, opcode>> = <<"LEGACY", 1, \hFF>> -> FFRows
    [] <<space, map, opcode>> = <<"LEGACY", 1, \hB9>> -> B9Rows
    [] <<space, map, opcode>> = <<"VEX", 2, \h92>> -> GatherRows
    [] <<space, map, opcode>> = <<"EVEX", 4, \h8F>> -> Pop2Rows
    [] <<space, map, opcode>> = <<"EVEX", 4, \h69>> -> ImulRows
    [] <<space, map, opcode>> = <<"EVEX", 4, \h44>> -> ZeroRows
    [] <<space, map, opcode>> = <<"EVEX", 6, \h56>> -> Fp16Rows
    [] OTHER -> {}

=============================================================================
