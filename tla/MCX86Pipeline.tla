--------------------------- MODULE MCX86Pipeline ---------------------------
(***************************************************************************)
(* Constant values for the runs of the x86 decoders: instructions that     *)
(* have every field of an EVEX encoding that the decoders look at in a few *)
(* values, alone and behind prefixes.                                      *)
(***************************************************************************)
EXTENDS X86Decode, MCX86Contexts

Ten == [i \in 1..10 |-> \h64]
Prefixes == {<<>>, <<\h64>>, <<\h66>>, <<\h48, \h64>>}

\* EVEX instructions of a map and an opcode.
Encodings(p0s, p1s, p2s, opcode, tails) ==
  {<<\h62, p0, p1, p2, opcode>> \o tail : p0 \in p0s, p1 \in p1s, p2 \in p2s, tail \in tails}

Behind(prefixes, streams) == {p \o s : p \in prefixes, s \in streams}
Select0(streams, bits) == {[stream |-> s, bits |-> bits] : s \in streams}

Pairs == Encodings({\hF4}, {\h7C, \hFC, \hFD, \hF8}, {\h18, \h19, \h08}, \h8F,
                   {<<\hC0, 0>>, <<\hC4, 0>>, <<\hC8, 0>>, <<\h00, 0>>})
Multiplies == Encodings({\hF4}, {\h7C, \h7D, \hFC, \hFD}, {\h08, \h18, \h0C, \h10}, \h69,
                        {<<\hC0, 1, 2, 3, 4, 5>>, <<\h44, \h24, 1, 1, 2, 3, 4, 5>>})
Conditionals == Encodings({\hF4, \hE4}, {\h7C, \h7D, \h7F, \h6C, \h78}, {\h08, \h18, \h0C, \h1C, \h19},
                          \h44, {<<\hC0, 0>>, <<\h04, \h24, 0>>})
Unaries == Encodings({\hF4}, {\h7C, \hFC, \h78}, {\h08, \h18, \h0C}, \hF7,
                     {<<\hD0, 0>>, <<\hD8, \hFF>>, <<\h14, \h24, 0>>})
Directs == Encodings({\hF4}, {\h7C, \h7D}, {\h08}, \hF9, {<<\h00, 0>>})
           \cup Encodings({\hF4}, {\h7D}, {\h08}, \hF8, {<<\h00, 0>>, <<\hC0, 0>>})
           \cup Encodings({\hF4}, {\h7C, \h7F}, {\h08}, \hFC, {<<\h00, 0>>, <<\hC0, 0>>})
           \cup Encodings({\hF4}, {\h7F, \hFF}, {\h08}, \hF8, {<<\hC0, 0>>})
Fp16 == Encodings({\hF6}, {\h7E, \h7A, \h7B, \h7F}, {\h08, \h18, \h48}, \h56,
                  {<<\hC0, 0>>, <<\h04, \h25, 1, 2, 3, 4, 5>>})

ApxCallers ==
  Select0(Behind(Prefixes, Pairs \cup Multiplies \cup Conditionals), {"APX", "APX_F_N3"})
  \cup Select0(Behind(Prefixes, Unaries \cup Directs) \cup Behind({Ten}, Pairs \cup Directs),
               {"APX", "SYSTEM", "APX_F_RAO_INT", "APX_F_USER_MSR"})

Fp16Callers == Select0(Behind(Prefixes, Fp16), {"FP16_128", "FP16_512"})

OtherCallers ==
  Select0(Behind(Prefixes, {<<\hD5, \h80, \hFF, \hC0, 0>>, <<\hD5, \h80, \hFF, \h04, \h25, 1, 2, 3, 4>>}),
          {"UD0_SHORT", "UD0_LONG"})
  \cup Select0(Behind(Prefixes, {<<\hC4, \hE2, vex, \h92, modrm, \h25, 1, 2, 3, 4, 5>> :
                                  vex \in {\h79, \hFD, \h78}, modrm \in {\h04, \h44, \hC0}}),
               {"AVX2GATHER"})

\* What the byte after the opcode settles, and UD0 in front of the limit.
PeekedCallers ==
  Select0(Behind(Prefixes,
            Encodings({\hF4}, {\h7C, \hFC, \h78}, {\h01, \h08}, \h80, {<<\hF8, 1>>, <<\hC0, 1>>})
            \cup Encodings({\hF4}, {\h7C, \h78}, {\h01, \h08}, \hF7, {<<\hC0, 1, 2, 3, 4>>})
            \cup Encodings({\hF4}, {\h78, \h7C}, {\h08}, \h65, {<<\hC0, 0>>, <<0, 0>>})),
          {"APX"})
  \cup Select0({<<\h64>> \o Ten \o <<\hD5, \h80, \hFF, modrm, 0>> : modrm \in {\h04, \hC0}},
              {"UD0_SHORT", "UD0_LONG"})

AllCallers == ApxCallers \cup Fp16Callers \cup OtherCallers \cup PeekedCallers

=============================================================================
