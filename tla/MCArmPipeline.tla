---------------------------- MODULE MCArmPipeline ---------------------------
(***************************************************************************)
(* The ARM pipeline on 60 shared words and 33 A64 words: for every path of *)
(* the two chains at least one word that takes it, with the answers the    *)
(* vector decoder and the A64 decoder give and the leaf of the generated   *)
(* tree.                                                                   *)
(***************************************************************************)
EXTENDS ArmPipeline, TLC

CpusMC == {"ANY"} \cup DOMAIN Profile
SelectableMC == {"VFP", "APPLE_MUL53"}

Row(name, capabilities) == Ok(name, AllOf(capabilities))

Each(ws, answer) == [w \in ws |-> answer]

VectorMC ==
  <<\hec42, \h9b17>> :> Row("VMOV", {"V7", "VFP"}) @@
  <<\hedcb, \hda37>> :> Row("VSTR", {"V7", "VFP"}) @@
  <<\hed4b, \h194a>> :> Row("VSTR", {"V8", "FP16", "VFP"}) @@
  <<\hee8e, \h5b30>> :> Row("VDUP", {"V7", "NEON"}) @@
  <<\heef7, \h2946>> :> Row("VRINTX", {"V7", "VFP"}) @@
  <<\hee58, \h9ae9>> :> Row("VNMLA", {"V7", "VFP"}) @@
  <<\heeb9, \hfbe8>> :> Row("VJCVT", {"V8", "VFP", "JSCVT"}) @@
  <<\hee2f, \hf9e8>> :> Row("VNMUL", {"V8", "FP16", "VFP"}) @@
  <<\hf22c, \h3a21>> :> Row("VPMAX", {"V7", "NEON"}) @@
  <<\hf222, \h0cc8>> :> Row("SHA1M", {"V8", "NEON", "SHA1"}) @@
  <<\hf3f6, \hf78e>> :> Row("VRINTP", {"V8", "NEON", "FP16"}) @@
  <<\hf4ac, \he191>> :> Row("VLD2", {"V7", "NEON"}) @@
  <<\hfc22, \h2d80>> :> Row("VSDOT", {"V8", "NEON", "DOTPROD"}) @@
  <<\hfcad, \hdda0>> :> Row("VUSDOT", {"V8", "NEON", "AA32I8MM"}) @@
  <<\hfc2c, \h68c8>> :> Row("VCMLA", {"V8", "NEON", "FCMA"}) @@
  <<\hfc47, \h1d00>> :> Row("VDOT", {"V8", "NEON", "BF16"}) @@
  <<\hfc07, \h1d04>> :> Row("VDOT", {"V8", "NEON", "BF16"}) @@
  <<\hfca5, \hf89e>> :> Row("VFMSL", {"V8", "NEON", "FHM"}) @@
  <<\hfca0, \hab0f>> :> Row("FSTMIAX", {"V7", "VFP"}) @@
  <<\hfc2f, \h6d07>> :> Row("VSDOT", {"V8", "NEON", "DOTPROD"}) @@
  <<\hfd6c, \h6842>> :> Row("VCMLA", {"V8", "NEON", "FCMA"}) @@
  <<\hfddd, \h0929>> :> Row("VLDR", {"V8", "FP16", "VFP"}) @@
  <<\hfe40, \h3888>> :> Row("VCMLA", {"V8", "NEON", "FCMA"}) @@
  <<\hfe21, \h0d1b>> :> Row("VUDOT", {"V8", "NEON", "DOTPROD"}) @@
  <<\hfecc, \hdb8e>> :> Row("VMAXNM", {"V8", "VFP"}) @@
  <<\hfef9, \h7be2>> :> Row("VJCVT", {"V8", "VFP", "JSCVT"}) @@
  <<\hf3b4, \hc320>> :> Row("AESE", {"V8", "NEON", "AES"}) @@
  Each({<<\hecc9, \hcb6b>>, <<\heda0, \hba6b>>, <<\heebb, \h4968>>, <<\heebe, \h0a4f>>,
        <<\hf2f0, \h1265>>, <<\hf428, \h8ac4>>, <<\hfc21, \h4d54>>, <<\hfcef, \hb8ec>>,
        <<\hfc89, \hba62>>, <<\hfdcf, \h3842>>, <<\hfdab, \h5a39>>, <<\hfee6, \hf867>>}, Invalid) @@
  Each({<<\hecf5, \h6675>>, <<\hecaf, \hc892>>, <<\hec16, \h8708>>, <<\hed7a, \hc23e>>,
        <<\hee06, \h3ea3>>, <<\hee21, \hda1b>>, <<\hf2f3, \h2a51>>, <<\hf23b, \h2ddb>>,
        <<\hf3c8, \hcb1c>>, <<\hf44b, \hdebc>>, <<\hf461, \h29c2>>, <<\hfce9, \h1950>>,
        <<\hfcef, \h52ef>>, <<\hfc19, \h6a3c>>, <<\hfd18, \h18b2>>, <<\hfe39, \he4fa>>,
        <<\hfeb4, \h2ba5>>, <<\hec1f, \h5e04>>, <<\hec5f, \h6e04>>, <<\hec4f, \h6e04>>,
        <<\hee01, \hf61d>>}, Unsupported)

CoreA64MC ==
  <<\hd503, \h201f>> :> Row("NOP", {"V8"}) @@
  <<\hd503, \h233f>> :> Row("PACIASP", {"V8", "PAUTH"}) @@
  <<\hd503, \h221f>> :> Row("ESB", {"V8", "RAS"}) @@
  <<\hd503, \h225f>> :> Row("TSB", {"V8", "TRF"}) @@
  <<\hd503, \h2fff>> :> Row("HINT", {"V8"}) @@
  <<\hd503, \h437f>> :> Row("SMSTART", {"V8", "SME"}) @@
  <<\hf83f, \hd240>> :> Row("LD64B", {"V8", "LS64"}) @@
  <<\hd503, \h1000>> :> Row("WFET", {"V8", "WFXT"}) @@
  <<\hd503, \h30ff>> :> Row("SB", {"V8", "SB"}) @@
  <<\hd503, \h323f>> :> Row("DSB", {"V8", "XS"}) @@
  <<\hf8a0, \h4818>> :> Row("RPRFM", {"V8", "RPRFM"}) @@
  <<\h0e80, \h9c00>> :> Row("USDOT", {"V8", "NEON", "I8MM"}) @@
  <<\h2e40, \h8400>> :> Row("SQRDMLAH", {"V8", "NEON", "RDM"}) @@
  <<\h0e21, \he800>> :> Row("FRINT32Z", {"V8", "NEON", "FRINTTS"}) @@
  <<\h089f, \h7c00>> :> Row("STLLRB", {"V8", "LOR"}) @@
  <<\h0ea1, \h6800>> :> Row("BFCVTN", {"V8", "NEON", "BF16"}) @@
  <<\h0f40, \hf000>> :> Row("BFDOT", {"V8", "NEON", "MODERN_BF16"}) @@
  <<\h0400, \h0000>> :> Ok("ADD", {{"V8"}, {"SVE", "SME"}}) @@
  Each({<<\hf83f, \hd241>>, <<\h0e61, \hbbb6>>}, Invalid) @@
  Each({<<\hd500, \h2000>>, <<\hd523, \h2fff>>, <<\hd503, \h409f>>, <<\hd500, \h407f>>,
        <<\hd500, \h409f>>, <<\hd500, \h41bf>>, <<\hd503, \h411f>>, <<\hd500, \h401f>>,
        <<\hd548, \h0022>>, <<\hd548, \h0023>>, <<\h9ac0, \h0020>>, <<\hd558, \h2002>>,
        <<\hd558, \h2003>>}, Unsupported)

LeafRow(form, name, features, opaque) ==
  [form |-> form, name |-> name, features |-> AllOf(features), opaque |-> opaque]

LeafMC ==
  <<\hd503, \h201f>> :> LeafRow(4459, "NOP", {}, TRUE) @@
  <<\hd503, \h233f>> :> LeafRow(4478, "PACIASP", {"PAUTH"}, TRUE) @@
  <<\hd503, \h221f>> :> LeafRow(4471, "ESB", {"RAS"}, TRUE) @@
  <<\hd503, \h225f>> :> LeafRow(4473, "TSB", {"TRF"}, TRUE) @@
  <<\hd503, \h2fff>> :> LeafRow(4491, "HINT", {}, TRUE) @@
  <<\hd500, \h401f>> :> LeafRow(4499, "CFINV", {"FLAGM"}, FALSE) @@
  <<\h9ac0, \h0020>> :> LeafRow(5592, "SUBP", {"MTE"}, FALSE) @@
  <<\h0e61, \hbbb6>> :> LeafRow(6022, "FCVTMS", {"NEON"}, TRUE) @@
  <<\hd503, \h1000>> :> LeafRow(4457, "WFET", {"WFXT"}, FALSE) @@
  <<\hd503, \h30ff>> :> LeafRow(4496, "SB", {"SB"}, TRUE) @@
  <<\hd503, \h323f>> :> LeafRow(4497, "DSB", {"XS"}, TRUE) @@
  <<\hf8a0, \h4818>> :> LeafRow(5545, "RPRFM", {"RPRFM"}, TRUE) @@
  <<\h0e80, \h9c00>> :> LeafRow(5980, "USDOT", {"I8MM"}, TRUE) @@
  <<\h2e40, \h8400>> :> LeafRow(5982, "SQRDMLAH", {"RDM"}, TRUE) @@
  <<\h0e21, \he800>> :> LeafRow(6025, "FRINT32Z", {"FRINTTS"}, TRUE) @@
  <<\h089f, \h7c00>> :> LeafRow(4835, "STLLRB", {"LOR"}, TRUE) @@
  <<\h0ea1, \h6800>> :> LeafRow(6037, "BFCVTN", {"BF16"}, TRUE) @@
  <<\h0f40, \hf000>> :> LeafRow(6260, "BFDOT", {"BF16"}, TRUE) @@
  <<\h0400, \h0000>> :> LeafRow(2221, "ADD", {"SVE", "SME"}, FALSE) @@
  Each({<<\hd503, \h437f>>, <<\hd503, \h409f>>, <<\hd500, \h407f>>, <<\hd500, \h409f>>,
        <<\hd500, \h41bf>>, <<\hd503, \h411f>>}, LeafRow(4498, "MSR", {}, FALSE)) @@
  Each({<<\hd548, \h0022>>, <<\hd548, \h0023>>}, LeafRow(4506, "SYSP", {"SYSINSTR128"}, TRUE)) @@
  Each({<<\hd558, \h2002>>, <<\hd558, \h2003>>}, LeafRow(4507, "MSRR", {"SYSREG128"}, TRUE)) @@
  Each({<<\hf83f, \hd240>>, <<\hf83f, \hd241>>}, LeafRow(5368, "LD64B", {"LS64"}, TRUE)) @@
  <<\hf23b, \h2ddb>> :> LeafRow(693, "VABD", {}, TRUE) @@
  <<\hf461, \h29c2>> :> LeafRow(1012, "VLD", {}, TRUE)

=============================================================================
