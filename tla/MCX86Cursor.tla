---------------------------- MODULE MCX86Cursor -----------------------------
(***************************************************************************)
(* Streams for the x86 cursor: many prefixes, every shape of an            *)
(* instruction, and instructions about as long as the real limit.          *)
(***************************************************************************)
EXTENDS X86Cursor

\* Every sequence of up to two of these prefixes, and every sequence of three
\* of the kinds that replace or cancel each other, with and without a FWAIT in
\* front.
SomePrefixes == {\h66, \h67, \hF0, \hF2, \hF3, \h2E, \h65, \h41, \h48}
PrefixRuns ==
  UNION {[1..n -> SomePrefixes] : n \in 0..2} \cup [1..3 -> {\h66, \h2E, \h48}]
PrefixLeads == PrefixRuns \cup {<<Fwait>> \o run : run \in PrefixRuns}

\* Few opcodes, for the streams with many prefixes.
FewBytes ==
  [opcode |-> {\h01, \h68, \h90, \hD9, \hD5},
   modrm |-> {\h03, \h30, \hC0},
   sib |-> {\h00}]

\* One opcode at least of every form of the primary map, with ModRM bytes of
\* every kind of address and the registers that handlers tell apart.
ShapeLeads ==
  {<<>>, <<\h66>>, <<\h67>>, <<\hF0>>, <<\h48>>, <<\h66, \h48>>, <<Fwait>>,
   <<Fwait, \h41>>}

ShapeBytes ==
  [opcode |-> {\h01, \h04, \h05, \h06, \h0F, \h27, \h39, \h50, \h62, \h63, \h68,
               \h69, \h6A, \h6B, \h70, \h81, \h82, \h83, \h86, \h8C, \h8D, \h8E,
               \h8F, \h90, \h9A, \hA0, \hA9, \hB0, \hB8, \hC1, \hC2, \hC4, \hC6,
               \hC7, \hC8, \hD1, \hD5, \hD9, \hDB, \hDF, \hE8, \hEA, \hF6, \hF7,
               \hFE, \hFF},
   modrm |-> {\h00, \h04, \h05, \h06, \h0C, \h30, \h38, \h44, \h6E, \h84, \hC0,
              \hC8, \hE0, \hF8},
   sib |-> {\h00, \h25}]

\* Segment prefixes to bring an instruction to the limit.
LimitLeads ==
  {[i \in 1..n |-> \h2E] \o last :
     n \in 7..14, last \in {<<>>, <<\h48>>, <<\h66>>, <<\h67>>}}

LimitBytes ==
  [opcode |-> {\h01, \h69, \h81, \h8F, \h90, \h9A, \hA0, \hB8, \hC8, \hD5, \hD9, \hF7},
   modrm |-> {\h03, \h05, \h28, \h44, \h84, \hC0},
   sib |-> {\h05}]

AllLeads == PrefixLeads \cup ShapeLeads \cup LimitLeads

\* The prefixes in front of the rest of a tape.
StartsWith(t, lead) ==
  /\ Len(lead) <= Len(t)
  /\ SubSeq(t, 1, Len(lead)) = lead
  /\ Len(t) > Len(lead) => t[Len(lead) + 1] \notin SomePrefixes \cup {Fwait}

AfterLead(kind, t) ==
  IF Len(t) > 3 /\ SubSeq(t, 1, 4) = <<\h2E, \h2E, \h2E, \h2E>> THEN LimitBytes[kind]
  ELSE IF \E lead \in ShapeLeads : StartsWith(t, lead) THEN ShapeBytes[kind]
  ELSE FewBytes[kind]

=============================================================================
