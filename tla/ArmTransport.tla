---------------------------- MODULE ArmTransport ----------------------------
(***************************************************************************)
(* The words A32 and T32 share, and the order in which each of the two     *)
(* instruction sets asks its decoders about them (decode_a32 in            *)
(* src/src/arm/arm_decoder.c, cdisasm_arm_decode_t32_core in               *)
(* src/src/arm/arm_t32_decoder.c).                                         *)
(*                                                                         *)
(* They are the coprocessor and vector words.  T32 carries most of them    *)
(* unchanged and a few with another first byte; the decoder translates     *)
(* those back and asks the decoders of A32.  Every other decoder of the    *)
(* two chains answers UNSUPPORTED_INSTRUCTION to these words.              *)
(*                                                                         *)
(* A word is the pair of its halfwords, bits 31:16 first.                  *)
(***************************************************************************)
EXTENDS Integers

CONSTANT
  Vector   \* cdisasm_arm_decode_a32_neon: its answers to the shared words

Unsupported == [status |-> "UNSUPPORTED_INSTRUCTION", name |-> "NONE", needs |-> {}]
Invalid     == [Unsupported EXCEPT !.status = "INVALID_INSTRUCTION"]
Ok(n, needs) == [status |-> "OK", name |-> n, needs |-> needs]

\* What an answer needs of the processor is a set of clauses: of each, one
\* capability.  Most clauses name one capability only.
AllOf(capabilities) == {{c} : c \in capabilities}

\* A decoder is asked only if the one before it did not know the word.
Otherwise(first, second) == IF first = Unsupported THEN second ELSE first

Halfwords == 0..65535

\* How T32 carries a first byte of A32, and how the decoder translates it back.
T32Byte ==
  [b \in (\hec..\hee) \cup (\hfc..\hfe) \cup (\hf2..\hf4) |->
     IF b = \hf2 THEN \hef ELSE IF b = \hf3 THEN \hff ELSE IF b = \hf4 THEN \hf9 ELSE b]

A32Byte ==
  [b \in (\hec..\hef) \cup (\hfc..\hff) \cup {\hf9} |->
     IF b = \hef THEN \hf2 ELSE IF b = \hff THEN \hf3 ELSE IF b = \hf9 THEN \hf4 ELSE b]

FirstByte(w) == w[1] \div 256

\* Every fourth quarter of the words that begin with F4 is a memory hint
\* instead, and none of these.
Shared(w) ==
  /\ w \in Halfwords \X Halfwords
  /\ FirstByte(w) \in DOMAIN T32Byte
  /\ FirstByte(w) = \hf4 => (w[1] \div 16) % 2 = 0

SharedWords == DOMAIN Vector

InT32(w)     == <<(256 * T32Byte[FirstByte(w)]) + (w[1] % 256), w[2]>>
Canonical(t) == <<(256 * A32Byte[FirstByte(t)]) + (t[1] % 256), t[2]>>

-----------------------------------------------------------------------------
(* The coprocessor decoder.                                                *)

Kind(w)  == FirstByte(w) % 16           \* bits 27:24
Op(w)    == (w[1] \div 16) % 16         \* bits 23:20: U, N, W and L
Base(w)  == w[1] % 16                   \* Rn
Coproc(w) == (w[2] \div 256) % 16
Register(w) == (w[2] \div 16) % 2 = 1   \* bit 4: a register transfer

Up(w)    == Op(w) >= 8
WritesBack(w) == (Op(w) \div 2) % 2 = 1
Load(w)  == Op(w) % 2 = 1

\* The vector decoder's own words.
VectorOwned(w) ==
  \/ Coproc(w) \in {10, 11}
  \/ Kind(w) = 13 /\ ~WritesBack(w) /\ Coproc(w) = 9

\* The loads and stores, and the literal form, which takes any address mode.
Transfers(w) ==
  \/ Kind(w) = 13
  \/ Kind(w) = 12 /\ (WritesBack(w) \/ Up(w))
  \/ Kind(w) = 12 /\ Load(w) /\ Base(w) = 15

Transfer(w) ==
  IF Base(w) = 15 /\ Kind(w) = 12 /\ ~Load(w) THEN Invalid
  ELSE Ok(IF Load(w) THEN "LDC" ELSE "STC", AllOf({"V4"}))

Coprocessor(w) ==
  CASE VectorOwned(w)                      -> Unsupported
    [] ~VectorOwned(w) /\ Transfers(w)     -> Transfer(w)
    [] ~VectorOwned(w) /\ Kind(w) = 14 /\ ~Register(w) ->
         Ok(IF FirstByte(w) >= \hf0 THEN "CDP2" ELSE "CDP", AllOf({"V4"}))
    [] ~VectorOwned(w) /\ Kind(w) = 14 /\ Register(w) ->
         Ok(IF Load(w) THEN "MRC" ELSE "MCR", AllOf({"V4"}))
    [] ~VectorOwned(w) /\ ~Transfers(w) /\ Kind(w) = 12 /\ Op(w) \in {4, 5} ->
         Ok(IF Load(w) THEN "MRRC" ELSE "MCRR", AllOf({"V4"}))
    [] OTHER -> Unsupported

-----------------------------------------------------------------------------
(* The two chains.                                                         *)

\* A vector word with the condition EC or ED is none of the coprocessor's.
ASSUME VectorAssumption ==
  \A w \in SharedWords :
    /\ Shared(w)
    /\ \/ Vector[w] \in {Unsupported, Invalid}
       \/ Vector[w] = Ok(Vector[w].name, Vector[w].needs)
    /\ Vector[w].status = "OK" /\ FirstByte(w) \in {\hec, \hed}
         => Coprocessor(w) = Unsupported

\* decode_a32
A32(w) == Otherwise(Vector[w], Coprocessor(w))

\* The words the vector decoder is asked about first, into a copy.
Probed(t) == FirstByte(t) \in {\hee, \hfe, \hfc, \hfd}

\* Mutant: the coprocessor decoder is asked about all of them first.
T32_NoProbe(t) == Otherwise(Coprocessor(t), Vector[Canonical(t)])

\* cdisasm_arm_decode_t32_core
T32(t) ==
  LET v == Vector[Canonical(t)]
      probe == IF Probed(t) /\ v.status = "OK" THEN v ELSE Unsupported
  IN  Otherwise(probe, Otherwise(Coprocessor(t), v))

=============================================================================
