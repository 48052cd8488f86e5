------------------------- MODULE ArmPipelineProofs --------------------------
(***************************************************************************)
(* The promises of the ARM pipeline, for every answer the vector decoder,  *)
(* the A64 decoders and the generated tree may give.                       *)
(***************************************************************************)
EXTENDS ArmPipeline, TLAPS

-----------------------------------------------------------------------------
(* Shared words.                                                           *)

\* The first bytes that T32 keeps, and the ones it replaces.
LEMMA FirstBytes ==
  /\ DOMAIN T32Byte = {\hec, \hed, \hee, \hfc, \hfd, \hfe, \hf2, \hf3, \hf4}
  /\ \A b \in {\hec, \hed, \hee, \hfc, \hfd, \hfe} : T32Byte[b] = b /\ A32Byte[b] = b
  /\ T32Byte[\hf2] = \hef /\ T32Byte[\hf3] = \hff /\ T32Byte[\hf4] = \hf9
  /\ A32Byte[\hef] = \hf2 /\ A32Byte[\hff] = \hf3 /\ A32Byte[\hf9] = \hf4
BY DEF T32Byte, A32Byte

LEMMA SharedPair ==
  ASSUME NEW w \in SharedWords
  PROVE  w = <<w[1], w[2]>>
<1>1. w \in Halfwords \X Halfwords
  BY VectorAssumption DEF Shared
<1> QED BY <1>1

LEMMA HalfwordRange ==
  ASSUME NEW h \in Halfwords
  PROVE  h \in Nat /\ h <= 65535
BY SMTT(40) DEF Halfwords

LEMMA SharedHalves ==
  ASSUME NEW w \in SharedWords
  PROVE  w[1] \in Halfwords /\ w[2] \in Halfwords
<1>1. w \in Halfwords \X Halfwords
  BY VectorAssumption DEF Shared
<1> QED BY <1>1

\* A word is its first byte and the rest.
LEMMA SharedWhole ==
  ASSUME NEW w \in SharedWords
  PROVE  <<(256 * FirstByte(w)) + (w[1] % 256), w[2]>> = w
<1> DEFINE h == w[1]
           k == (256 * (h \div 256)) + (h % 256)
<1>1. h \in Nat
  BY SharedHalves, HalfwordRange
<1> HIDE DEF h
<1>2. k = h
  BY <1>1
<1> HIDE DEF k
<1>3. <<k, w[2]>> = <<w[1], w[2]>>
  BY <1>2 DEF h
<1>4. <<k, w[2]>> = w
  BY <1>3, SharedPair, Zenon
<1> QED BY <1>4 DEF h, k, FirstByte

LEMMA SharedFirstByte ==
  ASSUME NEW w \in SharedWords
  PROVE  FirstByte(w) \in {\hec, \hed, \hee, \hfc, \hfd, \hfe, \hf2, \hf3, \hf4}
<1>1. FirstByte(w) \in DOMAIN T32Byte
  BY VectorAssumption DEF Shared
<1> QED BY <1>1, FirstBytes

\* A first byte can be read from a halfword put together from bytes.
LEMMA ByteOfHalfword ==
  ASSUME NEW b \in 0..255, NEW x \in Nat
  PROVE  /\ ((256 * b) + (x % 256)) \div 256 = b
         /\ ((256 * b) + (x % 256)) % 256 = x % 256
<1>1. x % 256 \in 0..255
  OBVIOUS
<1> QED BY <1>1

\* Translating a word to T32 and back gives the word.
LEMMA TranslatedBack ==
  ASSUME NEW w \in SharedWords
  PROVE  /\ Canonical(InT32(w)) = w
         /\ FirstByte(InT32(w)) = T32Byte[FirstByte(w)]
<1> DEFINE b == FirstByte(w)
           t == T32Byte[b]
<1>1. t \in 0..255 /\ A32Byte[t] = b
  BY SharedFirstByte, FirstBytes
<1>2. InT32(w) = <<(256 * t) + (w[1] % 256), w[2]>>
  BY DEF InT32
<1> DEFINE h == w[1]
<1>h. h \in Nat
  BY SharedHalves, HalfwordRange
<1> HIDE DEF t, h
<1>3. /\ ((256 * t) + (h % 256)) \div 256 = t
      /\ ((256 * t) + (h % 256)) % 256 = h % 256
  BY <1>1, <1>h, ByteOfHalfword
<1>4. FirstByte(InT32(w)) = t /\ InT32(w)[1] % 256 = w[1] % 256 /\ InT32(w)[2] = w[2]
  BY <1>2, <1>3 DEF FirstByte, h
<1>5. Canonical(InT32(w)) = <<(256 * b) + (w[1] % 256), w[2]>>
  BY <1>1, <1>4 DEF Canonical
<1> QED BY <1>4, <1>5, SharedWhole DEF t

\* A coprocessor word is the same in both instruction sets.
LEMMA Unchanged ==
  ASSUME NEW w \in SharedWords, FirstByte(w) \in {\hec, \hed, \hee, \hfc, \hfd, \hfe}
  PROVE  InT32(w) = w
<1>1. InT32(w) = <<(256 * FirstByte(w)) + (w[1] % 256), w[2]>>
  BY FirstBytes DEF InT32
<1> QED BY <1>1, SharedWhole

\* The coprocessor decoder knows only words of three kinds.
LEMMA NotCoprocessor ==
  ASSUME NEW w, Kind(w) \notin {12, 13, 14}
  PROVE  Coprocessor(w) = Unsupported
BY DEF Coprocessor, VectorOwned, Transfers

CoprocessorNames == {"CDP", "CDP2", "LDC", "STC", "MCR", "MRC", "MCRR", "MRRC"}

LEMMA CoprocessorAnswers ==
  ASSUME NEW w
  PROVE  \/ Coprocessor(w) \in {Unsupported, Invalid}
         \/ \E n \in CoprocessorNames : Coprocessor(w) = Ok(n, AllOf({"V4"}))
BY DEF Coprocessor, Transfer, CoprocessorNames

\* The two chains agree, unless the vector decoder refuses the word.
LEMMA ChainsAgree ==
  ASSUME NEW w \in SharedWords
  PROVE  \/ T32(InT32(w)) = A32(w)
         \/ /\ Vector[w] = Invalid
            /\ A32(w) = Invalid
            /\ T32(InT32(w)) = Coprocessor(InT32(w))
            /\ Coprocessor(InT32(w)) # Unsupported
<1> DEFINE t == InT32(w)
           v == Vector[w]
<1>0. Canonical(t) = w /\ FirstByte(t) = T32Byte[FirstByte(w)]
  BY TranslatedBack
<1>1. CASE FirstByte(w) \in {\hf2, \hf3, \hf4}
  <2>1. FirstByte(t) \in {\hef, \hff, \hf9}
    BY <1>0, <1>1, FirstBytes
  <2>2. Coprocessor(t) = Unsupported
    BY <2>1, NotCoprocessor DEF Kind
  <2>3. Coprocessor(w) = Unsupported
    BY <1>1, NotCoprocessor DEF Kind
  <2>4. ~Probed(t)
    BY <2>1 DEF Probed
  <2> QED BY <1>0, <2>2, <2>3, <2>4 DEF T32, A32, Otherwise
<1>2. CASE FirstByte(w) \in {\hec, \hed, \hee, \hfc, \hfd, \hfe}
  <2>1. t = w
    BY <1>2, Unchanged
  <2>2. CASE v = Unsupported
    BY <1>0, <2>1, <2>2 DEF T32, A32, Otherwise
  <2>3. CASE v = Invalid
    <3>1. Invalid # Unsupported /\ Invalid.status # "OK"
      BY DEF Invalid, Unsupported
    <3>2. A32(w) = Invalid
      BY <2>3, <3>1 DEF A32, Otherwise
    <3>3. T32(t) = Otherwise(Coprocessor(t), Invalid)
      BY <1>0, <2>3, <3>1 DEF T32, Otherwise
    <3> QED BY <2>3, <3>2, <3>3 DEF Otherwise
  <2>4. CASE v = Ok(v.name, v.needs)
    <3>1. v.status = "OK" /\ v # Unsupported
      BY <2>4 DEF Ok, Unsupported
    <3>2. A32(w) = v
      BY <3>1 DEF A32, Otherwise
    <3>3. CASE Probed(t)
      BY <1>0, <3>1, <3>2, <3>3 DEF T32, Otherwise
    <3>4. CASE ~Probed(t)
      <4>1. FirstByte(w) \in {\hec, \hed}
        BY <1>2, <2>1, <3>4 DEF Probed
      <4>2. Coprocessor(t) = Unsupported
        BY <2>1, <3>1, <4>1, VectorAssumption
      <4> QED BY <1>0, <3>1, <3>2, <3>4, <4>2 DEF T32, Otherwise
    <3> QED BY <3>3, <3>4
  <2> QED BY <2>2, <2>3, <2>4, VectorAssumption
<1> QED BY <1>1, <1>2, SharedFirstByte

-----------------------------------------------------------------------------
(* What the processor leaves of an answer.                                 *)

LEMMA Statuses ==
  /\ Unsupported.status = "UNSUPPORTED_INSTRUCTION"
  /\ Invalid.status = "INVALID_INSTRUCTION"
  /\ Unsupported # Invalid
  /\ \A n, c : Ok(n, c).status = "OK" /\ Ok(n, c).name = n /\ Ok(n, c).needs = c
BY DEF Unsupported, Invalid, Ok

\* A shared word goes through the same filter in both instruction sets, so that
\* the answers differ only where the chains do.
LEMMA AnswersAgree ==
  ASSUME NEW w \in SharedWords, NEW cpu,
         Answer(cpu, "A32", w) # Answer(cpu, "T32", InT32(w))
  PROVE  /\ Vector[w] = Invalid
         /\ Answer(cpu, "A32", w) = Invalid
         /\ Answer(cpu, "T32", InT32(w)).name \in CoprocessorNames
<1> DEFINE Kept(found) ==
             IF found.status = "OK" /\ ~Satisfies(cpu, found.needs) THEN Invalid ELSE found
           Filtered(known) ==
             Kept(IF known = Unsupported /\ cpu = "ANY" THEN Generated(cpu, w) ELSE known)
<1>1. Answer(cpu, "A32", w) = Filtered(A32(w))
  BY DEF Answer, Structured, TreeWord, Otherwise
<1>2. Answer(cpu, "T32", InT32(w)) = Filtered(T32(InT32(w)))
  BY TranslatedBack DEF Answer, Structured, TreeWord, Otherwise
<1>3. T32(InT32(w)) # A32(w)
  BY <1>1, <1>2
<1> DEFINE copro == Coprocessor(InT32(w))
<1>4. /\ Vector[w] = Invalid /\ A32(w) = Invalid
      /\ T32(InT32(w)) = copro /\ copro # Unsupported
  BY <1>3, ChainsAgree
<1>5. Filtered(Invalid) = Invalid
  BY Statuses
<1>6. copro # Invalid
  BY <1>3, <1>4
<1>7. PICK n \in CoprocessorNames : copro = Ok(n, AllOf({"V4"}))
  BY <1>4, <1>6, CoprocessorAnswers
<1>8. Filtered(copro) \in {Invalid, Ok(n, AllOf({"V4"}))}
  BY <1>7, Statuses
<1> HIDE DEF Filtered, copro
<1>9. Answer(cpu, "A32", w) = Invalid
  BY <1>1, <1>4, <1>5
<1>10. Answer(cpu, "T32", InT32(w)) = Ok(n, AllOf({"V4"}))
  BY <1>2, <1>4, <1>8, <1>9
<1> QED BY <1>4, <1>7, <1>9, <1>10, Statuses

\* More capabilities satisfy more.
LEMMA SatisfiesMore ==
  ASSUME NEW c, NEW d, NEW needs, AtLeast(c, d), Satisfies(d, needs)
  PROVE  Satisfies(c, needs)
<1>1. \A cap : Has(d, cap) => Has(c, cap)
  BY DEF AtLeast, Has
<1> QED BY <1>1 DEF Satisfies

LEMMA AdmittedMore ==
  ASSUME NEW c, NEW d, NEW w, AtLeast(c, d), Admitted(d, w)
  PROVE  Admitted(c, w)
<1>1. Satisfies(c, LeafOf(w).features)
  BY SatisfiesMore DEF Admitted
<1>2. ASSUME NEW field, PstateAdmitted(d, field)
      PROVE  PstateAdmitted(c, field)
  <2>1. d = "ANY" => c = "ANY"
    BY DEF AtLeast
  <2>2. \A cap : Has(d, cap) => Has(c, cap)
    BY DEF AtLeast, Has
  <2> QED BY <1>2, <2>1, <2>2 DEF PstateAdmitted
<1> QED BY <1>1, <1>2 DEF Admitted

\* The decoder asked first in A64 takes no word that another one accepts.
PriorityApart ==
  \A w \in A64Words :
    Priority(w) # Unsupported => CoreA64[w] = Unsupported /\ LeafOf(w) = NoLeaf

\* What is accepted stays accepted, and as the same instruction.
LEMMA AnswerKept ==
  ASSUME PriorityApart, NEW c, NEW d, AtLeast(c, d), NEW mode \in Modes, NEW w, Modelled(mode, w),
         Answer(d, mode, w).status = "OK"
  PROVE  Answer(c, mode, w) = Answer(d, mode, w)
<1>1. CASE d = "ANY"
  BY <1>1 DEF AtLeast
<1>2. CASE d # "ANY" /\ mode # "A64"
  <2> DEFINE known == Structured(mode, w)
  <2>1. Answer(d, mode, w) = IF known.status = "OK" /\ ~Satisfies(d, known.needs) THEN Invalid ELSE known
    BY <1>2 DEF Answer, Otherwise
  <2>2. known.status = "OK" /\ Satisfies(d, known.needs) /\ known # Unsupported
    BY <2>1, Statuses
  <2>3. Satisfies(c, known.needs)
    BY <2>2, SatisfiesMore
  <2>4. Answer(c, mode, w) = known
    BY <1>2, <2>2, <2>3 DEF Answer, Otherwise
  <2> QED BY <2>1, <2>2, <2>4
<1>3. CASE d # "ANY" /\ mode = "A64"
  <2> DEFINE known == CoreA64[w]
             Kept(cpu, found) ==
               IF found.status = "OK" /\ ~Satisfies(cpu, found.needs) THEN Invalid ELSE found
             Found(cpu) == IF known = Unsupported THEN Generated(cpu, w) ELSE known
  <2>1. w \in A64Words
    BY <1>3 DEF Modelled
  <2>2. Answer(d, mode, w) = Kept(d, Found(d))
    BY <1>3 DEF Answer, Otherwise, Structured, TreeWord
  <2>3. Found(d).status = "OK" /\ Satisfies(d, Found(d).needs)
    BY <2>2, Statuses
  <2>4. known = Unsupported => Admitted(d, w) /\ ~LeafOf(w).opaque
    BY <2>3, Statuses DEF Generated
  <2>5. Found(c) = Found(d)
    BY <2>4, AdmittedMore DEF Generated
  <2>6. Priority(w) = Unsupported
    BY <2>1, <2>3, <2>4, PriorityApart DEF PriorityApart, Admitted
  <2>7. Answer(c, mode, w) = Kept(c, Found(c))
    BY <1>3, <2>6 DEF Answer, Otherwise, Structured, TreeWord
  <2>8. Satisfies(c, Found(d).needs)
    BY <2>3, SatisfiesMore
  <2> QED BY <2>2, <2>3, <2>5, <2>7, <2>8
<1> QED BY <1>1, <1>2, <1>3

\* A form is validated by the decoders that decode its words.
LEMMA FormDecoded ==
  ASSUME NEW cpu, NEW w \in A64Words, NEW form, FormValid(cpu, w, form)
  PROVE  Answer(cpu, "A64", w).status # "INVALID_INSTRUCTION"
<1> DEFINE core == CoreA64[w]
           first == IF cpu = "ANY" THEN Priority(w) ELSE Unsupported
           known == Otherwise(first, core)
           found == IF known = Unsupported THEN Generated(cpu, w) ELSE known
<1>1. Answer(cpu, "A64", w) =
        IF found.status = "OK" /\ ~Satisfies(cpu, found.needs) THEN Invalid ELSE found
  BY DEF Answer, Structured, TreeWord
<1>2. Satisfies(cpu, {})
  BY DEF Satisfies
<1>3. Priority(w) \in {Unsupported, Ok("HINTE", {})}
  BY DEF Priority
<1>4. CASE form = HinteForm
  <2>1. cpu = "ANY" /\ Priority(w).status = "OK"
    BY <1>4 DEF FormValid
  <2>2. found = Ok("HINTE", {})
    BY <1>3, <2>1, Statuses DEF Otherwise
  <2> QED BY <1>1, <1>2, <2>2, Statuses
<1>5. CASE form # HinteForm
  <2>1. /\ core # Invalid /\ Admitted(cpu, w)
        /\ core.status = "OK" => Satisfies(cpu, core.needs)
    BY <1>5 DEF FormValid
  <2>2. first \in {Unsupported, Ok("HINTE", {})}
    BY <1>3
  <2>3. CASE first = Ok("HINTE", {})
    BY <1>1, <1>2, <2>3, Statuses DEF Otherwise
  <2>4. CASE first = Unsupported /\ core = Unsupported
    <3>1. found = Generated(cpu, w)
      BY <2>4 DEF Otherwise
    <3>2. found \in {Unsupported, Ok(LeafOf(w).name, {})}
      BY <2>1, <3>1 DEF Generated
    <3> QED BY <1>1, <1>2, <3>2, Statuses
  <2>5. CASE first = Unsupported /\ core = Ok(core.name, core.needs)
    <3>1. core.status = "OK" /\ core # Unsupported
      BY <2>5, Statuses
    <3>2. found = core
      BY <2>5, <3>1 DEF Otherwise
    <3> QED BY <1>1, <2>1, <3>1, <3>2
  <2> QED BY <2>1, <2>2, <2>3, <2>4, <2>5, CoreAssumption
<1> QED BY <1>4, <1>5

-----------------------------------------------------------------------------
(* Sessions.                                                               *)

LEMMA NoneHasNoProfile == "NONE" \notin DOMAIN Profile
BY DEF Profile

LEMMA CreatedTyped ==
  ASSUME NEW cpu, NEW mode \in Modes, Supports(cpu, mode)
  PROVE  /\ Created(cpu, mode) \in Contexts
         /\ Created(cpu, mode).cpu = cpu /\ cpu # "NONE"
         /\ Created(cpu, mode).mode = mode
         /\ Created(cpu, mode).value \subseteq Created(cpu, mode).mask
<1> DEFINE families == UNION {FamiliesOf(m) : m \in Modes}
<1>1. cpu \in {"ANY"} \cup DOMAIN Profile /\ cpu # "NONE"
  BY NoneHasNoProfile DEF Supports
<1>2. OptionMask(mode) \in SUBSET Options
  BY DEF OptionMask, Options
<1>3. FamilyMask(cpu, mode) \in SUBSET families
  <2>1. FamilyMask(cpu, mode) \subseteq FamiliesOf(mode)
    BY DEF FamilyMask
  <2>2. FamiliesOf(mode) \subseteq families
    OBVIOUS
  <2> QED BY <2>1, <2>2
<1>4. FamilyMask(cpu, mode) \ AppleFamilies \in SUBSET families
  BY <1>3
<1> QED BY <1>1, <1>2, <1>3, <1>4 DEF Created, Contexts

LEMMA NoContextTyped == NoContext \in Contexts /\ NoContext.cpu = "NONE" /\ NoContext.mode = "NONE"
BY DEF NoContext, Contexts

\* A session keeps a context of a mode its processor has, a selection inside the
\* mask and a word of the mode.
THEOREM SessionsTyped == Spec => []TypeOK
<1>1. Init => TypeOK
  BY NoContextTyped DEF Init, TypeOK, NoContext, Layouts
<1>2. TypeOK /\ [Next]_sessionVars => TypeOK'
  <2> SUFFICES ASSUME TypeOK, [Next]_sessionVars
               PROVE  TypeOK'
    OBVIOUS
  <2>1. ASSUME NEW cpu \in Cpus, NEW mode \in Modes, NewContext(cpu, mode)
        PROVE  TypeOK'
    <3>1. CASE Supports(cpu, mode)
      <4>1. context' = Created(cpu, mode) /\ word' \in WordsOf(mode)
        BY <2>1 DEF NewContext
      <4>2. layout' \in Layouts /\ received' \in 0..4
        BY <2>1 DEF NewContext
      <4> QED BY <3>1, <4>1, <4>2, CreatedTyped DEF TypeOK
    <3>2. CASE ~Supports(cpu, mode)
      <4>1. context' = NoContext
        BY <2>1, <3>2 DEF NewContext, Created
      <4>2. layout' \in Layouts /\ received' \in 0..4
        BY <2>1 DEF NewContext
      <4> QED BY <4>1, <4>2, NoContextTyped DEF TypeOK, NoContext
    <3> QED BY <3>1, <3>2
  <2>2. CASE Receive
    <3>1. received' \in 0..4
      BY <2>2 DEF Receive, TypeOK
    <3> QED BY <2>2, <3>1 DEF Receive, TypeOK
  <2>3. ASSUME NEW f \in Selectable, AddFamily(f) \/ RemoveFamily(f)
        PROVE  TypeOK'
    <3>1. f \in context.mask /\ UNCHANGED <<word, layout, received>>
      BY <2>3 DEF AddFamily, RemoveFamily
    <3>2. \E v \in {context.value \cup {f}, context.value \ {f}} :
            context' = [context EXCEPT !.value = v]
      BY <2>3 DEF AddFamily, RemoveFamily
    <3> QED BY <3>1, <3>2 DEF TypeOK, Contexts
  <2>4. ASSUME NEW o \in Options, SetOption(o) \/ ClearOption(o)
        PROVE  TypeOK'
    <3>1. UNCHANGED <<word, layout, received>>
      BY <2>4 DEF SetOption, ClearOption
    <3>2. \E v \in {context.options \cup {o}, context.options \ {o}} :
            context' = [context EXCEPT !.options = v]
      BY <2>4 DEF SetOption, ClearOption
    <3> QED BY <3>1, <3>2 DEF TypeOK, Contexts
  <2>5. CASE UNCHANGED sessionVars
    BY <2>5 DEF sessionVars, TypeOK
  <2> QED BY <2>1, <2>2, <2>3, <2>4, <2>5 DEF Next
<1> QED BY <1>1, <1>2, PTL DEF Spec

\* A32 and T32 agree on every shared word, but for those T32 takes from the
\* vector decoder's refusals, whatever the vector decoder answers.
THEOREM BothStatesAgree == Spec => []StatesAgree
<1>1. TypeOK => StatesAgree
  <2> SUFFICES ASSUME TypeOK, context.mode \in {"A32", "T32"},
                      Answer(context.cpu, "A32", word) # Answer(context.cpu, "T32", InT32(word))
               PROVE  /\ Vector[word] = Invalid
                      /\ Answer(context.cpu, "A32", word) = Invalid
                      /\ Answer(context.cpu, "T32", InT32(word)).name \in CoprocessorNames
    BY DEF StatesAgree, CoprocessorNames
  <2>1. word \in SharedWords
    BY DEF TypeOK, WordsOf
  <2> QED BY <2>1, AnswersAgree
<1> QED BY <1>1, SessionsTyped, PTL

\* What a processor accepts, one with more capabilities accepts as the same
\* instruction, whatever the decoders answer, as long as the one that only
\* CPU_ANY asks first keeps to its own words.
THEOREM UpgradesKeep ==
  ASSUME PriorityApart
  PROVE  Spec => []UpgradeKeeps
<1>1. TypeOK => UpgradeKeeps
  <2> SUFFICES ASSUME TypeOK, Record.status = "OK",
                      NEW c \in Cpus, Supports(c, context.mode), AtLeast(c, context.cpu)
               PROVE  Decode(c, context.mode, context.options, Code(layout)) = Record
    BY DEF UpgradeKeeps
  <2> DEFINE cpu == context.cpu
             mode == context.mode
             code == Code(layout)
             order == OrderOf(context.options)
             w == Word(mode, code, order)
             Given(a) == [status |-> a.status, name |-> a.name]
  <2>1. /\ Supports(cpu, mode)
        /\ ~("UNKNOWN" \in context.options)
        /\ ~("IN_IT_BLOCK" \in context.options /\ mode # "T32")
        /\ code # <<>> /\ ~(Len(code) < Size(mode, code, order))
        /\ Size(mode, code, order) # 2 /\ Modelled(mode, w)
    BY DEF Record, Decode, Refusal
  <2>2. Record = Given(Answer(cpu, mode, w))
    BY <2>1 DEF Record, Decode
  <2>3. Answer(cpu, mode, w).status = "OK"
    BY <2>2
  <2>4. mode \in Modes
    BY <2>1, NoneHasNoProfile DEF TypeOK, Contexts, Supports
  <2>5. Answer(c, mode, w) = Answer(cpu, mode, w)
    BY <2>1, <2>3, <2>4, AnswerKept
  <2>6. Decode(c, mode, context.options, code) = Given(Answer(c, mode, w))
    BY <2>1 DEF Decode
  <2> QED BY <2>2, <2>5, <2>6
<1> QED BY <1>1, SessionsTyped, PTL

\* A form that is validated for a processor is never one its decode call calls
\* invalid, whatever the decoders and the tree answer.
THEOREM ValidFormsDecoded == Spec => []FormsAreDecoded
<1>1. TypeOK => FormsAreDecoded
  <2> SUFFICES ASSUME TypeOK, context.mode = "A64",
                      NEW form, FormValid(context.cpu, word, form)
               PROVE  Answer(context.cpu, "A64", word).status # "INVALID_INSTRUCTION"
    BY DEF FormsAreDecoded
  <2>1. word \in A64Words
    BY DEF TypeOK, WordsOf
  <2> QED BY <2>1, FormDecoded
<1> QED BY <1>1, SessionsTyped, PTL

-----------------------------------------------------------------------------
(* Families.                                                               *)

\* Of every clause of an answer the processor has a capability, and all that the
\* clause names are listed for the mode or among those without a family.
LEMMA NeedsAreListed ==
  ASSUME NEW cpu, NEW mode \in Modes, NEW w, Modelled(mode, w),
         Answer(cpu, mode, w).status = "OK", NEW clause \in Answer(cpu, mode, w).needs
  PROVE  /\ \E c \in clause : Has(cpu, c)
         /\ \A c \in clause : c # "SHA" /\ Listed(mode, c)
<1> DEFINE first == IF cpu = "ANY" /\ mode = "A64" THEN Priority(w) ELSE Unsupported
           core == Structured(mode, w)
           known == Otherwise(first, core)
           asked == cpu = "ANY" \/ mode = "A64"
           found == IF known = Unsupported /\ asked
                    THEN Generated(cpu, TreeWord(mode, w)) ELSE known
<1>1. Answer(cpu, mode, w) =
        IF found.status = "OK" /\ ~Satisfies(cpu, found.needs) THEN Invalid ELSE found
  BY DEF Answer
<1>2. found.status = "OK" /\ Satisfies(cpu, found.needs) /\ clause \in found.needs
  BY <1>1, Statuses
<1>3. \E c \in clause : Has(cpu, c)
  BY <1>2 DEF Satisfies
<1>4. Unsupported.needs = {} /\ Invalid.needs = {}
  BY DEF Unsupported, Invalid
<1>5. Priority(w).needs = {} /\ first.needs = {}
  BY <1>4, Statuses DEF Priority
<1>6. Generated(cpu, TreeWord(mode, w)).needs = {}
  <2>1. Generated(cpu, TreeWord(mode, w)) \in
          {Invalid, Unsupported, Ok(LeafOf(TreeWord(mode, w)).name, {})}
    BY DEF Generated
  <2> QED
    BY <1>4, <2>1, Statuses
<1>7. clause \in core.needs
  BY <1>2, <1>4, <1>5, <1>6 DEF Otherwise
<1>8. CASE mode = "A64"
  <2>1. w \in A64Words /\ core = CoreA64[w]
    BY <1>8 DEF Modelled, Structured
  <2> QED
    BY <1>3, <1>7, <1>8, <2>1, NeedsAssumption
<1>9. CASE mode # "A64"
  <2>1. \A t : Coprocessor(t).needs \subseteq AllOf({"V4"})
    BY <1>4, CoprocessorAnswers, Statuses
  <2>2. PICK v \in SharedWords : core.needs \subseteq Vector[v].needs \cup AllOf({"V4"})
    <3>1. CASE mode = "A32"
      <4>1. w \in SharedWords /\ core = Otherwise(Vector[w], Coprocessor(w))
        BY <3>1 DEF Modelled, Structured, A32
      <4> QED
        BY <2>1, <4>1 DEF Otherwise
    <3>2. CASE mode = "T32"
      <4>1. PICK u \in SharedWords : w = InT32(u)
        BY <3>2 DEF Modelled
      <4>2. Vector[Canonical(w)] = Vector[u]
        BY <4>1, TranslatedBack
      <4>3. core \in {Vector[u], Unsupported, Coprocessor(w)}
        BY <3>2, <4>2 DEF Structured, T32, Otherwise
      <4> QED
        BY <1>4, <2>1, <4>3
    <3> QED
      BY <1>9, <3>1, <3>2 DEF Modes
  <2>3. Listed("A32", "V4") /\ Listed("T32", "V4")
    BY DEF Listed, FamilyOf, FamiliesOf, Hashes
  <2>4. mode \in {"A32", "T32"}
    BY <1>9 DEF Modes
  <2>5. clause \in Vector[v].needs \/ clause = {"V4"}
    BY <1>7, <2>2 DEF AllOf
  <2> QED
    BY <1>3, <2>3, <2>4, <2>5, NeedsAssumption
<1> QED
  BY <1>8, <1>9

\* Its mask is the one a context was created with.
MaskInv ==
  context.cpu # "NONE" => context.mask = FamilyMask(context.cpu, context.mode)

\* Of every clause that what a context accepts needs, the processor has a
\* capability, and the context shows its family, whatever the decoders answer
\* and however families and options are edited; the capabilities without a
\* family in the mode are named by Unlisted.
THEOREM FamiliesCovered == Spec => []FamiliesCover
<1>1. Init => MaskInv
  BY DEF Init, MaskInv, NoContext
<1>2. TypeOK /\ MaskInv /\ [Next]_sessionVars => MaskInv'
  <2> SUFFICES ASSUME TypeOK, MaskInv, [Next]_sessionVars
               PROVE  MaskInv'
    OBVIOUS
  <2>1. ASSUME NEW cpu \in Cpus, NEW mode \in Modes, NewContext(cpu, mode)
        PROVE  MaskInv'
    BY <2>1 DEF NewContext, Created, MaskInv, NoContext
  <2>2. ASSUME \/ \E f \in Selectable : AddFamily(f) \/ RemoveFamily(f)
               \/ \E o \in Options : SetOption(o) \/ ClearOption(o)
        PROVE  MaskInv'
    <3>1. context'.cpu = context.cpu /\ context'.mode = context.mode
          /\ context'.mask = context.mask
      BY <2>2 DEF AddFamily, RemoveFamily, SetOption, ClearOption, TypeOK, Contexts
    <3> QED
      BY <3>1 DEF MaskInv
  <2>3. CASE Receive \/ UNCHANGED sessionVars
    BY <2>3 DEF Receive, sessionVars, MaskInv
  <2> QED
    BY <2>1, <2>2, <2>3 DEF Next
<1>3. TypeOK /\ MaskInv => FamiliesCover
  <2> DEFINE cpu == context.cpu
             mode == context.mode
             code == Code(layout)
             w == Word(mode, code, OrderOf(context.options))
  <2> SUFFICES ASSUME TypeOK, MaskInv, Record.status = "OK",
                      NEW clause \in Answer(cpu, mode, w).needs
               PROVE  \E c \in clause :
                        /\ Has(cpu, c)
                        /\ FamilyOf(c) \in context.mask \/ c \in Unlisted(mode)
    BY DEF FamiliesCover
  <2>1. Supports(cpu, mode) /\ Modelled(mode, w) /\ Answer(cpu, mode, w).status = "OK"
    BY DEF Record, Decode, Refusal
  <2>2. mode \in Modes /\ cpu # "NONE"
    BY <2>1, NoneHasNoProfile DEF TypeOK, Contexts, Supports
  <2>3. PICK c \in clause : Has(cpu, c)
    BY <2>1, <2>2, NeedsAreListed
  <2>4. c # "SHA" /\ Listed(mode, c)
    BY <2>1, <2>2, NeedsAreListed
  <2>5. FamilyPresent(cpu, FamilyOf(c))
    BY <2>3, <2>4 DEF FamilyPresent, FamilyOf
  <2>6. c \notin Unlisted(mode) => FamilyOf(c) \in context.mask
    BY <2>2, <2>4, <2>5 DEF MaskInv, FamilyMask, Listed
  <2> QED
    BY <2>3, <2>6
<1> QED
  BY <1>1, <1>2, <1>3, SessionsTyped, PTL DEF Spec

-----------------------------------------------------------------------------
(* Byte orders.                                                            *)

\* What the call reads of the first n bytes of an instruction.
Reads(s, n, a, b, c, d) ==
  /\ Len(s) = n
  /\ s = <<>> <=> n = 0
  /\ n >= 2 => /\ Halfword(s, 1, "BIG") = (256 * a) + b
               /\ Halfword(s, 1, "LITTLE") = a + (256 * b)
  /\ n = 4 => /\ Halfword(s, 3, "BIG") = (256 * c) + d
              /\ Halfword(s, 3, "LITTLE") = c + (256 * d)

LEMMA InputPrefix ==
  ASSUME NEW a \in Nat, NEW b \in Nat, NEW c \in Nat, NEW d \in Nat, NEW n \in 0..4,
         NEW s, s = SubSeq(<<a, b, c, d>>, 1, n)
  PROVE  Reads(s, n, a, b, c, d)
<1>1. /\ Len(s) = n
      /\ s = <<>> <=> n = 0
      /\ n >= 2 => s[1] = a /\ s[2] = b
      /\ n = 4 => s[3] = c /\ s[4] = d
  OBVIOUS
<1> QED BY <1>1, SMTT(40) DEF Reads, Halfword

\* x read as BIG and y read as LITTLE give the same: the call sees nothing of its
\* input but its length, the halfword that gives the size in T32, and the word.
Opposite(mode, n, x, y) ==
  /\ Len(x) = n /\ Len(y) = n
  /\ x = <<>> <=> y = <<>>
  /\ n >= 2 /\ mode = "T32" => Halfword(x, 1, "BIG") = Halfword(y, 1, "LITTLE")
  /\ n = 4 => Word(mode, x, "BIG") = Word(mode, y, "LITTLE")

LEMMA SameInput ==
  ASSUME NEW cpu, NEW mode \in Modes, NEW o, NEW p, NEW x, NEW y, NEW n \in 0..4,
         OrderOf(o) = "BIG", OrderOf(p) = "LITTLE",
         "UNKNOWN" \in o <=> "UNKNOWN" \in p,
         "IN_IT_BLOCK" \in o <=> "IN_IT_BLOCK" \in p,
         Opposite(mode, n, x, y)
  PROVE  Decode(cpu, mode, o, x) = Decode(cpu, mode, p, y)
<1> DEFINE size == Size(mode, x, "BIG")
<1>1. Size(mode, y, "LITTLE") = size /\ size \in {2, 4}
  BY DEF Size, Opposite
<1>2. CASE n < size \/ size = 2
  BY <1>1, <1>2 DEF Decode, Opposite
<1>3. CASE ~(n < size) /\ size = 4
  <2>1. n = 4
    BY <1>3
  <2> QED BY <1>1, <1>3, <2>1 DEF Decode, Opposite
<1> QED BY <1>1, <1>2, <1>3

LEMMA StoredHalfwords ==
  ASSUME NEW mode \in Modes, NEW w \in WordsOf(mode),
         NEW v, v = IF mode = "T32" THEN InT32(w) ELSE w
  PROVE  v[1] \in Nat /\ v[2] \in Nat
<1>1. CASE mode = "A64"
  <2>1. w \in Halfwords \X Halfwords
    BY <1>1, CoreAssumption DEF WordsOf
  <2>2. w[1] \in Halfwords /\ w[2] \in Halfwords
    BY <2>1
  <2> QED BY <1>1, <2>2, HalfwordRange
<1>2. CASE mode # "A64"
  <2>1. w \in SharedWords
    BY <1>2 DEF WordsOf
  <2>2. w[1] \in Nat /\ w[2] \in Nat
    BY <2>1, SharedHalves, HalfwordRange
  <2>3. T32Byte[FirstByte(w)] \in Nat
    BY <2>1, SharedFirstByte, FirstBytes
  <2>4. InT32(w)[1] \in Nat /\ InT32(w)[2] \in Nat
    BY <2>2, <2>3 DEF InT32
  <2> QED BY <2>2, <2>4
<1> QED BY <1>1, <1>2

\* Both orders of the same bytes, read with opposite options.
LEMMA OppositeReads ==
  ASSUME NEW mode \in Modes, NEW w \in WordsOf(mode), NEW n \in 0..4,
         NEW little, little = SubSeq(Bytes(mode, w, "LITTLE"), 1, n),
         NEW big, big = SubSeq(Bytes(mode, w, "BIG"), 1, n)
  PROVE  Opposite(mode, n, little, big) /\ Opposite(mode, n, big, little)
<1> DEFINE v == IF mode = "T32" THEN InT32(w) ELSE w
           h1 == v[1] \div 256
           l1 == v[1] % 256
           h2 == v[2] \div 256
           l2 == v[2] % 256
<1>1. v[1] \in Nat /\ v[2] \in Nat
  BY StoredHalfwords
<1> HIDE DEF v
<1>2. h1 \in Nat /\ l1 \in Nat /\ h2 \in Nat /\ l2 \in Nat
  BY <1>1
<1>3. big = SubSeq(<<h1, l1, h2, l2>>, 1, n)
  BY DEF Bytes, v
<1>4. mode = "T32" => little = SubSeq(<<l1, h1, l2, h2>>, 1, n)
  BY DEF Bytes, v
<1>5. mode # "T32" => little = SubSeq(<<l2, h2, l1, h1>>, 1, n)
  BY DEF Bytes, v
<1> HIDE DEF h1, l1, h2, l2
<1>6. Reads(big, n, h1, l1, h2, l2)
  BY <1>2, <1>3, InputPrefix, Zenon
<1>7. CASE mode = "T32"
  <2>1. Reads(little, n, l1, h1, l2, h2)
    BY <1>2, <1>4, <1>7, InputPrefix, Zenon
  <2>2. Len(little) = n /\ Len(big) = n /\ (little = <<>> <=> big = <<>>)
    BY <1>6, <2>1 DEF Reads
  <2>3. n >= 2 => /\ Halfword(little, 1, "BIG") = Halfword(big, 1, "LITTLE")
                  /\ Halfword(big, 1, "BIG") = Halfword(little, 1, "LITTLE")
    BY <1>2, <1>6, <2>1 DEF Reads
  <2>4. n = 4 => /\ Halfword(little, 3, "BIG") = Halfword(big, 3, "LITTLE")
                 /\ Halfword(big, 3, "BIG") = Halfword(little, 3, "LITTLE")
    BY <1>2, <1>6, <2>1 DEF Reads
  <2>5. n = 4 => /\ Word(mode, little, "BIG") = Word(mode, big, "LITTLE")
                 /\ Word(mode, big, "BIG") = Word(mode, little, "LITTLE")
    BY <1>7, <2>3, <2>4 DEF Word
  <2> QED BY <2>2, <2>3, <2>5 DEF Opposite
<1>8. CASE mode # "T32"
  <2>1. Reads(little, n, l2, h2, l1, h1)
    BY <1>2, <1>5, <1>8, InputPrefix, Zenon
  <2>2. Len(little) = n /\ Len(big) = n /\ (little = <<>> <=> big = <<>>)
    BY <1>6, <2>1 DEF Reads
  <2>3. n = 4 => /\ Halfword(little, 1, "BIG") = Halfword(big, 3, "LITTLE")
                 /\ Halfword(big, 3, "BIG") = Halfword(little, 1, "LITTLE")
                 /\ Halfword(little, 3, "BIG") = Halfword(big, 1, "LITTLE")
                 /\ Halfword(big, 1, "BIG") = Halfword(little, 3, "LITTLE")
    BY <1>2, <1>6, <2>1 DEF Reads
  <2> QED BY <1>8, <2>2, <2>3 DEF Word, Opposite
<1> QED BY <1>7, <1>8

\* The order of the bytes and the option that announces it make up for each
\* other, at every length of the input.
THEOREM OrdersAgree == Spec => []ByteOrdersAgree
<1>1. TypeOK => ByteOrdersAgree
  <2> DEFINE cpu == context.cpu
             mode == context.mode
             opts == context.options
             other == IF layout = "LITTLE" THEN "BIG" ELSE "LITTLE"
             flip == IF "BIG_ENDIAN" \in opts THEN opts \ {"BIG_ENDIAN"}
                     ELSE opts \cup {"BIG_ENDIAN"}
             x == Code(other)
             y == Code(layout)
  <2> SUFFICES ASSUME TypeOK
               PROVE  Decode(cpu, mode, flip, x) = Decode(cpu, mode, opts, y)
    BY DEF ByteOrdersAgree, Record
  <2>1. CASE cpu = "NONE"
    <3>1. ~Supports(cpu, mode)
      BY <2>1, NoneHasNoProfile DEF Supports
    <3> QED BY <3>1 DEF Decode
  <2>2. CASE cpu # "NONE"
    <3>1. mode \in Modes /\ word \in WordsOf(mode) /\ received \in 0..4 /\ layout \in {"LITTLE", "BIG"}
      BY <2>2 DEF TypeOK, Layouts
    <3>2. /\ OrderOf(flip) = "BIG" <=> OrderOf(opts) = "LITTLE"
          /\ OrderOf(flip) = "LITTLE" <=> OrderOf(opts) = "BIG"
          /\ "UNKNOWN" \in flip <=> "UNKNOWN" \in opts
          /\ "IN_IT_BLOCK" \in flip <=> "IN_IT_BLOCK" \in opts
      BY DEF OrderOf
    <3>3. Opposite(mode, received, x, y) /\ Opposite(mode, received, y, x)
      <4>1. /\ Code("LITTLE") = SubSeq(Bytes(mode, word, "LITTLE"), 1, received)
            /\ Code("BIG") = SubSeq(Bytes(mode, word, "BIG"), 1, received)
        BY Zenon DEF Code
      <4>2. /\ Opposite(mode, received, Code("LITTLE"), Code("BIG"))
            /\ Opposite(mode, received, Code("BIG"), Code("LITTLE"))
        BY <3>1, <4>1, OppositeReads, Zenon
      <4>3. CASE layout = "LITTLE"
        BY <4>2, <4>3
      <4>4. CASE layout = "BIG"
        BY <4>2, <4>4
      <4> QED BY <3>1, <4>3, <4>4
    <3> HIDE DEF x, y, flip
    <3>4. CASE OrderOf(opts) = "BIG"
      BY <3>1, <3>2, <3>3, <3>4, SameInput
    <3>5. CASE OrderOf(opts) = "LITTLE"
      BY <3>1, <3>2, <3>3, <3>5, SameInput
    <3> QED BY <3>4, <3>5 DEF OrderOf
  <2> QED BY <2>1, <2>2
<1> QED BY <1>1, SessionsTyped, PTL

=============================================================================
