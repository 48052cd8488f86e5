------------------------- MODULE X86CursorFinality --------------------------
(***************************************************************************)
(* What a call of the x86 decoder answers is a function of the bytes of    *)
(* the stream and of how many of them there are, and once it is not        *)
(* TRUNCATED no further byte changes it (but for a lone FWAIT).            *)
(*                                                                         *)
(* The tape has only the bytes that some call has looked at, so the        *)
(* invariants below speak of every stream F that agrees with the tape.     *)
(* The tape only grows: what holds of all such streams keeps holding.      *)
(*                                                                         *)
(* The last two parts are about one call: the prefixes in force are those  *)
(* the bytes say, and the fields of the encoding follow one another.       *)
(***************************************************************************)
EXTENDS X86CursorProofs

Streams == [Nat \ {0} -> Byte]

Agrees(F) ==
  /\ F \in Streams
  /\ \A i \in 1..Len(tape) : F[i] = tape[i]

-----------------------------------------------------------------------------
(* What the prefixes of a stream say.  The mode is a parameter, so that    *)
(* these are constants.  w: the stream begins with a WAIT that is fused.   *)

PrefixIn(b, m) == b \in Legacy \/ IsRex(b, m)

First(w) == IF w THEN 2 ELSE 1

Run(F, m, w, p) == \A i \in First(w)..p : PrefixIn(F[i], m)

Has(F, w, p, class) == \E i \in First(w)..p : F[i] \in class

\* v is the last byte of the class, or 0.
LastOf(F, w, p, class, v) ==
  \/ v = 0 /\ ~Has(F, w, p, class)
  \/ \E i \in First(w)..p :
       /\ v = F[i] /\ F[i] \in class
       /\ \A j \in First(w)..p : j > i => F[j] \notin class

Says(F, m, w, p, x) ==
  /\ x \in Prefixes
  /\ x.wait = w
  /\ x.lock = Has(F, w, p, {\hF0})
  /\ x.operand = Has(F, w, p, {\h66})
  /\ x.address = Has(F, w, p, {\h67})
  /\ LastOf(F, w, p, {\hF2, \hF3}, x.repeat)
  /\ LastOf(F, w, p, Segments, x.segment)
  /\ x.rex = IF p >= First(w) /\ IsRex(F[p], m) THEN F[p] ELSE 0

\* y is what the prefix byte b makes of x.
Continues(x, y, b) ==
  /\ y.wait = x.wait
  /\ y.lock = (x.lock \/ b = \hF0)
  /\ y.operand = (x.operand \/ b = \h66)
  /\ y.address = (x.address \/ b = \h67)
  /\ y.repeat = IF b \in {\hF2, \hF3} THEN b ELSE x.repeat
  /\ y.segment = IF b \in Segments THEN b ELSE x.segment
  /\ y.rex = IF b \in Legacy THEN 0 ELSE b

\* has_wait_x87_alias of the first n bytes.
Waits(F, m, n) ==
  /\ F[1] = Fwait
  /\ \E k \in Nat :
       /\ k >= 2 /\ k + 1 <= n /\ k + 1 <= MaxInstructionSize
       /\ \A i \in 2..(k - 1) : PrefixIn(F[i], m)
       /\ F[k] \in X87 /\ X87Waits(F[k], F[k + 1])

-----------------------------------------------------------------------------
(* What a call with n bytes still has to answer, from each of its places:  *)
(* <<status, length>>, p being the cursor.                                 *)

Req(count, p, n) ==
  IF count > MaxInstructionSize - p THEN "INVALID"
  ELSE IF count > n - p THEN "TRUNCATED"
  ELSE "OK"

Ended(op, modrm, x, p) ==
  IF x.lock /\ ~TakesLock(op, modrm) THEN <<"INVALID", 0>> ELSE <<"OK", p>>

\* No instruction has more than two immediates; k of them have been read.
FromImmediates(op, modrm, x, sizes, k, p, n) ==
  IF k = Len(sizes) THEN Ended(op, modrm, x, p)
  ELSE IF Req(sizes[k + 1], p, n) # "OK" THEN <<Req(sizes[k + 1], p, n), 0>>
  ELSE IF k + 1 = Len(sizes) THEN Ended(op, modrm, x, p + sizes[k + 1])
  ELSE IF Req(sizes[k + 2], p + sizes[k + 1], n) # "OK"
       THEN <<Req(sizes[k + 2], p + sizes[k + 1], n), 0>>
  ELSE Ended(op, modrm, x, p + sizes[k + 1] + sizes[k + 2])

DisplacementOf(op, modrm, sib, x, m) ==
  DisplacementBytes(op, modrm, sib, AddressBits(m, x.address))

ImmediatesOf(op, modrm, x, m) ==
  Immediates(op, modrm, m, x.operand, OperandBits(m, x.operand, x.rex))

JudgedAs(op, modrm, x) ==
  IF ~TakesModrm(op) THEN "OK"
  ELSE IF x.wait /\ op \in X87 /\ ~X87Waits(op, modrm) THEN "INTERNAL"
  ELSE Verdict(op, modrm, x.lock)

FromDisplacement(op, modrm, sib, x, m, p, n) ==
  LET size == DisplacementOf(op, modrm, sib, x, m)
  IN  IF Req(size, p, n) # "OK" THEN <<Req(size, p, n), 0>>
      ELSE IF JudgedAs(op, modrm, x) # "OK" THEN <<JudgedAs(op, modrm, x), 0>>
      ELSE FromImmediates(op, modrm, x, ImmediatesOf(op, modrm, x, m), 0, p + size, n)

FromSib(F, op, modrm, x, m, p, n) ==
  IF Req(1, p, n) # "OK" THEN <<Req(1, p, n), 0>>
  ELSE FromDisplacement(op, modrm, F[p + 1], x, m, p + 1, n)

PeeksAt(op, p, n) == op \in X87 \cup {\h8F} /\ p < n

PeekedAs(op, b, p, n) ==
  CASE op \in X87 /\ ~X87Known(op, b) -> "INVALID"
    [] op = \h8F /\ b % 32 >= 8 /\ Req(1, p, n) = "OK" -> "HANDED_ON"
    [] OTHER -> Req(1, p, n)

FromModrm(F, op, x, m, p, n) ==
  IF ~PeeksAt(op, p, n) /\ Req(1, p, n) # "OK"
  THEN <<IF op \in X87 /\ p >= n THEN "TRUNCATED" ELSE Req(1, p, n), 0>>
  ELSE IF PeekedAs(op, F[p + 1], p, n) # "OK" THEN <<PeekedAs(op, F[p + 1], p, n), 0>>
  ELSE IF TakesSib(F[p + 1], AddressBits(m, x.address))
       THEN FromSib(F, op, F[p + 1], x, m, p + 1, n)
  ELSE FromDisplacement(op, F[p + 1], 0, x, m, p + 1, n)

Rex2Status(x, p, n) ==
  IF x.rex # 0 THEN "INVALID"
  ELSE IF Req(2, p, n) = "OK" THEN "HANDED_ON"
  ELSE Req(2, p, n)

\* p prefix bytes, a WAIT included.
FromOpcode(F, x, m, p, n) ==
  IF p >= MaxInstructionSize THEN <<"INVALID", 0>>
  ELSE IF p >= n THEN <<"TRUNCATED", 0>>
  ELSE IF IsRex2(F[p + 1], m) THEN <<Rex2Status(x, p, n), 0>>
  ELSE IF F[p + 1] \in HandedOn THEN <<"HANDED_ON", 0>>
  ELSE IF Refused(F[p + 1], m) THEN <<"INVALID", 0>>
  ELSE IF TakesModrm(F[p + 1]) THEN FromModrm(F, F[p + 1], x, m, p + 1, n)
  ELSE FromDisplacement(F[p + 1], 0, 0, x, m, p + 1, n)

\* The prefixes of the first n bytes are p, and say x.
Stops(F, m, w, p, n, x) ==
  /\ p \in Nat /\ p + 1 >= First(w) /\ p <= n /\ p <= MaxInstructionSize
  /\ Run(F, m, w, p)
  /\ p < n /\ p < MaxInstructionSize => ~PrefixIn(F[p + 1], m)
  /\ Says(F, m, w, p, x)

\* A call with the first n bytes answers v.
Means(F, m, n, v) ==
  \E p \in Nat : \E x \in Prefixes :
    /\ Stops(F, m, Waits(F, m, n), p, n, x)
    /\ v = FromOpcode(F, x, m, p, n)

-----------------------------------------------------------------------------
(* Facts about these functions.                                            *)

\* A read that does not wait for bytes has the same outcome with more of them.
LEMMA ReqStable ==
  ASSUME NEW count \in Nat, NEW p \in Nat, NEW n \in Nat, NEW k \in Nat, n <= k,
         Req(count, p, n) # "TRUNCATED"
  PROVE  Req(count, p, k) = Req(count, p, n)
BY CursorAssumption DEF Req

LEMMA ReqStatus ==
  ASSUME NEW count, NEW p, NEW n
  PROVE  Req(count, p, n) \in {"OK", "INVALID", "TRUNCATED"}
BY DEF Req

\* A read that succeeds ends in the buffer, and would in any that reaches as far.
LEMMA ReqEnough ==
  ASSUME NEW count \in Nat, NEW p \in Nat, NEW n \in Nat, Req(count, p, n) = "OK"
  PROVE  /\ p + count <= n
         /\ \A k \in Nat : p + count <= k => Req(count, p, k) = "OK"
BY CursorAssumption DEF Req

LEMMA DisplacementSizesOf ==
  ASSUME NEW op, NEW modrm, NEW sib, NEW x, NEW m
  PROVE  DisplacementOf(op, modrm, sib, x, m) \in {0, 1, 2, 4, 8}
<1> DEFINE addr == AddressBits(m, x.address)
<1>1. addr \in {16, 32, 64}
  BY Zenon DEF AddressBits
<1> HIDE DEF addr
<1>2. addr \div 8 \in {2, 4, 8}
  BY <1>1
<1> DEFINE wide == IF addr = 16 THEN 2 ELSE 4
           absolute == IF addr = 16 THEN Rm(modrm) = 6
                       ELSE IF Rm(modrm) = 4 THEN sib % 8 = 5
                       ELSE Rm(modrm) = 5
<1>3. wide \in {0, 1, 2, 4, 8}
  OBVIOUS
<1>4. AddressBytes(modrm, sib, addr) =
        CASE Mod(modrm) = 0 -> IF absolute THEN wide ELSE 0
          [] Mod(modrm) = 1 -> 1
          [] Mod(modrm) = 2 -> wide
          [] OTHER -> 0
  BY Zenon DEF AddressBytes
<1> HIDE DEF wide, absolute
<1>5. (IF absolute THEN wide ELSE 0) \in {0, 1, 2, 4, 8}
  BY <1>3
<1>6. AddressBytes(modrm, sib, addr) \in {0, 1, 2, 4, 8}
  BY <1>3, <1>4, <1>5, Zenon
<1>7. DisplacementOf(op, modrm, sib, x, m) \in {addr \div 8, AddressBytes(modrm, sib, addr), 0}
  BY DEF DisplacementOf, DisplacementBytes, addr
<1> QED
  BY <1>2, <1>6, <1>7

\* There are at most two immediates.
LEMMA ImmediatesFew ==
  ASSUME NEW op, NEW modrm, NEW x, NEW m
  PROVE  /\ ImmediatesOf(op, modrm, x, m) \in Seq({1, 2, 4, 8})
         /\ Len(ImmediatesOf(op, modrm, x, m)) <= 2
<1> DEFINE bits == OperandBits(m, x.operand, x.rex)
<1>1. bits \in {16, 32, 64}
  BY Zenon DEF OperandBits
<1> HIDE DEF bits
<1>2. bits \div 8 \in {1, 2, 4, 8}
  BY <1>1
<1> DEFINE sized == IF bits = 64 THEN 4 ELSE bits \div 8
           push == PushBytes(m, x.operand, bits)
           relative == IF m = 64 THEN 4 ELSE sized
<1>3. sized \in {1, 2, 4, 8} /\ push \in {1, 2, 4, 8} /\ relative \in {1, 2, 4, 8}
  BY <1>2 DEF PushBytes
<1>4. ImmediatesOf(op, modrm, x, m) =
        CASE op \in ByteImmediate -> <<1>>
          [] op \in SizedImmediate -> <<sized>>
          [] op = \hF6 /\ Reg(modrm) <= 1 -> <<1>>
          [] op = \hF7 /\ Reg(modrm) <= 1 -> <<sized>>
          [] op = \h68 -> <<push>>
          [] op \in \hB8..\hBF -> <<bits \div 8>>
          [] op \in {\hE8, \hE9} -> <<relative>>
          [] op \in {\h9A, \hEA} -> <<bits \div 8, 2>>
          [] op \in {\hC2, \hCA} -> <<2>>
          [] op = \hC8 -> <<2, 1>>
          [] OTHER -> <<>>
  BY Zenon DEF ImmediatesOf, Immediates, bits
<1>5. ImmediatesOf(op, modrm, x, m)
        \in {<<1>>, <<sized>>, <<push>>, <<bits \div 8>>, <<relative>>,
             <<bits \div 8, 2>>, <<2>>, <<2, 1>>, <<>>}
  BY <1>4, Zenon
<1> HIDE DEF sized, push, relative
<1>6. \A s \in {1, 2, 4, 8} :
        /\ <<s>> \in Seq({1, 2, 4, 8}) /\ Len(<<s>>) = 1
        /\ <<s, 2>> \in Seq({1, 2, 4, 8}) /\ Len(<<s, 2>>) = 2
  OBVIOUS
<1>7. /\ <<2, 1>> \in Seq({1, 2, 4, 8}) /\ Len(<<2, 1>>) = 2
      /\ <<>> \in Seq({1, 2, 4, 8}) /\ Len(<<>>) = 0
  OBVIOUS
<1> DEFINE few(s) == s \in Seq({1, 2, 4, 8}) /\ Len(s) <= 2
<1>8. /\ few(<<1>>) /\ few(<<sized>>) /\ few(<<push>>) /\ few(<<bits \div 8>>)
      /\ few(<<relative>>) /\ few(<<bits \div 8, 2>>) /\ few(<<2>>)
      /\ few(<<2, 1>>) /\ few(<<>>)
  BY <1>2, <1>3, <1>6, <1>7
<1> HIDE DEF few
<1>9. few(ImmediatesOf(op, modrm, x, m))
  BY <1>5, <1>8, Zenon
<1> QED
  BY <1>9 DEF few

\* With more bytes, what was not TRUNCATED stays: stage by stage.
LEMMA ImmediatesStable ==
  ASSUME NEW op, NEW modrm, NEW x, NEW sizes \in Seq({1, 2, 4, 8}),
         NEW taken \in 0..Len(sizes), NEW p \in Nat, NEW n \in Nat, NEW k \in Nat,
         n <= k,
         FromImmediates(op, modrm, x, sizes, taken, p, n)[1] # "TRUNCATED"
  PROVE  FromImmediates(op, modrm, x, sizes, taken, p, k)
           = FromImmediates(op, modrm, x, sizes, taken, p, n)
<1>1. CASE taken = Len(sizes)
  BY <1>1 DEF FromImmediates
<1>2. CASE taken # Len(sizes)
  <2> DEFINE one == sizes[taken + 1]
             two == sizes[taken + 2]
  <2>1. one \in Nat /\ p + one \in Nat
    BY <1>2
  <2>2. taken + 1 # Len(sizes) => two \in Nat
    BY <1>2
  <2>3. FromImmediates(op, modrm, x, sizes, taken, p, n) =
          IF Req(one, p, n) # "OK" THEN <<Req(one, p, n), 0>>
          ELSE IF taken + 1 = Len(sizes) THEN Ended(op, modrm, x, p + one)
          ELSE IF Req(two, p + one, n) # "OK" THEN <<Req(two, p + one, n), 0>>
          ELSE Ended(op, modrm, x, p + one + two)
    BY <1>2 DEF FromImmediates
  <2>4. FromImmediates(op, modrm, x, sizes, taken, p, k) =
          IF Req(one, p, k) # "OK" THEN <<Req(one, p, k), 0>>
          ELSE IF taken + 1 = Len(sizes) THEN Ended(op, modrm, x, p + one)
          ELSE IF Req(two, p + one, k) # "OK" THEN <<Req(two, p + one, k), 0>>
          ELSE Ended(op, modrm, x, p + one + two)
    BY <1>2 DEF FromImmediates
  <2> HIDE DEF one, two
  <2>5. Req(one, p, k) = Req(one, p, n)
    BY <2>1, <2>3, ReqStable
  <2>6. CASE Req(one, p, n) # "OK" \/ taken + 1 = Len(sizes)
    BY <2>3, <2>4, <2>5, <2>6
  <2>7. CASE Req(one, p, n) = "OK" /\ taken + 1 # Len(sizes)
    <3>1. Req(two, p + one, k) = Req(two, p + one, n)
      BY <2>1, <2>2, <2>3, <2>7, ReqStable
    <3> QED
      BY <2>3, <2>4, <2>5, <2>7, <3>1
  <2> QED
    BY <2>6, <2>7
<1> QED
  BY <1>1, <1>2

LEMMA DisplacementStable ==
  ASSUME NEW op, NEW modrm, NEW sib, NEW x, NEW m,
         NEW p \in Nat, NEW n \in Nat, NEW k \in Nat, n <= k,
         FromDisplacement(op, modrm, sib, x, m, p, n)[1] # "TRUNCATED"
  PROVE  FromDisplacement(op, modrm, sib, x, m, p, k)
           = FromDisplacement(op, modrm, sib, x, m, p, n)
<1> DEFINE size == DisplacementOf(op, modrm, sib, x, m)
           sizes == ImmediatesOf(op, modrm, x, m)
<1>1. size \in Nat /\ p + size \in Nat
  BY DisplacementSizesOf
<1>2. sizes \in Seq({1, 2, 4, 8}) /\ 0 \in 0..Len(sizes)
  BY ImmediatesFew
<1> HIDE DEF size, sizes
<1>3. \A c \in {n, k} :
        FromDisplacement(op, modrm, sib, x, m, p, c) =
          IF Req(size, p, c) # "OK" THEN <<Req(size, p, c), 0>>
          ELSE IF JudgedAs(op, modrm, x) # "OK" THEN <<JudgedAs(op, modrm, x), 0>>
          ELSE FromImmediates(op, modrm, x, sizes, 0, p + size, c)
  BY DEF FromDisplacement, size, sizes
<1>4. Req(size, p, k) = Req(size, p, n)
  BY <1>1, <1>3, ReqStable
<1>5. CASE Req(size, p, n) # "OK" \/ JudgedAs(op, modrm, x) # "OK"
  BY <1>3, <1>4, <1>5
<1>6. CASE Req(size, p, n) = "OK" /\ JudgedAs(op, modrm, x) = "OK"
  BY <1>1, <1>2, <1>3, <1>4, <1>6, ImmediatesStable
<1> QED
  BY <1>5, <1>6

LEMMA SibStable ==
  ASSUME NEW F, NEW op, NEW modrm, NEW x, NEW m,
         NEW p \in Nat, NEW n \in Nat, NEW k \in Nat, n <= k,
         FromSib(F, op, modrm, x, m, p, n)[1] # "TRUNCATED"
  PROVE  FromSib(F, op, modrm, x, m, p, k) = FromSib(F, op, modrm, x, m, p, n)
<1>1. \A c \in {n, k} :
        FromSib(F, op, modrm, x, m, p, c) =
          IF Req(1, p, c) # "OK" THEN <<Req(1, p, c), 0>>
          ELSE FromDisplacement(op, modrm, F[p + 1], x, m, p + 1, c)
  BY DEF FromSib
<1>2. Req(1, p, k) = Req(1, p, n)
  BY <1>1, ReqStable
<1>3. CASE Req(1, p, n) # "OK"
  BY <1>1, <1>2, <1>3
<1>4. CASE Req(1, p, n) = "OK"
  BY <1>1, <1>2, <1>4, DisplacementStable
<1> QED
  BY <1>3, <1>4

LEMMA PeekedStatuses ==
  ASSUME NEW op, NEW b, NEW p, NEW n
  PROVE  PeekedAs(op, b, p, n) \in {"INVALID", "HANDED_ON", Req(1, p, n)}
BY Zenon DEF PeekedAs

\* The look at a ModRM byte that is not there yet is not final, save at the limit,
\* where what is read behind it is refused whatever it is.
LEMMA ModrmStable ==
  ASSUME NEW F, NEW op, NEW x, NEW m,
         NEW p \in Nat, NEW n \in Nat, NEW k \in Nat, n <= k,
         FromModrm(F, op, x, m, p, n)[1] # "TRUNCATED"
  PROVE  FromModrm(F, op, x, m, p, k) = FromModrm(F, op, x, m, p, n)
<1> DEFINE b == F[p + 1]
           sib == TakesSib(b, AddressBits(m, x.address))
           missing(c) == ~PeeksAt(op, p, c) /\ Req(1, p, c) # "OK"
<1>1. \A c \in {n, k} :
        FromModrm(F, op, x, m, p, c) =
          IF missing(c)
          THEN <<IF op \in X87 /\ p >= c THEN "TRUNCATED" ELSE Req(1, p, c), 0>>
          ELSE IF PeekedAs(op, b, p, c) # "OK" THEN <<PeekedAs(op, b, p, c), 0>>
          ELSE IF sib THEN FromSib(F, op, b, x, m, p + 1, c)
          ELSE FromDisplacement(op, b, 0, x, m, p + 1, c)
  BY DEF FromModrm
<1> HIDE DEF b, sib
<1>2. CASE p >= n /\ p >= MaxInstructionSize /\ op \notin X87
  <2>1. Req(1, p, n) = "INVALID" /\ Req(1, p, k) = "INVALID"
    BY <1>2, CursorAssumption DEF Req
  <2>2. missing(n) /\ FromModrm(F, op, x, m, p, n) = <<"INVALID", 0>>
    BY <1>1, <1>2, <2>1 DEF PeeksAt
  <2>3. PeekedAs(op, b, p, k) = "INVALID"
    BY <1>2, <2>1 DEF PeekedAs
  <2> QED
    BY <1>1, <1>2, <2>1, <2>2, <2>3
<1>3. CASE p >= n /\ ~(p >= MaxInstructionSize /\ op \notin X87)
  <2>1. ~PeeksAt(op, p, n)
    BY <1>3 DEF PeeksAt
  <2>2. Req(1, p, n) # "OK" /\ (p < MaxInstructionSize => Req(1, p, n) = "TRUNCATED")
    BY <1>3, CursorAssumption DEF Req
  <2> QED
    BY <1>1, <1>3, <2>1, <2>2, CursorAssumption
<1>4. CASE p < n
  <2>1. Req(1, p, k) = Req(1, p, n) /\ Req(1, p, n) # "TRUNCATED"
    BY <1>4, CursorAssumption DEF Req
  <2>2. PeekedAs(op, b, p, k) = PeekedAs(op, b, p, n)
    BY <2>1 DEF PeekedAs
  <2>3. PeeksAt(op, p, k) = PeeksAt(op, p, n) /\ ~(p >= n) /\ ~(p >= k)
    BY <1>4 DEF PeeksAt
  <2>4. missing(n) = missing(k)
    BY <2>1, <2>3
  <2>5. CASE missing(n) \/ PeekedAs(op, b, p, n) # "OK"
    BY <1>1, <2>1, <2>2, <2>3, <2>4, <2>5
  <2>6. CASE ~missing(n) /\ PeekedAs(op, b, p, n) = "OK" /\ sib
    BY <1>1, <2>2, <2>4, <2>6, SibStable
  <2>7. CASE ~missing(n) /\ PeekedAs(op, b, p, n) = "OK" /\ ~sib
    <3>1. FromDisplacement(op, b, 0, x, m, p + 1, n)[1] # "TRUNCATED"
      BY <1>1, <2>7
    <3>2. FromDisplacement(op, b, 0, x, m, p + 1, k)
            = FromDisplacement(op, b, 0, x, m, p + 1, n)
      BY <3>1, DisplacementStable
    <3> QED
      BY <1>1, <2>2, <2>4, <2>7, <3>2
  <2> QED
    BY <2>5, <2>6, <2>7
<1> QED
  BY <1>2, <1>3, <1>4

LEMMA OpcodeStable ==
  ASSUME NEW F, NEW x, NEW m,
         NEW p \in Nat, NEW n \in Nat, NEW k \in Nat, n <= k,
         FromOpcode(F, x, m, p, n)[1] # "TRUNCATED"
  PROVE  FromOpcode(F, x, m, p, k) = FromOpcode(F, x, m, p, n)
<1> DEFINE b == F[p + 1]
<1>1. \A c \in {n, k} :
        FromOpcode(F, x, m, p, c) =
          IF p >= MaxInstructionSize THEN <<"INVALID", 0>>
          ELSE IF p >= c THEN <<"TRUNCATED", 0>>
          ELSE IF IsRex2(b, m) THEN <<Rex2Status(x, p, c), 0>>
          ELSE IF b \in HandedOn THEN <<"HANDED_ON", 0>>
          ELSE IF Refused(b, m) THEN <<"INVALID", 0>>
          ELSE IF TakesModrm(b) THEN FromModrm(F, b, x, m, p + 1, c)
          ELSE FromDisplacement(b, 0, 0, x, m, p + 1, c)
  BY DEF FromOpcode
<1> HIDE DEF b
<1>2. CASE p >= MaxInstructionSize
  BY <1>1, <1>2
<1>3. CASE p >= n /\ ~(p >= MaxInstructionSize)
  BY <1>1, <1>3
<1>4. CASE p < n /\ ~(p >= MaxInstructionSize)
  <2>1. ~(p >= n) /\ ~(p >= k)
    BY <1>4
  <2>2. CASE IsRex2(b, m)
    <3>1. Rex2Status(x, p, n) # "TRUNCATED"
      BY <1>1, <1>4, <2>1, <2>2
    <3>2. Rex2Status(x, p, k) = Rex2Status(x, p, n)
      BY <3>1, ReqStable DEF Rex2Status
    <3> QED
      BY <1>1, <1>4, <2>1, <2>2, <3>2
  <2>3. CASE ~IsRex2(b, m) /\ (b \in HandedOn \/ Refused(b, m))
    BY <1>1, <1>4, <2>1, <2>3
  <2>4. CASE ~IsRex2(b, m) /\ b \notin HandedOn /\ ~Refused(b, m) /\ TakesModrm(b)
    <3>1. \A c \in {n, k} :
            FromOpcode(F, x, m, p, c) = FromModrm(F, b, x, m, p + 1, c)
      BY <1>1, <1>4, <2>1, <2>4
    <3> QED
      BY <3>1, ModrmStable
  <2>5. CASE ~IsRex2(b, m) /\ b \notin HandedOn /\ ~Refused(b, m) /\ ~TakesModrm(b)
    <3>1. \A c \in {n, k} :
            FromOpcode(F, x, m, p, c) = FromDisplacement(b, 0, 0, x, m, p + 1, c)
      BY <1>1, <1>4, <2>1, <2>5
    <3> QED
      BY <3>1, DisplacementStable
  <2> QED
    BY <2>2, <2>3, <2>4, <2>5
<1> QED
  BY <1>2, <1>3, <1>4

\* An instruction that is answered ends in the buffer, behind the cursor, and
\* would be answered from any buffer that reaches to its end.
Enough(v, p, n) == v[1] = "OK" => v[2] \in Nat /\ p <= v[2] /\ v[2] <= n

LEMMA ImmediatesEnough ==
  ASSUME NEW op, NEW modrm, NEW x, NEW sizes \in Seq({1, 2, 4, 8}),
         NEW p \in Nat, NEW n \in Nat, p <= n,
         FromImmediates(op, modrm, x, sizes, 0, p, n)[1] = "OK"
  PROVE  /\ Enough(FromImmediates(op, modrm, x, sizes, 0, p, n), p, n)
         /\ \A k \in Nat : FromImmediates(op, modrm, x, sizes, 0, p, n)[2] <= k =>
              FromImmediates(op, modrm, x, sizes, 0, p, k)
                = FromImmediates(op, modrm, x, sizes, 0, p, n)
<1> DEFINE one == sizes[1]
           two == sizes[2]
<1>1. Len(sizes) # 0 => one \in Nat /\ p + one \in Nat
  OBVIOUS
<1>2. Len(sizes) # 0 /\ Len(sizes) # 1 => two \in Nat
  <2>1. Len(sizes) \in Nat /\ \A i \in 1..Len(sizes) : sizes[i] \in Nat
    OBVIOUS
  <2>2. \A l \in Nat : l # 0 /\ l # 1 => 2 \in 1..l
    OBVIOUS
  <2> QED
    BY <2>1, <2>2
<1>3. \A c \in Nat :
        FromImmediates(op, modrm, x, sizes, 0, p, c) =
          IF Len(sizes) = 0 THEN Ended(op, modrm, x, p)
          ELSE IF Req(one, p, c) # "OK" THEN <<Req(one, p, c), 0>>
          ELSE IF Len(sizes) = 1 THEN Ended(op, modrm, x, p + one)
          ELSE IF Req(two, p + one, c) # "OK" THEN <<Req(two, p + one, c), 0>>
          ELSE Ended(op, modrm, x, p + one + two)
  BY DEF FromImmediates
<1>4. \A q : Ended(op, modrm, x, q)[1] = "OK" => Ended(op, modrm, x, q)[2] = q
  BY DEF Ended
<1> HIDE DEF one, two
<1>5. CASE Len(sizes) = 0
  BY <1>3, <1>4, <1>5 DEF Enough
<1>6. CASE Len(sizes) = 1
  <2>1. Req(one, p, n) = "OK"
    BY <1>3, <1>6
  <2>2. FromImmediates(op, modrm, x, sizes, 0, p, n) = Ended(op, modrm, x, p + one)
    BY <1>3, <1>6, <2>1
  <2>3. p + one <= n /\ \A k \in Nat : p + one <= k => Req(one, p, k) = "OK"
    BY <1>1, <1>6, <2>1, ReqEnough
  <2> QED
    BY <1>1, <1>3, <1>4, <1>6, <2>2, <2>3 DEF Enough
<1>7. CASE Len(sizes) # 0 /\ Len(sizes) # 1
  <2>1. Req(one, p, n) = "OK" /\ Req(two, p + one, n) = "OK"
    BY <1>3, <1>7
  <2>2. FromImmediates(op, modrm, x, sizes, 0, p, n) = Ended(op, modrm, x, p + one + two)
    BY <1>3, <1>7, <2>1
  <2>3. p + one <= n /\ \A k \in Nat : p + one <= k => Req(one, p, k) = "OK"
    BY <1>1, <1>7, <2>1, ReqEnough
  <2>4. /\ p + one + two <= n
        /\ \A k \in Nat : p + one + two <= k => Req(two, p + one, k) = "OK"
    BY <1>1, <1>2, <1>7, <2>1, ReqEnough
  <2>5. \A k \in Nat : p + one + two <= k => p + one <= k
    BY <1>1, <1>2, <1>7
  <2>6. FromImmediates(op, modrm, x, sizes, 0, p, n)[2] = p + one + two
    BY <1>4, <2>2
  <2>7. ASSUME NEW k \in Nat, p + one + two <= k
        PROVE  FromImmediates(op, modrm, x, sizes, 0, p, k) = Ended(op, modrm, x, p + one + two)
    BY <1>3, <1>7, <2>3, <2>4, <2>5, <2>7
  <2> QED
    BY <1>1, <1>2, <1>7, <2>2, <2>4, <2>6, <2>7 DEF Enough
<1> QED
  BY <1>5, <1>6, <1>7

LEMMA DisplacementEnough ==
  ASSUME NEW op, NEW modrm, NEW sib, NEW x, NEW m,
         NEW p \in Nat, NEW n \in Nat, p <= n,
         FromDisplacement(op, modrm, sib, x, m, p, n)[1] = "OK"
  PROVE  /\ Enough(FromDisplacement(op, modrm, sib, x, m, p, n), p, n)
         /\ \A k \in Nat : FromDisplacement(op, modrm, sib, x, m, p, n)[2] <= k =>
              FromDisplacement(op, modrm, sib, x, m, p, k)
                = FromDisplacement(op, modrm, sib, x, m, p, n)
<1> DEFINE size == DisplacementOf(op, modrm, sib, x, m)
           sizes == ImmediatesOf(op, modrm, x, m)
           rest(c) == FromImmediates(op, modrm, x, sizes, 0, p + size, c)
<1>1. size \in Nat /\ p + size \in Nat /\ sizes \in Seq({1, 2, 4, 8})
  BY DisplacementSizesOf, ImmediatesFew
<1>2. \A c \in Nat :
        FromDisplacement(op, modrm, sib, x, m, p, c) =
          IF Req(size, p, c) # "OK" THEN <<Req(size, p, c), 0>>
          ELSE IF JudgedAs(op, modrm, x) # "OK" THEN <<JudgedAs(op, modrm, x), 0>>
          ELSE rest(c)
  BY DEF FromDisplacement
<1> HIDE DEF size, sizes
<1>3. Req(size, p, n) = "OK" /\ JudgedAs(op, modrm, x) = "OK"
  BY <1>2
<1>4. FromDisplacement(op, modrm, sib, x, m, p, n) = rest(n) /\ rest(n)[1] = "OK"
  BY <1>2, <1>3
<1>5. /\ p + size <= n
      /\ \A k \in Nat : p + size <= k => Req(size, p, k) = "OK"
  BY <1>1, <1>3, ReqEnough
<1>6. /\ Enough(rest(n), p + size, n)
      /\ \A k \in Nat : rest(n)[2] <= k => rest(k) = rest(n)
  BY <1>1, <1>4, <1>5, ImmediatesEnough
<1> HIDE DEF rest
<1>7. rest(n)[2] \in Nat /\ p + size <= rest(n)[2] /\ rest(n)[2] <= n
  BY <1>4, <1>6 DEF Enough
<1>8. ASSUME NEW k \in Nat, rest(n)[2] <= k
      PROVE  FromDisplacement(op, modrm, sib, x, m, p, k) = rest(n)
  <2>1. Req(size, p, k) = "OK"
    BY <1>1, <1>5, <1>7, <1>8
  <2> QED
    BY <1>2, <1>3, <1>6, <1>8, <2>1
<1> QED
  BY <1>1, <1>4, <1>7, <1>8 DEF Enough

LEMMA SibEnough ==
  ASSUME NEW F, NEW op, NEW modrm, NEW x, NEW m,
         NEW p \in Nat, NEW n \in Nat, p <= n,
         FromSib(F, op, modrm, x, m, p, n)[1] = "OK"
  PROVE  /\ Enough(FromSib(F, op, modrm, x, m, p, n), p, n)
         /\ \A k \in Nat : FromSib(F, op, modrm, x, m, p, n)[2] <= k =>
              FromSib(F, op, modrm, x, m, p, k) = FromSib(F, op, modrm, x, m, p, n)
<1> DEFINE rest(c) == FromDisplacement(op, modrm, F[p + 1], x, m, p + 1, c)
<1>1. \A c \in Nat :
        FromSib(F, op, modrm, x, m, p, c) =
          IF Req(1, p, c) # "OK" THEN <<Req(1, p, c), 0>> ELSE rest(c)
  BY DEF FromSib
<1>2. Req(1, p, n) = "OK"
  BY <1>1
<1>3. FromSib(F, op, modrm, x, m, p, n) = rest(n) /\ rest(n)[1] = "OK"
  BY <1>1, <1>2
<1>4. p + 1 <= n /\ \A k \in Nat : p + 1 <= k => Req(1, p, k) = "OK"
  BY <1>2, ReqEnough
<1>5. /\ Enough(rest(n), p + 1, n)
      /\ \A k \in Nat : rest(n)[2] <= k => rest(k) = rest(n)
  BY <1>3, <1>4, DisplacementEnough
<1> HIDE DEF rest
<1> QED
  BY <1>1, <1>3, <1>4, <1>5 DEF Enough

LEMMA ModrmEnough ==
  ASSUME NEW F, NEW op, NEW x, NEW m,
         NEW p \in Nat, NEW n \in Nat, p <= n,
         FromModrm(F, op, x, m, p, n)[1] = "OK"
  PROVE  /\ Enough(FromModrm(F, op, x, m, p, n), p + 1, n)
         /\ \A k \in Nat : FromModrm(F, op, x, m, p, n)[2] <= k =>
              FromModrm(F, op, x, m, p, k) = FromModrm(F, op, x, m, p, n)
<1> DEFINE b == F[p + 1]
           sib == TakesSib(b, AddressBits(m, x.address))
           missing(c) == ~PeeksAt(op, p, c) /\ Req(1, p, c) # "OK"
           rest(c) == IF sib THEN FromSib(F, op, b, x, m, p + 1, c)
                      ELSE FromDisplacement(op, b, 0, x, m, p + 1, c)
<1>1. \A c \in Nat :
        FromModrm(F, op, x, m, p, c) =
          IF missing(c)
          THEN <<IF op \in X87 /\ p >= c THEN "TRUNCATED" ELSE Req(1, p, c), 0>>
          ELSE IF PeekedAs(op, b, p, c) # "OK" THEN <<PeekedAs(op, b, p, c), 0>>
          ELSE rest(c)
  BY DEF FromModrm
<1> HIDE DEF b, sib
<1>2. ~missing(n) /\ PeekedAs(op, b, p, n) = "OK"
  BY <1>1
<1>3. Req(1, p, n) = "OK"
  BY <1>2, PeekedStatuses
<1>4. p + 1 <= n /\ \A k \in Nat : p + 1 <= k => Req(1, p, k) = "OK"
  BY <1>3, ReqEnough
<1>5. FromModrm(F, op, x, m, p, n) = rest(n) /\ rest(n)[1] = "OK"
  BY <1>1, <1>2
<1>6. /\ Enough(rest(n), p + 1, n)
      /\ \A k \in Nat : rest(n)[2] <= k => rest(k) = rest(n)
  <2>1. CASE sib
    BY <1>4, <1>5, <2>1, SibEnough
  <2>2. CASE ~sib
    BY <1>4, <1>5, <2>2, DisplacementEnough
  <2> QED
    BY <2>1, <2>2
<1> HIDE DEF rest
<1>7. ASSUME NEW k \in Nat, rest(n)[2] <= k
      PROVE  FromModrm(F, op, x, m, p, k) = rest(n)
  <2>1. p + 1 <= k /\ Req(1, p, k) = "OK"
    BY <1>4, <1>5, <1>6, <1>7 DEF Enough
  <2>2. ~missing(k) /\ PeekedAs(op, b, p, k) = PeekedAs(op, b, p, n)
    BY <1>3, <2>1 DEF PeekedAs
  <2> QED
    BY <1>1, <1>2, <1>6, <1>7, <2>2
<1> QED
  BY <1>5, <1>6, <1>7

LEMMA OpcodeEnough ==
  ASSUME NEW F, NEW x, NEW m, NEW p \in Nat, NEW n \in Nat,
         FromOpcode(F, x, m, p, n)[1] = "OK"
  PROVE  /\ p < n /\ p < MaxInstructionSize
         /\ Enough(FromOpcode(F, x, m, p, n),
                   IF TakesModrm(F[p + 1]) THEN p + 2 ELSE p + 1, n)
         /\ \A k \in Nat : FromOpcode(F, x, m, p, n)[2] <= k =>
              FromOpcode(F, x, m, p, k) = FromOpcode(F, x, m, p, n)
<1> DEFINE b == F[p + 1]
           rest(c) == IF TakesModrm(b) THEN FromModrm(F, b, x, m, p + 1, c)
                      ELSE FromDisplacement(b, 0, 0, x, m, p + 1, c)
<1>1. \A c \in Nat :
        FromOpcode(F, x, m, p, c) =
          IF p >= MaxInstructionSize THEN <<"INVALID", 0>>
          ELSE IF p >= c THEN <<"TRUNCATED", 0>>
          ELSE IF IsRex2(b, m) THEN <<Rex2Status(x, p, c), 0>>
          ELSE IF b \in HandedOn THEN <<"HANDED_ON", 0>>
          ELSE IF Refused(b, m) THEN <<"INVALID", 0>>
          ELSE rest(c)
  BY DEF FromOpcode
<1> HIDE DEF b
<1>2. Rex2Status(x, p, n) # "OK"
  BY DEF Rex2Status
<1>3. /\ ~(p >= MaxInstructionSize) /\ ~(p >= n) /\ ~IsRex2(b, m)
      /\ b \notin HandedOn /\ ~Refused(b, m)
  BY <1>1, <1>2
<1>4. FromOpcode(F, x, m, p, n) = rest(n) /\ rest(n)[1] = "OK"
  BY <1>1, <1>3
<1>5. p + 1 <= n
  BY <1>3
<1>6. /\ Enough(rest(n), IF TakesModrm(b) THEN p + 2 ELSE p + 1, n)
      /\ \A k \in Nat : rest(n)[2] <= k => rest(k) = rest(n)
  <2>1. CASE TakesModrm(b)
    <3>1. p + 1 + 1 = p + 2
      OBVIOUS
    <3> QED
      BY <1>4, <1>5, <2>1, <3>1, ModrmEnough
  <2>2. CASE ~TakesModrm(b)
    BY <1>4, <1>5, <2>2, DisplacementEnough
  <2> QED
    BY <2>1, <2>2
<1> HIDE DEF rest
<1>7. ASSUME NEW k \in Nat, rest(n)[2] <= k
      PROVE  FromOpcode(F, x, m, p, k) = rest(n)
  <2>1. ~(p >= k)
    BY <1>4, <1>6, <1>7 DEF Enough
  <2> QED
    BY <1>1, <1>3, <1>6, <1>7, <2>1
<1> QED
  BY <1>3, <1>4, <1>6, <1>7, CursorAssumption DEF b

-----------------------------------------------------------------------------
(* The prefixes of a stream.                                               *)

\* The bytes that steer the prefix loop are apart, in every mode.
LEMMA BytesApart ==
  ASSUME NEW m
  PROVE  /\ \A b \in X87 : ~PrefixIn(b, m) /\ TakesModrm(b)
         /\ ~PrefixIn(Fwait, m) /\ ~IsRex2(Fwait, m) /\ Fwait \notin HandedOn
         /\ ~Refused(Fwait, m) /\ ~TakesModrm(Fwait) /\ Fwait \notin Moffs
BY DEF X87, PrefixIn, Legacy, Segments, IsRex, IsRex2, HandedOn, Refused,
       RefusedIn64, TakesModrm, Fwait, Moffs, Alu, AluRows, Group1

\* The last byte of a class is one byte.
LEMMA LastUnique ==
  ASSUME NEW F \in Streams, NEW w \in BOOLEAN, NEW p \in Nat, NEW class,
         0 \notin class, NEW u, NEW v,
         LastOf(F, w, p, class, u), LastOf(F, w, p, class, v)
  PROVE  u = v
<1>1. CASE ~Has(F, w, p, class)
  BY <1>1 DEF LastOf, Has
<1>2. CASE Has(F, w, p, class)
  <2>1. PICK i \in First(w)..p : /\ u = F[i] /\ F[i] \in class
                                 /\ \A j \in First(w)..p : j > i => F[j] \notin class
    BY <1>2 DEF LastOf
  <2>2. PICK k \in First(w)..p : /\ v = F[k] /\ F[k] \in class
                                 /\ \A j \in First(w)..p : j > k => F[j] \notin class
    BY <1>2 DEF LastOf
  <2>3. ~(i > k) /\ ~(k > i)
    BY <2>1, <2>2
  <2> QED
    BY <2>1, <2>2, <2>3 DEF First
<1> QED
  BY <1>1, <1>2

\* The prefixes say one thing.
LEMMA SaysUnique ==
  ASSUME NEW F \in Streams, NEW m, NEW w \in BOOLEAN, NEW p \in Nat, NEW x, NEW y,
         Says(F, m, w, p, x), Says(F, m, w, p, y)
  PROVE  x = y
<1>1. x.repeat = y.repeat /\ x.segment = y.segment
  <2>1. 0 \notin {\hF2, \hF3} /\ 0 \notin Segments
    BY DEF Segments
  <2>2. /\ LastOf(F, w, p, {\hF2, \hF3}, x.repeat)
        /\ LastOf(F, w, p, {\hF2, \hF3}, y.repeat)
        /\ LastOf(F, w, p, Segments, x.segment)
        /\ LastOf(F, w, p, Segments, y.segment)
    BY DEF Says
  <2>3. x.repeat = y.repeat
    BY <2>1, <2>2, LastUnique, ZenonT(60)
  <2>4. x.segment = y.segment
    BY <2>1, <2>2, LastUnique
  <2> QED
    BY <2>3, <2>4
<1>2. x.wait = y.wait /\ x.lock = y.lock /\ x.operand = y.operand
  BY Zenon DEF Says
<1>3. x.address = y.address /\ x.rex = y.rex
  BY Zenon DEF Says
<1>4. x \in Prefixes /\ y \in Prefixes
  BY DEF Says
<1> QED
  BY <1>1, <1>2, <1>3, <1>4 DEF Prefixes

\* They end in one place, which more bytes do not move.
LEMMA StopsUnique ==
  ASSUME NEW F \in Streams, NEW m, NEW w \in BOOLEAN, NEW p, NEW q,
         NEW n \in Nat, NEW k \in Nat, n <= k, NEW x, NEW y,
         Stops(F, m, w, p, n, x), Stops(F, m, w, q, k, y),
         p < n \/ p >= MaxInstructionSize
  PROVE  p = q /\ x = y
<1>1. /\ p \in Nat /\ q \in Nat /\ p <= n /\ q <= k /\ First(w) \in {1, 2}
      /\ p + 1 >= First(w) /\ q + 1 >= First(w)
      /\ p <= MaxInstructionSize /\ q <= MaxInstructionSize
  BY DEF Stops, First
<1>2. ~(q < p)
  <2> SUFFICES ASSUME q < p
               PROVE  FALSE
    OBVIOUS
  <2>1. q < k /\ q < MaxInstructionSize /\ q + 1 \in First(w)..p
    BY <1>1, CursorAssumption
  <2>2. ~PrefixIn(F[q + 1], m)
    BY <2>1 DEF Stops
  <2>3. PrefixIn(F[q + 1], m)
    BY <2>1 DEF Stops, Run
  <2> QED
    BY <2>2, <2>3
<1>3. ~(p < q)
  <2> SUFFICES ASSUME p < q
               PROVE  FALSE
    OBVIOUS
  <2>1. p < n /\ p < MaxInstructionSize /\ p + 1 \in First(w)..q
    BY <1>1, CursorAssumption
  <2>2. ~PrefixIn(F[p + 1], m)
    BY <2>1 DEF Stops
  <2>3. PrefixIn(F[p + 1], m)
    BY <2>1 DEF Stops, Run
  <2> QED
    BY <2>2, <2>3
<1>4. p = q
  BY <1>1, <1>2, <1>3
<1> QED
  BY <1>1, <1>4, SaysUnique DEF Stops

LEMMA WaitsMonotone ==
  ASSUME NEW F, NEW m, NEW n \in Nat, NEW k \in Nat, n <= k, Waits(F, m, n)
  PROVE  Waits(F, m, k)
BY DEF Waits

\* A FWAIT that is not fused is an instruction of one byte.
LEMMA LoneWait ==
  ASSUME NEW F \in Streams, NEW m, NEW p, NEW n \in Nat \ {0}, NEW x,
         F[1] = Fwait, Stops(F, m, FALSE, p, n, x)
  PROVE  FromOpcode(F, x, m, p, n) = <<"OK", 1>>
<1>1. p = 0
  <2> SUFFICES ASSUME p # 0
               PROVE  FALSE
    OBVIOUS
  <2>1. 1 \in First(FALSE)..p
    BY DEF Stops, First
  <2> QED
    BY <2>1, BytesApart DEF Stops, Run
<1>2. x.lock = FALSE
  BY <1>1 DEF Stops, Says, Has, First
<1>3. FromOpcode(F, x, m, p, n) = FromDisplacement(Fwait, 0, 0, x, m, 1, n)
  BY <1>1, BytesApart, CursorAssumption DEF FromOpcode
<1>4. DisplacementOf(Fwait, 0, 0, x, m) = 0
  BY BytesApart DEF DisplacementOf, DisplacementBytes
<1>5. Req(0, 1, n) = "OK"
  BY CursorAssumption DEF Req
<1>6. JudgedAs(Fwait, 0, x) = "OK"
  BY BytesApart DEF JudgedAs
<1>7. ImmediatesOf(Fwait, 0, x, m) = <<>>
  <2>1. /\ Fwait \notin ByteImmediate /\ Fwait \notin SizedImmediate
        /\ Fwait \notin \hB8..\hBF
        /\ Fwait \notin {\hF6, \hF7, \h68, \hE8, \hE9, \h9A, \hEA, \hC2, \hCA, \hC8}
    BY DEF Fwait, ByteImmediate, SizedImmediate, Alu, AluRows
  <2> QED
    BY <2>1, Zenon DEF ImmediatesOf, Immediates
<1>8. FromDisplacement(Fwait, 0, 0, x, m, 1, n)
        = FromImmediates(Fwait, 0, x, <<>>, 0, 1 + 0, n)
  BY <1>4, <1>5, <1>6, <1>7 DEF FromDisplacement
<1>9. FromImmediates(Fwait, 0, x, <<>>, 0, 1 + 0, n) = <<"OK", 1>>
  BY <1>2 DEF FromImmediates, Ended
<1> QED
  BY <1>3, <1>8, <1>9

\* A caller may act on any answer but TRUNCATED: more bytes change it only where
\* a lone FWAIT is fused with what they bring.
LEMMA MeansStable ==
  ASSUME NEW F \in Streams, NEW m, NEW n \in Nat \ {0}, NEW k \in Nat, n <= k,
         NEW u, NEW v, Means(F, m, n, u), Means(F, m, k, v), u[1] # "TRUNCATED"
  PROVE  u = v \/ (Waits(F, m, k) /\ ~Waits(F, m, n) /\ u = <<"OK", 1>>)
<1>1. PICK p \in Nat, x \in Prefixes :
        Stops(F, m, Waits(F, m, n), p, n, x) /\ u = FromOpcode(F, x, m, p, n)
  BY DEF Means
<1>2. PICK q \in Nat, y \in Prefixes :
        Stops(F, m, Waits(F, m, k), q, k, y) /\ v = FromOpcode(F, y, m, q, k)
  BY DEF Means
<1>3. CASE Waits(F, m, n) = Waits(F, m, k)
  <2>1. p < n \/ p >= MaxInstructionSize
    BY <1>1, CursorAssumption DEF FromOpcode
  <2>2. Waits(F, m, n) \in BOOLEAN
    BY DEF Waits
  <2>3. p = q /\ x = y
    BY <1>1, <1>2, <1>3, <2>1, <2>2, StopsUnique
  <2>4. FromOpcode(F, x, m, p, k) = FromOpcode(F, x, m, p, n)
    BY <1>1, OpcodeStable
  <2> QED
    BY <1>1, <1>2, <2>3, <2>4
<1>4. CASE Waits(F, m, n) # Waits(F, m, k)
  <2>1. ~Waits(F, m, n) /\ Waits(F, m, k)
    BY <1>4, WaitsMonotone DEF Waits
  <2>2. F[1] = Fwait
    BY <2>1 DEF Waits
  <2>3. Stops(F, m, FALSE, p, n, x)
    <3>1. Waits(F, m, n) = FALSE
      BY <2>1 DEF Waits
    <3> QED
      BY <1>1, <3>1
  <2>4. u = <<"OK", 1>>
    BY <1>1, <2>2, <2>3, LoneWait
  <2> QED
    BY <2>1, <2>4
<1> QED
  BY <1>3, <1>4

\* An instruction ends in the buffer, and every buffer that has all of it is
\* answered with it.
LEMMA MeansEnough ==
  ASSUME NEW F \in Streams, NEW m, NEW n \in Nat, NEW length,
         Means(F, m, n, <<"OK", length>>)
  PROVE  /\ length \in 1..n
         /\ \A k \in length..n : Means(F, m, k, <<"OK", length>>)
<1> DEFINE w == Waits(F, m, n)
           v == <<"OK", length>>
<1>1. PICK p \in Nat, x \in Prefixes :
        Stops(F, m, w, p, n, x) /\ v = FromOpcode(F, x, m, p, n)
  BY DEF Means
<1>2. /\ p < n /\ p < MaxInstructionSize
      /\ Enough(v, IF TakesModrm(F[p + 1]) THEN p + 2 ELSE p + 1, n)
      /\ \A k \in Nat : length <= k => FromOpcode(F, x, m, p, k) = v
  BY <1>1, OpcodeEnough
<1>3. length \in Nat /\ p + 1 <= length /\ length <= n
      /\ (TakesModrm(F[p + 1]) => p + 2 <= length)
  BY <1>2 DEF Enough
<1>4. ASSUME NEW k \in length..n
      PROVE  Waits(F, m, k) = w
  <2>1. Waits(F, m, k) => w
    BY <1>3, WaitsMonotone
  <2>2. ASSUME w
        PROVE  Waits(F, m, k)
    <3>1. PICK j \in Nat : /\ j >= 2 /\ j + 1 <= n /\ j + 1 <= MaxInstructionSize
                           /\ \A i \in 2..(j - 1) : PrefixIn(F[i], m)
                           /\ F[j] \in X87 /\ X87Waits(F[j], F[j + 1])
      BY <2>2 DEF Waits
    <3>2. /\ \A i \in 2..p : PrefixIn(F[i], m)
          /\ ~PrefixIn(F[p + 1], m)
          /\ p >= 1
      BY <1>1, <1>2, <2>2 DEF Stops, Run, First
    <3>3. ~(j <= p)
      BY <3>1, <3>2, BytesApart
    <3>4. ~(p + 1 <= j - 1)
      BY <3>1, <3>2
    <3>5. j = p + 1
      BY <3>1, <3>3, <3>4
    <3>6. j + 1 <= k
      BY <1>3, <3>1, <3>5, BytesApart
    <3> QED
      BY <2>2, <3>1, <3>6 DEF Waits
  <2>3. w \in BOOLEAN /\ Waits(F, m, k) \in BOOLEAN
    BY DEF Waits
  <2> QED
    BY <2>1, <2>2, <2>3
<1>5. ASSUME NEW k \in length..n
      PROVE  Means(F, m, k, v)
  <2>1. Stops(F, m, w, p, k, x)
    BY <1>1, <1>2, <1>3 DEF Stops
  <2> QED
    BY <1>2, <1>3, <1>4, <2>1 DEF Means
<1> QED
  BY <1>3, <1>5

-----------------------------------------------------------------------------
(* The call that is under way follows these functions, on every stream     *)
(* that agrees with the tape.                                              *)

Scanning == {"wait", "alias"}
Fields1 == {"modrm", "sib", "displacement", "immediates"}

\* What the call will answer, from where it is.
Due(F) ==
  CASE pc = "modrm" -> FromModrm(F, opcode, prefix, mode, position, codeSize)
    [] pc = "sib" ->
         FromSib(F, opcode, encoding.modrm, prefix, mode, position, codeSize)
    [] pc = "displacement" ->
         FromDisplacement(opcode, encoding.modrm, encoding.sib, prefix, mode,
                          position, codeSize)
    [] pc = "immediates" ->
         FromImmediates(opcode, encoding.modrm, prefix,
                        ImmediatesOf(opcode, encoding.modrm, prefix, mode),
                        Taken, position, codeSize)
    [] OTHER -> <<answer.status, answer.length>>

\* The look-ahead behind a FWAIT.
FollowsScan(F) ==
  /\ pc = "wait" => position = 0 \/ (F[1] = Fwait /\ Run(F, mode, TRUE, position))
  /\ pc = "alias" => /\ position >= 2 /\ F[1] = Fwait
                     /\ Run(F, mode, TRUE, position - 1)
                     /\ F[position] \in X87
  /\ pc \in Scanning => prefix = NoPrefix

FollowsPrefixes(F) ==
  pc = "prefixes" =>
    /\ prefix.wait = Waits(F, mode, codeSize)
    /\ position + 1 >= First(prefix.wait)
    /\ Run(F, mode, prefix.wait, position)
    /\ Says(F, mode, prefix.wait, position, prefix)

FollowsFields(F) ==
  pc \in Fields1 \/ Answered =>
    /\ prefix.wait = Waits(F, mode, codeSize)
    /\ Means(F, mode, codeSize, Due(F))

\* What does not depend on the stream.
Started ==
  /\ pc # "idle" => codeSize > 0
  /\ pc \in Scanning \cup {"prefixes", "modrm", "sib"} => position <= Len(tape)
  /\ pc \in Scanning \cup {"prefixes"} => encoding = NoEncoding
  /\ pc = "modrm" => encoding.sib = 0
  /\ pc \in {"modrm", "sib", "displacement"} => encoding.immediates = <<>>

Follows(F) == FollowsScan(F) /\ FollowsPrefixes(F) /\ FollowsFields(F)

CursorFollows == Started /\ \A F \in Streams : Agrees(F) => Follows(F)

\* A stream that agrees with the tape agreed with it before, and has the byte
\* that was looked at.
LEMMA LookedAt ==
  ASSUME TypeOK, NEW kind \in Kinds, NEW b \in Ahead(kind), LookAt(b),
         position <= Len(tape), NEW F \in Streams, Agrees(F)'
  PROVE  /\ Agrees(F)
         /\ F[position + 1] = b
         /\ position + 1 <= Len(tape')
<1>1. /\ Len(tape') >= Len(tape)
      /\ \A i \in 1..Len(tape) : tape'[i] = tape[i]
      /\ position + 1 <= Len(tape') /\ tape'[position + 1] = b
  BY TapeGrows
<1>2. tape' \in Seq(Byte)
  BY AheadIsByte, LookAtTypes DEF TypeOK
<1>3. position \in Nat /\ Len(tape) \in Nat /\ Len(tape') \in Nat
  BY <1>2, CursorAssumption DEF TypeOK, Sizes
<1>4. \A i \in 1..Len(tape') : F[i] = tape'[i]
  BY DEF Agrees
<1>5. \A i \in 1..Len(tape) : F[i] = tape[i]
  BY <1>1, <1>3, <1>4
<1> QED
  BY <1>1, <1>3, <1>4, <1>5 DEF Agrees

LEMMA StillAgrees ==
  ASSUME NEW F \in Streams, Agrees(F)', tape' = tape
  PROVE  Agrees(F)
BY DEF Agrees

\* A call that ends with what it means follows.
LEMMA ReturnFollows ==
  ASSUME NEW F, NEW status, Return(status),
         prefix'.wait = Waits(F, mode', codeSize'),
         Means(F, mode', codeSize',
               <<status, IF status = "OK" THEN position ELSE 0>>)
  PROVE  Follows(F)'
<1>1. pc' = "idle"
  BY DEF Return
<1>2. Due(F)' = <<status, IF status = "OK" THEN position ELSE 0>>
  <2>1. Due(F)' = <<answer'.status, answer'.length>>
    BY <1>1 DEF Due
  <2> QED
    BY <2>1 DEF Return
<1> QED
  BY <1>1, <1>2
  DEF Follows, FollowsScan, FollowsPrefixes, FollowsFields, Scanning, Fields1

LEMMA InitFollows == Init => CursorFollows
BY DEF Init, CursorFollows, Started, Follows, FollowsScan, FollowsPrefixes,
       FollowsFields, Scanning, Fields1, Answered

LEMMA CallFollows ==
  ASSUME TypeOK, Call
  PROVE  CursorFollows'
<1>1. /\ pc' = "wait" /\ position' = 0 /\ prefix' = NoPrefix
      /\ encoding' = NoEncoding /\ codeSize' = codeSize + 1 /\ tape' = tape
  BY DEF Call, stream
<1>2. Started'
  BY <1>1 DEF Started, Scanning, TypeOK
<1>3. \A F \in Streams : Follows(F)'
  BY <1>1 DEF Follows, FollowsScan, FollowsPrefixes, FollowsFields, Scanning,
              Fields1, Answered
<1> QED
  BY <1>2, <1>3 DEF CursorFollows

\* Without a prefix byte the prefixes say nothing.
LEMMA NothingSaid ==
  ASSUME NEW F, NEW m
  PROVE  /\ Run(F, m, FALSE, 0) /\ Says(F, m, FALSE, 0, NoPrefix)
         /\ Run(F, m, TRUE, 1)
         /\ Says(F, m, TRUE, 1, [NoPrefix EXCEPT !.wait = TRUE])
<1>1. First(FALSE)..0 = {} /\ First(TRUE)..1 = {}
  BY DEF First
<1>2. NoPrefix \in Prefixes /\ [NoPrefix EXCEPT !.wait = TRUE] \in Prefixes
  BY DEF NoPrefix, Prefixes
<1>3. Run(F, m, FALSE, 0) /\ Run(F, m, TRUE, 1)
  BY <1>1 DEF Run
<1>4. \A class : ~Has(F, FALSE, 0, class) /\ ~Has(F, TRUE, 1, class)
  BY <1>1 DEF Has
<1>5. \A class : LastOf(F, FALSE, 0, class, 0) /\ LastOf(F, TRUE, 1, class, 0)
  BY <1>4 DEF LastOf
<1>6. \A class : /\ Has(F, FALSE, 0, class) = FALSE
                  /\ Has(F, TRUE, 1, class) = FALSE
  BY <1>4 DEF Has
<1>7. ~(0 >= First(FALSE)) /\ ~(1 >= First(TRUE))
  BY DEF First
<1>8. ASSUME NEW x \in {NoPrefix, [NoPrefix EXCEPT !.wait = TRUE]}
      PROVE  /\ x.lock = FALSE /\ x.operand = FALSE /\ x.address = FALSE
             /\ x.repeat = 0 /\ x.segment = 0 /\ x.rex = 0
  BY DEF NoPrefix
<1>9. /\ NoPrefix.wait = FALSE
      /\ [NoPrefix EXCEPT !.wait = TRUE].wait = TRUE
  BY DEF NoPrefix
<1>10. Says(F, m, FALSE, 0, NoPrefix)
  BY <1>2, <1>5, <1>6, <1>7, <1>8, <1>9, ZenonT(60) DEF Says
<1>11. Says(F, m, TRUE, 1, [NoPrefix EXCEPT !.wait = TRUE])
  BY <1>2, <1>5, <1>6, <1>7, <1>8, <1>9, ZenonT(60) DEF Says
<1> QED
  BY <1>3, <1>10, <1>11

\* The look-ahead gives up, with a reason.
LEMMA NoAliasFollows ==
  ASSUME TypeOK, Started, pc \in Scanning, NoAlias, mode' = mode,
         codeSize' = codeSize, encoding' = encoding,
         NEW F, prefix = NoPrefix, ~Waits(F, mode, codeSize)
  PROVE  Follows(F)'
<1>1. pc' = "prefixes" /\ position' = 0 /\ prefix' = NoPrefix
  BY DEF NoAlias, Goto
<1>2. prefix'.wait = FALSE /\ Waits(F, mode, codeSize) = FALSE
  BY <1>1 DEF NoPrefix, Waits
<1>3. prefix'.wait = Waits(F, mode', codeSize')
  BY <1>2
<1>4. position' + 1 >= First(prefix'.wait)
  BY <1>1, <1>2 DEF First
<1>5. /\ Run(F, mode', FALSE, 0)
      /\ Says(F, mode', FALSE, 0, NoPrefix)
  BY NothingSaid
<1>6. /\ Run(F, mode', prefix'.wait, position')
      /\ Says(F, mode', prefix'.wait, position', prefix')
  BY <1>1, <1>2, <1>5, Zenon
<1>7. FollowsPrefixes(F)'
  BY <1>3, <1>4, <1>6 DEF FollowsPrefixes
<1> QED
  BY <1>1, <1>7 DEF Follows, FollowsScan, FollowsFields, Scanning, Fields1, Answered

\* There is nothing to fuse where the look-ahead stops.
LEMMA NoWaits ==
  ASSUME NEW F \in Streams, NEW m, NEW n \in Nat, NEW p \in Nat,
         F[1] # Fwait \/ (p >= 1 /\ Run(F, m, TRUE, p)),
         F[1] = Fwait =>
           \/ p + 1 >= n \/ p + 1 >= MaxInstructionSize
           \/ ~PrefixIn(F[p + 1], m)
              /\ (F[p + 1] \notin X87 \/ ~X87Waits(F[p + 1], F[p + 2]))
  PROVE  ~Waits(F, m, n)
<1> SUFFICES ASSUME Waits(F, m, n)
             PROVE  FALSE
  OBVIOUS
<1>1. PICK k \in Nat : /\ k >= 2 /\ k + 1 <= n /\ k + 1 <= MaxInstructionSize
                       /\ \A i \in 2..(k - 1) : PrefixIn(F[i], m)
                       /\ F[k] \in X87 /\ X87Waits(F[k], F[k + 1])
  BY DEF Waits
<1>2. F[1] = Fwait
  BY DEF Waits
<1>3. p >= 1 /\ \A i \in 2..p : PrefixIn(F[i], m)
  BY <1>2 DEF Run, First
<1>4. ~(k <= p)
  BY <1>1, <1>3, BytesApart
<1>5. p + 1 <= k /\ p + 1 < n /\ p + 1 < MaxInstructionSize
  BY <1>1, <1>4, CursorAssumption
<1>6. CASE k = p + 1
  <2>1. k + 1 = p + 2
    BY <1>6
  <2> QED
    BY <1>1, <1>2, <1>5, <1>6, <2>1, CursorAssumption
<1>7. CASE p + 1 < k
  <2>1. p + 1 \in 2..(k - 1)
    BY <1>1, <1>3, <1>7
  <2>2. PrefixIn(F[p + 1], m)
    BY <1>1, <2>1
  <2> QED
    BY <1>2, <1>5, <2>2, CursorAssumption
<1> QED
  BY <1>1, <1>5, <1>6, <1>7

-----------------------------------------------------------------------------
(* CursorFollows, action by action.                                        *)

\* The reads of the state are those of the functions.
LEMMA Links ==
  /\ \A count : Require(count) = Req(count, position, codeSize)
  /\ \A b : IsPrefix(b) <=> PrefixIn(b, mode)
  /\ \A b : Peeked(b) = PeekedAs(opcode, b, position, codeSize)
  /\ Peeks <=> PeeksAt(opcode, position, codeSize)
  /\ displacement = DisplacementOf(opcode, encoding.modrm, encoding.sib, prefix, mode)
  /\ Judged = JudgedAs(opcode, encoding.modrm, prefix)
  /\ immediates = ImmediatesOf(opcode, encoding.modrm, prefix, mode)
<1>1. \A count : Require(count) = Req(count, position, codeSize)
  BY DEF Require, Req
<1>2. \A b : IsPrefix(b) <=> PrefixIn(b, mode)
  BY DEF IsPrefix, PrefixIn
<1>3. \A b : Peeked(b) = PeekedAs(opcode, b, position, codeSize)
  BY <1>1 DEF Peeked, PeekedAs
<1>4. Peeks <=> PeeksAt(opcode, position, codeSize)
  BY DEF Peeks, PeeksAt
<1>5. displacement = DisplacementOf(opcode, encoding.modrm, encoding.sib, prefix, mode)
  BY DEF displacement, DisplacementOf, addrBits
<1>6. Judged = JudgedAs(opcode, encoding.modrm, prefix)
  BY DEF Judged, JudgedAs
<1>7. immediates = ImmediatesOf(opcode, encoding.modrm, prefix, mode)
  BY DEF immediates, ImmediatesOf, opBits
<1> QED
  BY <1>1, <1>2, <1>3, <1>4, <1>5, <1>6, <1>7

\* One prefix byte more.
LEMMA RunOn ==
  ASSUME NEW F, NEW m, NEW w \in BOOLEAN, NEW p \in Nat,
         p + 1 < First(w) \/ Run(F, m, w, p), PrefixIn(F[p + 1], m)
  PROVE  Run(F, m, w, p + 1)
BY DEF Run, First

LEMMA WaitScanned ==
  ASSUME NEW F, FollowsScan(F), pc = "wait"
  PROVE  /\ position # 0 => F[1] = Fwait /\ Run(F, mode, TRUE, position)
         /\ prefix = NoPrefix
<1>1. "wait" \in Scanning
  BY DEF Scanning
<1> QED
  BY <1>1, Zenon DEF FollowsScan

LEMMA ScanForWaitFollows ==
  ASSUME TypeOK, TypeOK', CursorFollows, ScanForWait
  PROVE  CursorFollows'
<1>1. /\ pc = "wait" /\ mode' = mode /\ codeSize' = codeSize
      /\ encoding' = encoding /\ encoding = NoEncoding
      /\ codeSize > 0 /\ position <= Len(tape)
  BY DEF ScanForWait, CursorFollows, Started, Scanning
<1>2. /\ position \in Nat /\ codeSize \in Nat /\ Len(tape) \in Nat
      /\ Len(tape') \in Nat /\ MaxInstructionSize \in Nat \ {0}
  BY CursorAssumption DEF TypeOK, Sizes
<1>3. CASE ~InBuffer /\ NoAlias /\ UNCHANGED tape
  <2>1. Started'
    BY <1>1, <1>2, <1>3 DEF Started, NoAlias, Goto, Scanning
  <2>2. ASSUME NEW F \in Streams, Agrees(F)'
        PROVE  Follows(F)'
    <3>1. Agrees(F)
      BY <1>3, <2>2 DEF Agrees
    <3>2. FollowsScan(F)
      BY <3>1 DEF CursorFollows, Follows
    <3>3. position >= codeSize \/ position >= MaxInstructionSize
      BY <1>2, <1>3 DEF InBuffer
    <3>4. position >= 1 /\ F[1] = Fwait /\ Run(F, mode, TRUE, position)
      <4>1. position # 0 /\ position >= 1
        BY <1>1, <1>2, <3>3
      <4> QED
        BY <1>1, <3>2, <4>1, WaitScanned, Zenon
    <3>5. position + 1 >= codeSize \/ position + 1 >= MaxInstructionSize
      BY <1>2, <3>3
    <3>6. ~Waits(F, mode, codeSize)
      BY <1>2, <3>4, <3>5, NoWaits
    <3> QED
      BY <1>1, <1>3, <3>2, <3>6, NoAliasFollows
      DEF CursorFollows, FollowsScan, Scanning
  <2> QED
    BY <2>1, <2>2 DEF CursorFollows
<1>4. ASSUME NEW b \in Ahead("opcode"),
             CASE position = 0 /\ b = Fwait -> ScanPast(b, "wait")
               [] position > 0 /\ IsPrefix(b) -> ScanPast(b, "wait")
               [] position > 0 /\ b \in X87 -> ScanPast(b, "alias")
               [] OTHER -> LookAt(b) /\ NoAlias
      PROVE  CursorFollows'
  <2>1. \/ ScanPast(b, "wait") /\ position = 0 /\ b = Fwait
        \/ ScanPast(b, "wait") /\ position > 0 /\ IsPrefix(b)
        \/ ScanPast(b, "alias") /\ position > 0 /\ b \in X87
        \/ /\ LookAt(b) /\ NoAlias
           /\ ~(position = 0 /\ b = Fwait)
           /\ ~(position > 0 /\ IsPrefix(b)) /\ ~(position > 0 /\ b \in X87)
    BY <1>4, Zenon
  <2>2. LookAt(b) /\ "opcode" \in Kinds
    BY <2>1 DEF ScanPast, Kinds
  <2>3. ASSUME NEW F \in Streams, Agrees(F)'
        PROVE  /\ F[position + 1] = b
               /\ FollowsScan(F)
    BY <1>1, <2>2, <2>3, LookedAt DEF CursorFollows, Follows
  <2>4. position + 1 <= Len(tape')
    BY <1>1, <1>2, <2>2, TapeGrows
  <2>5. CASE ScanPast(b, "wait")
    <3>1. /\ pc' = "wait" /\ position' = position + 1 /\ prefix' = prefix
      BY <2>5 DEF ScanPast, Goto
    <3>2. Started'
      BY <1>1, <2>4, <3>1 DEF Started, Scanning
    <3>3. ASSUME NEW F \in Streams, Agrees(F)'
          PROVE  Follows(F)'
      <4>1. F[position + 1] = b /\ FollowsScan(F)
        BY <2>3, <3>3
      <4>2. F[1] = Fwait /\ Run(F, mode, TRUE, position + 1)
        <5>1. CASE position = 0
          <6>1. b = Fwait
            BY <2>1, <2>5, <5>1 DEF ScanPast, NoAlias, Goto
          <6>2. position + 1 = 1
            BY <5>1
          <6>3. Run(F, mode, TRUE, 1)
            BY NothingSaid
          <6> QED
            BY <4>1, <6>1, <6>2, <6>3, Zenon
        <5>2. CASE position # 0
          <6>1. IsPrefix(b)
            BY <1>2, <2>1, <2>5, <5>2 DEF ScanPast, Goto, NoAlias
          <6>2. F[1] = Fwait /\ Run(F, mode, TRUE, position)
            BY <1>1, <4>1, <5>2, WaitScanned, Zenon
          <6>3. PrefixIn(F[position + 1], mode)
            BY <4>1, <6>1, Links
          <6> QED
            BY <1>2, <6>2, <6>3, RunOn
        <5> QED
          BY <5>1, <5>2
      <4>3. prefix' = NoPrefix
        BY <1>1, <3>1, <4>1 DEF FollowsScan, Scanning
      <4>4. FollowsScan(F)'
        BY <1>1, <3>1, <4>2, <4>3 DEF FollowsScan
      <4> QED
        BY <3>1, <4>4
        DEF Follows, FollowsPrefixes, FollowsFields, Fields1, Answered
    <3> QED
      BY <3>2, <3>3 DEF CursorFollows
  <2>6. CASE ScanPast(b, "alias") /\ position > 0 /\ b \in X87
    <3>1. /\ pc' = "alias" /\ position' = position + 1 /\ prefix' = prefix
      BY <2>6 DEF ScanPast, Goto
    <3>2. Started'
      BY <1>1, <2>4, <3>1 DEF Started, Scanning
    <3>3. ASSUME NEW F \in Streams, Agrees(F)'
          PROVE  Follows(F)'
      <4>1. F[position + 1] = b /\ FollowsScan(F)
        BY <2>3, <3>3
      <4>2. F[1] = Fwait /\ Run(F, mode, TRUE, position) /\ prefix' = NoPrefix
        <5>1. position # 0
          BY <2>6
        <5> QED
          BY <1>1, <3>1, <4>1, <5>1, WaitScanned, Zenon
      <4>3. position' - 1 = position /\ position' >= 2
        BY <1>2, <2>6, <3>1
      <4>4. FollowsScan(F)'
        BY <1>1, <2>6, <3>1, <4>1, <4>2, <4>3 DEF FollowsScan
      <4> QED
        BY <3>1, <4>4
        DEF Follows, FollowsPrefixes, FollowsFields, Fields1, Answered
    <3> QED
      BY <3>2, <3>3 DEF CursorFollows
  <2>7. CASE /\ NoAlias /\ ~(position = 0 /\ b = Fwait)
             /\ ~(position > 0 /\ IsPrefix(b)) /\ ~(position > 0 /\ b \in X87)
    <3>1. Started'
      BY <1>1, <1>2, <2>7 DEF Started, NoAlias, Goto, Scanning
    <3>2. ASSUME NEW F \in Streams, Agrees(F)'
          PROVE  Follows(F)'
      <4>1. F[position + 1] = b /\ FollowsScan(F)
        BY <2>3, <3>2
      <4>2. CASE position = 0
        <5>1. F[1] # Fwait
          BY <2>7, <4>1, <4>2
        <5>2. ~Waits(F, mode, codeSize)
          BY <5>1 DEF Waits
        <5> QED
          BY <1>1, <2>7, <4>1, <5>2, NoAliasFollows
          DEF CursorFollows, FollowsScan, Scanning
      <4>3. CASE position # 0
        <5>1. position >= 1 /\ F[1] = Fwait /\ Run(F, mode, TRUE, position)
          <6>1. position >= 1
            BY <1>2, <4>3
          <6> QED
            BY <1>1, <4>1, <4>3, <6>1, WaitScanned, Zenon
        <5>2. ~PrefixIn(F[position + 1], mode) /\ F[position + 1] \notin X87
          BY <1>2, <2>7, <4>1, <4>3, Links
        <5>3. ~Waits(F, mode, codeSize)
          BY <1>2, <5>1, <5>2, NoWaits
        <5> QED
          BY <1>1, <2>7, <4>1, <5>3, NoAliasFollows
          DEF CursorFollows, FollowsScan, Scanning
      <4> QED
        BY <4>2, <4>3
    <3> QED
      BY <3>1, <3>2 DEF CursorFollows
  <2> QED
    BY <2>1, <2>5, <2>6, <2>7
<1> QED
  BY <1>3, <1>4, Zenon DEF ScanForWait

LEMMA ScanForAliasFollows ==
  ASSUME TypeOK, TypeOK', CursorFollows, ScanForAlias
  PROVE  CursorFollows'
<1>1. /\ pc = "alias" /\ mode' = mode /\ codeSize' = codeSize
      /\ encoding' = encoding /\ encoding = NoEncoding
      /\ codeSize > 0 /\ position <= Len(tape)
  BY DEF ScanForAlias, CursorFollows, Started, Scanning
<1>2. /\ position \in Nat /\ codeSize \in Nat /\ Len(tape) \in Nat
      /\ Len(tape') \in Nat /\ MaxInstructionSize \in Nat \ {0}
  BY CursorAssumption DEF TypeOK, Sizes
<1>3. ASSUME NEW F \in Streams, FollowsScan(F)
      PROVE  /\ position >= 2 /\ F[1] = Fwait
             /\ Run(F, mode, TRUE, position - 1)
             /\ F[position] \in X87
             /\ ~PrefixIn(F[position], mode)
             /\ prefix = NoPrefix
  <2>1. pc \in Scanning
    BY <1>1 DEF Scanning
  <2> QED
    BY <1>1, <1>3, <2>1, BytesApart, Zenon DEF FollowsScan
<1>4. ASSUME NoAlias,
             NEW F \in Streams, FollowsScan(F),
             \/ position >= codeSize \/ position >= MaxInstructionSize
             \/ ~X87Waits(F[position], F[position + 1])
      PROVE  Follows(F)'
  <2> DEFINE p == position - 1
  <2>1. p \in Nat /\ p >= 1 /\ p + 1 = position /\ p + 2 = position + 1
    <3>1. position >= 2
      BY <1>3, <1>4, Zenon
    <3> QED
      BY <1>2, <3>1
  <2>2. /\ F[1] = Fwait /\ Run(F, mode, TRUE, p)
        /\ ~PrefixIn(F[p + 1], mode) /\ prefix = NoPrefix
    BY <1>3, <1>4, <2>1, Zenon
  <2>3. \/ p + 1 >= codeSize \/ p + 1 >= MaxInstructionSize
        \/ ~PrefixIn(F[p + 1], mode)
           /\ (F[p + 1] \notin X87 \/ ~X87Waits(F[p + 1], F[p + 2]))
    BY <1>4, <2>1, <2>2
  <2> HIDE DEF p
  <2>4. ~Waits(F, mode, codeSize)
    BY <1>2, <2>1, <2>2, <2>3, NoWaits
  <2> QED
    BY <1>1, <1>4, <2>2, <2>4, NoAliasFollows DEF CursorFollows, Scanning
<1>5. CASE ~InBuffer /\ NoAlias /\ UNCHANGED tape
  <2>1. Started'
    BY <1>1, <1>2, <1>5 DEF Started, NoAlias, Goto, Scanning
  <2>2. position >= codeSize \/ position >= MaxInstructionSize
    BY <1>2, <1>5 DEF InBuffer
  <2>3. ASSUME NEW F \in Streams, Agrees(F)'
        PROVE  Follows(F)'
    <3>1. FollowsScan(F)
      BY <1>5, <2>3, StillAgrees DEF CursorFollows, Follows
    <3> QED
      BY <1>4, <1>5, <2>2, <3>1
  <2> QED
    BY <2>1, <2>3 DEF CursorFollows
<1>6. ASSUME InBuffer, NEW b \in Ahead("modrm"), LookAt(b),
             IF X87Waits(tape[position], b)
             THEN /\ position' = 1
                  /\ prefix' = [prefix EXCEPT !.wait = TRUE]
                  /\ Goto("prefixes")
             ELSE NoAlias
      PROVE  CursorFollows'
  <2>1. position + 1 <= Len(tape')
    BY <1>1, <1>6, TapeGrows DEF Kinds
  <2>2. ASSUME NEW F \in Streams, Agrees(F)'
        PROVE  /\ F[position + 1] = b /\ FollowsScan(F)
               /\ F[position] = tape[position]
    <3>1. Agrees(F) /\ F[position + 1] = b
      BY <1>1, <1>6, <2>2, LookedAt DEF Kinds
    <3>2. FollowsScan(F)
      BY <3>1 DEF CursorFollows, Follows
    <3>3. position \in 1..Len(tape)
      <4>1. position >= 2
        BY <1>3, <3>2, Zenon
      <4> QED
        BY <1>1, <1>2, <4>1
    <3> QED
      BY <3>1, <3>2, <3>3 DEF Agrees
  <2>3. CASE X87Waits(tape[position], b)
    <3>1. /\ pc' = "prefixes" /\ position' = 1
          /\ prefix' = [prefix EXCEPT !.wait = TRUE]
      BY <1>6, <2>3 DEF Goto
    <3>2. Started'
      BY <1>1, <1>2, <2>1, <3>1 DEF Started, Scanning
    <3>3. ASSUME NEW F \in Streams, Agrees(F)'
          PROVE  Follows(F)'
      <4>1. /\ F[position + 1] = b /\ FollowsScan(F)
            /\ F[position] = tape[position]
        BY <2>2, <3>3
      <4>2. /\ position >= 2 /\ F[1] = Fwait
            /\ Run(F, mode, TRUE, position - 1)
            /\ F[position] \in X87 /\ prefix = NoPrefix
        BY <1>3, <4>1
      <4>3. \A i \in 2..(position - 1) : PrefixIn(F[i], mode)
        BY <4>2, Zenon DEF Run, First
      <4>4. Waits(F, mode, codeSize)
        BY <1>2, <1>6, <2>3, <4>1, <4>2, <4>3 DEF Waits, InBuffer
      <4>5. prefix'.wait = TRUE /\ Waits(F, mode', codeSize') = TRUE
        <5>1. Waits(F, mode, codeSize) = TRUE
          BY <4>4 DEF Waits
        <5> QED
          BY <1>1, <3>1, <4>2, <5>1 DEF NoPrefix
      <4>6. /\ Run(F, mode', TRUE, 1)
            /\ Says(F, mode', TRUE, 1, [NoPrefix EXCEPT !.wait = TRUE])
        BY NothingSaid
      <4>7. /\ Run(F, mode', prefix'.wait, position')
            /\ Says(F, mode', prefix'.wait, position', prefix')
        BY <3>1, <4>2, <4>5, <4>6, Zenon
      <4>8. position' + 1 >= First(prefix'.wait)
        BY <3>1, <4>5 DEF First
      <4>9. prefix'.wait = Waits(F, mode', codeSize')
        BY <4>5
      <4>10. FollowsPrefixes(F)'
        BY <4>7, <4>8, <4>9 DEF FollowsPrefixes
      <4> QED
        BY <3>1, <4>10
        DEF Follows, FollowsScan, FollowsFields, Scanning, Fields1, Answered
    <3> QED
      BY <3>2, <3>3 DEF CursorFollows
  <2>4. CASE ~X87Waits(tape[position], b)
    <3>1. NoAlias
      BY <1>6, <2>4
    <3>2. Started'
      BY <1>1, <1>2, <3>1 DEF Started, NoAlias, Goto, Scanning
    <3>3. ASSUME NEW F \in Streams, Agrees(F)'
          PROVE  Follows(F)'
      BY <1>4, <2>2, <2>4, <3>1, <3>3
    <3> QED
      BY <3>2, <3>3 DEF CursorFollows
  <2> QED
    BY <2>3, <2>4
<1> QED
  BY <1>5, <1>6 DEF ScanForAlias

\* What the prefixes say, where they end.
LEMMA StopsHere ==
  ASSUME TypeOK, pc = "prefixes", NEW F \in Streams, FollowsPrefixes(F),
         \/ position >= MaxInstructionSize \/ position >= codeSize
         \/ ~PrefixIn(F[position + 1], mode)
  PROVE  /\ prefix.wait = Waits(F, mode, codeSize)
         /\ Stops(F, mode, Waits(F, mode, codeSize), position, codeSize, prefix)
<1>1. /\ prefix.wait = Waits(F, mode, codeSize)
      /\ position + 1 >= First(prefix.wait)
      /\ Run(F, mode, prefix.wait, position)
      /\ Says(F, mode, prefix.wait, position, prefix)
  BY Zenon DEF FollowsPrefixes
<1>2. /\ position \in Nat /\ codeSize \in Nat /\ position <= codeSize
      /\ position <= MaxInstructionSize /\ MaxInstructionSize \in Nat
  BY CursorAssumption DEF TypeOK, Sizes
<1>3. position < codeSize /\ position < MaxInstructionSize
        => ~PrefixIn(F[position + 1], mode)
  BY <1>2
<1>4. Stops(F, mode, prefix.wait, position, codeSize, prefix)
  BY <1>1, <1>2, <1>3, Zenon DEF Stops
<1> QED
  BY <1>1, <1>4

LEMMA PrefixFailureFollows ==
  ASSUME TypeOK, CursorFollows, PrefixLimit \/ PrefixesTruncated
  PROVE  CursorFollows'
<1>1. PICK status \in {"INVALID", "TRUNCATED"} :
        /\ Return(status)
        /\ IF position >= MaxInstructionSize THEN status = "INVALID"
           ELSE position >= codeSize /\ status = "TRUNCATED"
  <2>1. position \in Nat /\ MaxInstructionSize \in Nat
    BY CursorAssumption DEF TypeOK, Sizes
  <2> QED
    BY <2>1 DEF PrefixLimit, PrefixesTruncated, Fail
<1>2. /\ pc = "prefixes" /\ mode' = mode /\ codeSize' = codeSize
      /\ tape' = tape /\ prefix' = prefix /\ pc' = "idle"
  BY <1>1 DEF PrefixLimit, PrefixesTruncated, Fail, decoder, Return
<1>3. Started'
  BY <1>2 DEF Started, Scanning
<1>4. ASSUME NEW F \in Streams, Agrees(F)'
      PROVE  Follows(F)'
  <2>1. FollowsPrefixes(F)
    BY <1>2, <1>4, StillAgrees DEF CursorFollows, Follows
  <2>2. /\ prefix.wait = Waits(F, mode, codeSize)
        /\ Stops(F, mode, Waits(F, mode, codeSize), position, codeSize, prefix)
    BY <1>1, <1>2, <2>1, StopsHere
  <2>3. FromOpcode(F, prefix, mode, position, codeSize) = <<status, 0>>
    BY <1>1 DEF FromOpcode
  <2>4. position \in Nat /\ prefix \in Prefixes
    BY DEF TypeOK, Sizes
  <2>5. Means(F, mode, codeSize, <<status, 0>>)
    BY <2>2, <2>3, <2>4 DEF Means
  <2>6. status # "OK"
    BY <1>1
  <2>7. Means(F, mode', codeSize',
              <<status, IF status = "OK" THEN position ELSE 0>>)
    BY <1>2, <2>5, <2>6
  <2>8. prefix'.wait = Waits(F, mode', codeSize')
    BY <1>2, <2>2
  <2> QED
    BY <1>1, <2>7, <2>8, ReturnFollows
<1> QED
  BY <1>3, <1>4 DEF CursorFollows

\* A prefix byte adds what it says to what was said before it.
LEMMA HasOn ==
  ASSUME NEW F, NEW w \in BOOLEAN, NEW p \in Nat, p + 1 >= First(w), NEW class
  PROVE  Has(F, w, p + 1, class) = (Has(F, w, p, class) \/ F[p + 1] \in class)
<1>1. First(w) \in {1, 2}
  BY DEF First
<1>2. \A i : i \in First(w)..(p + 1) <=> i \in First(w)..p \/ i = p + 1
  BY <1>1
<1> QED
  BY <1>2, Zenon DEF Has

LEMMA LastOn ==
  ASSUME NEW F, NEW w \in BOOLEAN, NEW p \in Nat, p + 1 >= First(w), NEW class,
         NEW v, LastOf(F, w, p, class, v)
  PROVE  LastOf(F, w, p + 1, class, IF F[p + 1] \in class THEN F[p + 1] ELSE v)
<1>1. First(w) \in {1, 2}
  BY DEF First
<1>2. CASE F[p + 1] \in class
  <2>1. p + 1 \in First(w)..(p + 1) /\ \A j \in First(w)..(p + 1) : ~(j > p + 1)
    BY <1>1
  <2> QED
    BY <1>2, <2>1 DEF LastOf
<1>3. CASE F[p + 1] \notin class /\ v = 0 /\ ~Has(F, w, p, class)
  <2>1. ~Has(F, w, p + 1, class)
    <3>1. Has(F, w, p + 1, class) = (Has(F, w, p, class) \/ F[p + 1] \in class)
      BY HasOn
    <3> QED
      BY <1>3, <3>1, Zenon
  <2> QED
    BY <1>3, <2>1, Zenon DEF LastOf
<1>4. ASSUME F[p + 1] \notin class,
             NEW i \in First(w)..p, v = F[i], F[i] \in class,
             \A j \in First(w)..p : j > i => F[j] \notin class
      PROVE  LastOf(F, w, p + 1, class, v)
  <2>1. i \in First(w)..(p + 1)
    BY <1>1
  <2>2. ASSUME NEW j \in First(w)..(p + 1), j > i
        PROVE  F[j] \notin class
    <3>1. j = p + 1 \/ j \in First(w)..p
      BY <1>1
    <3> QED
      BY <1>4, <2>2, <3>1
  <2> QED
    BY <1>4, <2>1, <2>2 DEF LastOf
<1> QED
  BY <1>2, <1>3, <1>4 DEF LastOf

LEMMA SaysOn ==
  ASSUME NEW F, NEW m, NEW w \in BOOLEAN, NEW p \in Nat, p + 1 >= First(w),
         NEW x \in Prefixes, Says(F, m, w, p, x), PrefixIn(F[p + 1], m),
         NEW y \in Prefixes, Continues(x, y, F[p + 1])
  PROVE  Says(F, m, w, p + 1, y)
<1> DEFINE b == F[p + 1]
<1>1. /\ x.wait = w
      /\ x.lock = Has(F, w, p, {\hF0})
      /\ x.operand = Has(F, w, p, {\h66})
      /\ x.address = Has(F, w, p, {\h67})
  BY Zenon DEF Says
<1>2. /\ LastOf(F, w, p, {\hF2, \hF3}, x.repeat)
      /\ LastOf(F, w, p, Segments, x.segment)
  BY Zenon DEF Says
<1>3. /\ y.wait = x.wait
      /\ y.lock = (x.lock \/ b = \hF0)
      /\ y.operand = (x.operand \/ b = \h66)
      /\ y.address = (x.address \/ b = \h67)
  BY Zenon DEF Continues
<1>4. \A c : Has(F, w, p + 1, {c}) = (Has(F, w, p, {c}) \/ b = c)
  <2> TAKE c
  <2>1. First(w) \in {1, 2}
    BY DEF First
  <2>2. \A i : i \in First(w)..(p + 1) <=> i \in First(w)..p \/ i = p + 1
    BY <2>1
  <2> QED
    BY <2>2, Zenon DEF Has
<1>5. y.lock = Has(F, w, p + 1, {\hF0})
  <2>1. Has(F, w, p + 1, {\hF0}) = (Has(F, w, p, {\hF0}) \/ b = \hF0)
    BY <1>4
  <2>2. x.lock = Has(F, w, p, {\hF0})
    BY <1>1
  <2>3. y.lock = (x.lock \/ b = \hF0)
    BY <1>3
  <2> QED
    BY <2>1, <2>2, <2>3, Zenon
<1>6. y.operand = Has(F, w, p + 1, {\h66})
  <2>1. Has(F, w, p + 1, {\h66}) = (Has(F, w, p, {\h66}) \/ b = \h66)
    BY <1>4
  <2>2. x.operand = Has(F, w, p, {\h66})
    BY <1>1
  <2>3. y.operand = (x.operand \/ b = \h66)
    BY <1>3
  <2> QED
    BY <2>1, <2>2, <2>3, Zenon
<1>7. y.address = Has(F, w, p + 1, {\h67})
  <2>1. Has(F, w, p + 1, {\h67}) = (Has(F, w, p, {\h67}) \/ b = \h67)
    BY <1>4
  <2>2. x.address = Has(F, w, p, {\h67})
    BY <1>1
  <2>3. y.address = (x.address \/ b = \h67)
    BY <1>3
  <2> QED
    BY <2>1, <2>2, <2>3, Zenon
<1>8. LastOf(F, w, p + 1, {\hF2, \hF3}, y.repeat)
  BY <1>2, LastOn DEF Continues
<1>9. LastOf(F, w, p + 1, Segments, y.segment)
  BY <1>2, LastOn DEF Continues
<1>10. y.rex = IF p + 1 >= First(w) /\ IsRex(b, m) THEN b ELSE 0
  BY DEF PrefixIn, Legacy, Segments, IsRex, Continues
<1> QED
  BY <1>1, <1>3, <1>5, <1>6, <1>7, <1>8, <1>9, <1>10, Zenon DEF Says

LEMMA WithLegacySays ==
  ASSUME prefix \in Prefixes, NEW b
  PROVE  /\ WithLegacy(b).lock = (prefix.lock \/ b = \hF0)
         /\ WithLegacy(b).operand = (prefix.operand \/ b = \h66)
         /\ WithLegacy(b).address = (prefix.address \/ b = \h67)
         /\ WithLegacy(b).repeat = IF b \in {\hF2, \hF3} THEN b ELSE prefix.repeat
         /\ WithLegacy(b).segment = IF b \in Segments THEN b ELSE prefix.segment
         /\ WithLegacy(b).rex = 0
<1> DEFINE lock == prefix.lock \/ b = \hF0
           operand == prefix.operand \/ b = \h66
           address == prefix.address \/ b = \h67
           repeat == IF b \in {\hF2, \hF3} THEN b ELSE prefix.repeat
           segment == IF b \in Segments THEN b ELSE prefix.segment
<1>1. WithLegacy(b) =
        [prefix EXCEPT !.lock = lock, !.repeat = repeat, !.operand = operand,
                       !.address = address, !.segment = segment, !.rex = 0]
  BY Zenon DEF WithLegacy, Prefixes
<1>2. WithLegacy(b) =
        [wait |-> prefix.wait, lock |-> lock, operand |-> operand,
         address |-> address, repeat |-> repeat, segment |-> segment, rex |-> 0]
  <2> HIDE DEF lock, operand, address, repeat, segment
  <2> QED
    BY <1>1, ZenonT(60) DEF Prefixes
<1> HIDE DEF lock, operand, address, repeat, segment
<1>3. /\ WithLegacy(b).lock = lock /\ WithLegacy(b).operand = operand
      /\ WithLegacy(b).address = address /\ WithLegacy(b).repeat = repeat
      /\ WithLegacy(b).segment = segment /\ WithLegacy(b).rex = 0
  BY <1>2
<1> QED
  BY <1>3 DEF lock, operand, address, repeat, segment

LEMMA PrefixFollows ==
  ASSUME TypeOK, TypeOK', CursorFollows, Prefix
  PROVE  CursorFollows'
<1>1. /\ pc = "prefixes" /\ pc' = "prefixes" /\ position' = position + 1
      /\ mode' = mode /\ codeSize' = codeSize /\ encoding' = encoding
      /\ encoding = NoEncoding /\ codeSize > 0 /\ position <= Len(tape)
  BY DEF Prefix, Goto, CursorFollows, Started
<1>2. PICK b \in Ahead("opcode") :
        /\ IsPrefix(b)
        /\ LookAt(b)
        /\ prefix' = IF b \in Legacy THEN WithLegacy(b)
                     ELSE [prefix EXCEPT !.rex = b]
  BY DEF Prefix
<1>3. position + 1 <= Len(tape')
  BY <1>1, <1>2, TapeGrows DEF Kinds
<1>4. /\ prefix \in Prefixes /\ prefix' \in Prefixes /\ position \in Nat
      /\ codeSize \in Nat
  BY DEF TypeOK, Sizes
<1>5. /\ prefix'.wait = prefix.wait
      /\ prefix'.lock = (prefix.lock \/ b = \hF0)
      /\ prefix'.operand = (prefix.operand \/ b = \h66)
      /\ prefix'.address = (prefix.address \/ b = \h67)
      /\ prefix'.repeat = IF b \in {\hF2, \hF3} THEN b ELSE prefix.repeat
      /\ prefix'.segment = IF b \in Segments THEN b ELSE prefix.segment
      /\ prefix'.rex = IF b \in Legacy THEN 0 ELSE b
  <2>1. CASE b \in Legacy
    <3>1. prefix' = WithLegacy(b)
      BY <1>2, <2>1
    <3>2. /\ prefix'.wait = prefix.wait /\ prefix'.rex = 0
          /\ prefix'.repeat = IF b \in {\hF2, \hF3} THEN b ELSE prefix.repeat
          /\ prefix'.segment = IF b \in Segments THEN b ELSE prefix.segment
      BY <1>4, <2>1, <3>1, WithLegacyTypes, WithLegacySays
    <3>3. /\ prefix'.lock = (prefix.lock \/ b = \hF0)
          /\ prefix'.operand = (prefix.operand \/ b = \h66)
          /\ prefix'.address = (prefix.address \/ b = \h67)
      <4>1. /\ WithLegacy(b).lock = (prefix.lock \/ b = \hF0)
            /\ WithLegacy(b).operand = (prefix.operand \/ b = \h66)
            /\ WithLegacy(b).address = (prefix.address \/ b = \h67)
        BY <1>4, WithLegacySays
      <4> QED
        BY <3>1, <4>1, Zenon
    <3> QED
      BY <2>1, <3>2, <3>3
  <2>2. CASE b \notin Legacy
    <3>1. /\ b # \hF0 /\ b # \h66 /\ b # \h67 /\ b \notin {\hF2, \hF3}
          /\ b \notin Segments
      BY <2>2 DEF Legacy
    <3>2. prefix' = [prefix EXCEPT !.rex = b]
      BY <1>2, <2>2
    <3>3. /\ prefix'.wait = prefix.wait /\ prefix'.lock = prefix.lock
          /\ prefix'.operand = prefix.operand /\ prefix'.address = prefix.address
          /\ prefix'.repeat = prefix.repeat /\ prefix'.segment = prefix.segment
          /\ prefix'.rex = b
      BY <1>4, <3>2 DEF Prefixes
    <3>4. /\ (prefix.lock \/ b = \hF0) = prefix.lock
          /\ (prefix.operand \/ b = \h66) = prefix.operand
          /\ (prefix.address \/ b = \h67) = prefix.address
      BY <1>4, <3>1 DEF Prefixes
    <3>5. /\ prefix'.lock = (prefix.lock \/ b = \hF0)
          /\ prefix'.operand = (prefix.operand \/ b = \h66)
          /\ prefix'.address = (prefix.address \/ b = \h67)
      BY <3>3, <3>4, Zenon
    <3> QED
      BY <2>2, <3>1, <3>3, <3>5
  <2> QED
    BY <2>1, <2>2
<1>7. Continues(prefix, prefix', b)
  BY <1>5, Zenon DEF Continues
<1>6. ASSUME NEW F \in Streams, Agrees(F)'
      PROVE  Follows(F)'
  <2>1. Agrees(F) /\ F[position + 1] = b
    BY <1>1, <1>2, <1>6, LookedAt DEF Kinds
  <2>2. FollowsPrefixes(F)
    BY <2>1 DEF CursorFollows, Follows
  <2>3. /\ prefix.wait = Waits(F, mode, codeSize)
        /\ position + 1 >= First(prefix.wait)
        /\ Run(F, mode, prefix.wait, position)
        /\ Says(F, mode, prefix.wait, position, prefix)
    BY <1>1, <2>2, Zenon DEF FollowsPrefixes
  <2> DEFINE w == prefix.wait
  <2>4. w \in BOOLEAN /\ PrefixIn(F[position + 1], mode) /\ PrefixIn(b, mode)
    BY <1>2, <1>4, <2>1, Links DEF Prefixes
  <2> HIDE DEF w
  <2>5. position + 1 >= First(w) /\ Run(F, mode, w, position)
        /\ Says(F, mode, w, position, prefix)
    BY <2>3, Zenon DEF w
  <2>6. Run(F, mode, w, position + 1)
    BY <1>4, <2>4, <2>5, RunOn
  <2>7. Says(F, mode, w, position + 1, prefix')
    <3>1. Continues(prefix, prefix', F[position + 1])
      BY <1>7, <2>1
    <3> QED
      BY <1>4, <2>4, <2>5, <3>1, SaysOn
  <2>8. position' + 1 >= First(w)
    BY <1>1, <1>4, <2>4, <2>5 DEF First
  <2>9. prefix'.wait = w /\ w = Waits(F, mode', codeSize')
    <3>1. w = Waits(F, mode, codeSize)
      BY <2>3, Zenon DEF w
    <3> QED
      BY <1>1, <1>5, <3>1, Zenon DEF w
  <2>10. FollowsPrefixes(F)'
    BY <1>1, <2>6, <2>7, <2>8, <2>9, Zenon DEF FollowsPrefixes
  <2> QED
    BY <1>1, <2>10
    DEF Follows, FollowsScan, FollowsFields, Scanning, Fields1, Answered
<1>8. Started'
  BY <1>1, <1>3 DEF Started
<1> QED
  BY <1>6, <1>8 DEF CursorFollows

LEMMA ReturnDue ==
  ASSUME NEW F, NEW status, Return(status)
  PROVE  /\ pc' = "idle"
         /\ Due(F)' = <<status, IF status = "OK" THEN position ELSE 0>>
<1>1. pc' = "idle"
  BY DEF Return
<1>2. Due(F)' = <<answer'.status, answer'.length>>
  BY <1>1 DEF Due
<1> QED
  BY <1>1, <1>2 DEF Return

LEMMA Rex2Follows ==
  ASSUME TypeOK, CursorFollows, Rex2Prefix
  PROVE  CursorFollows'
<1> DEFINE status == Rex2Status(prefix, position, codeSize)
<1>1. PICK b \in Ahead("opcode") :
        IsRex2(b, mode) /\ LookAt(b) /\ Return(status)
  BY Links DEF Rex2Prefix, Rex2Status
<1>2. /\ pc = "prefixes" /\ mode' = mode /\ codeSize' = codeSize
      /\ prefix' = prefix /\ pc' = "idle" /\ position <= Len(tape)
      /\ position < codeSize /\ position < MaxInstructionSize
  BY <1>1 DEF Rex2Prefix, decoder, Return, CursorFollows, Started, InBuffer
<1>3. status # "OK"
  BY ReqStatus DEF Rex2Status
<1>4. ~PrefixIn(b, mode)
  BY <1>1 DEF PrefixIn, Legacy, Segments, IsRex, IsRex2
<1>5. Started'
  BY <1>2 DEF Started, Scanning
<1>6. ASSUME NEW F \in Streams, Agrees(F)'
      PROVE  Follows(F)'
  <2>1. Agrees(F) /\ F[position + 1] = b
    BY <1>1, <1>2, <1>6, LookedAt DEF Kinds
  <2>2. FollowsPrefixes(F)
    BY <2>1 DEF CursorFollows, Follows
  <2>3. /\ prefix.wait = Waits(F, mode, codeSize)
        /\ Stops(F, mode, Waits(F, mode, codeSize), position, codeSize, prefix)
    BY <1>2, <1>4, <2>1, <2>2, StopsHere
  <2>4. position \in Nat /\ codeSize \in Nat /\ MaxInstructionSize \in Nat
        /\ prefix \in Prefixes
    BY CursorAssumption DEF TypeOK, Sizes
  <2>5. FromOpcode(F, prefix, mode, position, codeSize) = <<status, 0>>
    BY <1>1, <1>2, <2>1, <2>4 DEF FromOpcode
  <2> HIDE DEF status
  <2>6. Means(F, mode, codeSize, <<status, 0>>)
    BY <2>3, <2>4, <2>5 DEF Means
  <2>7. Means(F, mode', codeSize',
              <<status, IF status = "OK" THEN position ELSE 0>>)
    BY <1>2, <1>3, <2>6
  <2>8. prefix'.wait = Waits(F, mode', codeSize')
    BY <1>2, <2>3
  <2> QED
    BY <1>1, <2>7, <2>8, ReturnFollows
<1> QED
  BY <1>5, <1>6 DEF CursorFollows

LEMMA OpcodeCases ==
  ASSUME Opcode
  PROVE  \E b \in Ahead("opcode") :
           /\ ~PrefixIn(b, mode) /\ ~IsRex2(b, mode)
           /\ LookAt(b)
           /\ opcode' = b
           /\ \/ b \in HandedOn /\ Return("HANDED_ON")
              \/ b \notin HandedOn /\ Refused(b, mode) /\ Return("INVALID")
              \/ /\ b \notin HandedOn /\ ~Refused(b, mode) /\ TakesModrm(b)
                 /\ Goto("modrm")
              \/ /\ b \notin HandedOn /\ ~Refused(b, mode) /\ ~TakesModrm(b)
                 /\ Goto("displacement")
<1>1. PICK b \in Ahead("opcode") :
        /\ ~IsPrefix(b) /\ ~IsRex2(b, mode)
        /\ LookAt(b)
        /\ opcode' = b
        /\ CASE b \in HandedOn -> Return("HANDED_ON")
             [] Refused(b, mode) -> Return("INVALID")
             [] TakesModrm(b) /\ ~Refused(b, mode) -> Goto("modrm")
             [] OTHER -> Goto("displacement")
  BY DEF Opcode
<1>2. b \in HandedOn => ~Refused(b, mode)
  BY DEF HandedOn, Refused, RefusedIn64
<1>3. b \in HandedOn => ~TakesModrm(b)
  BY DEF HandedOn, TakesModrm, Alu, AluRows, Group1, X87
<1>4. \/ b \in HandedOn /\ Return("HANDED_ON")
      \/ b \notin HandedOn /\ Refused(b, mode) /\ Return("INVALID")
      \/ /\ b \notin HandedOn /\ ~Refused(b, mode) /\ TakesModrm(b)
         /\ Goto("modrm")
      \/ /\ b \notin HandedOn /\ ~Refused(b, mode) /\ ~TakesModrm(b)
         /\ Goto("displacement")
  BY <1>1, <1>2, <1>3, Zenon
<1> QED
  BY <1>1, <1>4, Links

LEMMA OpcodeFollows ==
  ASSUME TypeOK, TypeOK', CursorFollows, Opcode
  PROVE  CursorFollows'
<1>1. PICK b \in Ahead("opcode") :
        /\ ~PrefixIn(b, mode) /\ ~IsRex2(b, mode)
        /\ LookAt(b)
        /\ opcode' = b
        /\ \/ b \in HandedOn /\ Return("HANDED_ON")
           \/ b \notin HandedOn /\ Refused(b, mode) /\ Return("INVALID")
           \/ /\ b \notin HandedOn /\ ~Refused(b, mode) /\ TakesModrm(b)
              /\ Goto("modrm")
           \/ /\ b \notin HandedOn /\ ~Refused(b, mode) /\ ~TakesModrm(b)
              /\ Goto("displacement")
  BY OpcodeCases
<1>2. /\ pc = "prefixes" /\ mode' = mode /\ codeSize' = codeSize
      /\ prefix' = prefix /\ position <= Len(tape) /\ codeSize > 0
      /\ position < codeSize /\ position < MaxInstructionSize
      /\ position' = position + 1 /\ encoding = NoEncoding
      /\ encoding' = [encoding EXCEPT !.prefixSize = position]
      /\ pc' \in {"idle", "modrm", "displacement"}
  BY <1>1 DEF Opcode, Return, Goto, CursorFollows, Started, InBuffer
<1>3. encoding'.modrm = 0 /\ encoding'.sib = 0 /\ encoding'.immediates = <<>>
  BY <1>2 DEF NoEncoding
<1>4. position + 1 <= Len(tape')
  BY <1>1, <1>2, TapeGrows DEF Kinds
<1>5. Started'
  BY <1>2, <1>3, <1>4 DEF Started, Scanning
<1>6. position \in Nat /\ codeSize \in Nat /\ MaxInstructionSize \in Nat
      /\ prefix \in Prefixes
  BY CursorAssumption DEF TypeOK, Sizes
<1>7. ASSUME NEW F \in Streams, Agrees(F)'
      PROVE  Follows(F)'
  <2>1. Agrees(F) /\ F[position + 1] = b
    BY <1>1, <1>2, <1>7, LookedAt DEF Kinds
  <2>2. FollowsPrefixes(F)
    BY <2>1 DEF CursorFollows, Follows
  <2>3. /\ prefix.wait = Waits(F, mode, codeSize)
        /\ Stops(F, mode, Waits(F, mode, codeSize), position, codeSize, prefix)
    BY <1>1, <1>2, <2>1, <2>2, StopsHere
  <2>4. FromOpcode(F, prefix, mode, position, codeSize) =
          IF b \in HandedOn THEN <<"HANDED_ON", 0>>
          ELSE IF Refused(b, mode) THEN <<"INVALID", 0>>
          ELSE IF TakesModrm(b)
               THEN FromModrm(F, b, prefix, mode, position + 1, codeSize)
          ELSE FromDisplacement(b, 0, 0, prefix, mode, position + 1, codeSize)
    BY <1>1, <1>2, <1>6, <2>1 DEF FromOpcode
  <2>5. Due(F)' = FromOpcode(F, prefix, mode, position, codeSize)
    <3>1. CASE b \in HandedOn
      <4>1. Return("HANDED_ON")
        BY <1>1, <3>1
      <4> QED
        BY <2>4, <3>1, <4>1, ReturnDue
    <3>2. CASE b \notin HandedOn /\ Refused(b, mode)
      <4>1. Return("INVALID")
        BY <1>1, <3>2
      <4> QED
        BY <2>4, <3>2, <4>1, ReturnDue
    <3>3. CASE b \notin HandedOn /\ ~Refused(b, mode) /\ TakesModrm(b)
      <4>1. pc' = "modrm"
        BY <1>1, <3>3 DEF Goto
      <4> QED
        BY <1>1, <1>2, <2>4, <3>3, <4>1 DEF Due
    <3>4. CASE b \notin HandedOn /\ ~Refused(b, mode) /\ ~TakesModrm(b)
      <4>1. pc' = "displacement"
        BY <1>1, <3>4 DEF Goto
      <4> QED
        BY <1>1, <1>2, <1>3, <2>4, <3>4, <4>1 DEF Due
    <3> QED
      BY <3>1, <3>2, <3>3, <3>4
  <2>6. Means(F, mode, codeSize, Due(F)')
    BY <1>6, <2>3, <2>5 DEF Means
  <2>7. Means(F, mode', codeSize', Due(F)') /\ prefix'.wait = Waits(F, mode', codeSize')
    BY <1>2, <2>3, <2>6
  <2> QED
    BY <1>2, <2>7 DEF Follows, FollowsScan, FollowsPrefixes, FollowsFields, Scanning
<1> QED
  BY <1>5, <1>7 DEF CursorFollows

\* Past the opcode, a step follows if what is due stays the same.
LEMMA DueFollows ==
  ASSUME NEW F, FollowsFields(F), pc \in Fields1, pc' \in Fields1 \cup {"idle"},
         mode' = mode, codeSize' = codeSize, prefix' = prefix, Due(F)' = Due(F)
  PROVE  Follows(F)'
<1>1. prefix.wait = Waits(F, mode, codeSize) /\ Means(F, mode, codeSize, Due(F))
  BY DEF FollowsFields
<1>2. /\ prefix'.wait = Waits(F, mode', codeSize')
      /\ Means(F, mode', codeSize', Due(F)')
  BY <1>1
<1> QED
  BY <1>2 DEF Follows, FollowsScan, FollowsPrefixes, FollowsFields, Scanning, Fields1

LEMMA ModrmMissingFollows ==
  ASSUME TypeOK, CursorFollows, ModrmMissing
  PROVE  CursorFollows'
<1>1. /\ pc = "modrm" /\ Return(NoModrm) /\ mode' = mode /\ codeSize' = codeSize
      /\ prefix' = prefix /\ tape' = tape /\ pc' = "idle"
      /\ ~PeeksAt(opcode, position, codeSize)
      /\ Req(1, position, codeSize) # "OK"
  BY Links DEF ModrmMissing, Fail, decoder, Return
<1>2. /\ NoModrm = IF opcode \in X87 /\ position >= codeSize THEN "TRUNCATED"
                   ELSE Req(1, position, codeSize)
      /\ NoModrm # "OK"
  BY <1>1, Links DEF NoModrm
<1>3. ASSUME NEW F \in Streams, Agrees(F)'
      PROVE  Follows(F)'
  <2>1. FollowsFields(F)
    BY <1>1, <1>3, StillAgrees DEF CursorFollows, Follows
  <2>2. Due(F)' = <<NoModrm, 0>>
    BY <1>1, <1>2, ReturnDue
  <2>3. Due(F) = FromModrm(F, opcode, prefix, mode, position, codeSize)
    BY <1>1 DEF Due
  <2>4. Due(F) = <<NoModrm, 0>>
    BY <1>1, <1>2, <2>3 DEF FromModrm
  <2> QED
    BY <1>1, <2>1, <2>2, <2>4, DueFollows DEF Fields1
<1>4. Started'
  BY <1>1 DEF Started, Scanning
<1> QED
  BY <1>3, <1>4 DEF CursorFollows

LEMMA ModrmRejectedFollows ==
  ASSUME TypeOK, CursorFollows, ModrmRejected
  PROVE  CursorFollows'
<1>1. PICK b \in Ahead("modrm") :
        LookAt(b) /\ Peeked(b) # "OK" /\ Return(Peeked(b))
  BY DEF ModrmRejected
<1>2. /\ pc = "modrm" /\ mode' = mode /\ codeSize' = codeSize
      /\ prefix' = prefix /\ pc' = "idle" /\ position <= Len(tape)
      /\ PeeksAt(opcode, position, codeSize)
  BY <1>1, Links
  DEF ModrmRejected, decoder, Return, CursorFollows, Started, Scanning
<1>3. ASSUME NEW F \in Streams, Agrees(F)'
      PROVE  Follows(F)'
  <2>1. Agrees(F) /\ F[position + 1] = b
    BY <1>1, <1>2, <1>3, LookedAt DEF Kinds
  <2>2. FollowsFields(F)
    BY <2>1 DEF CursorFollows, Follows
  <2>3. Due(F)' = <<Peeked(b), 0>>
    BY <1>1, ReturnDue
  <2>4. Due(F) = FromModrm(F, opcode, prefix, mode, position, codeSize)
    BY <1>2 DEF Due
  <2>5. PeekedAs(opcode, b, position, codeSize) = Peeked(b)
    BY Links
  <2>6. Due(F) = <<Peeked(b), 0>>
    BY <1>1, <1>2, <2>1, <2>4, <2>5 DEF FromModrm
  <2> QED
    BY <1>2, <2>2, <2>3, <2>6, DueFollows DEF Fields1
<1>4. Started'
  BY <1>2 DEF Started, Scanning
<1> QED
  BY <1>3, <1>4 DEF CursorFollows

LEMMA ModrmFollows ==
  ASSUME TypeOK, CursorFollows, Modrm
  PROVE  CursorFollows'
<1>1. PICK b \in Ahead("modrm") :
        /\ Peeked(b) = "OK"
        /\ LookAt(b)
        /\ encoding' = [encoding EXCEPT !.modrmOffset = position, !.modrm = b]
        /\ Goto(IF TakesSib(b, addrBits) THEN "sib" ELSE "displacement")
  BY DEF Modrm
<1>2. /\ pc = "modrm" /\ mode' = mode /\ codeSize' = codeSize
      /\ prefix' = prefix /\ opcode' = opcode /\ position <= Len(tape)
      /\ position' = position + 1 /\ codeSize > 0
      /\ Req(1, position, codeSize) = "OK"
      /\ pc' = IF TakesSib(b, addrBits) THEN "sib" ELSE "displacement"
      /\ encoding.sib = 0 /\ encoding.immediates = <<>>
  BY <1>1, Links DEF Modrm, Goto, CursorFollows, Started, Scanning
<1>3. /\ encoding'.modrm = b /\ encoding'.sib = 0
      /\ encoding'.immediates = <<>>
  BY <1>1, <1>2 DEF TypeOK, Encodings
<1>4. position + 1 <= Len(tape')
  BY <1>1, <1>2, TapeGrows DEF Kinds
<1>5. Started'
  BY <1>2, <1>3, <1>4 DEF Started, Scanning
<1>6. ASSUME NEW F \in Streams, Agrees(F)'
      PROVE  Follows(F)'
  <2>1. Agrees(F) /\ F[position + 1] = b
    BY <1>1, <1>2, <1>6, LookedAt DEF Kinds
  <2>2. FollowsFields(F)
    BY <2>1 DEF CursorFollows, Follows
  <2>3. Due(F) = FromModrm(F, opcode, prefix, mode, position, codeSize)
    BY <1>2 DEF Due
  <2>4. PeekedAs(opcode, b, position, codeSize) = "OK"
    BY <1>1, Links
  <2>5. Due(F) =
          IF TakesSib(b, AddressBits(mode, prefix.address))
          THEN FromSib(F, opcode, b, prefix, mode, position + 1, codeSize)
          ELSE FromDisplacement(opcode, b, 0, prefix, mode, position + 1, codeSize)
    BY <1>2, <2>1, <2>3, <2>4 DEF FromModrm
  <2>6. CASE TakesSib(b, addrBits)
    <3>1. Due(F)' = FromSib(F, opcode, b, prefix, mode, position + 1, codeSize)
      BY <1>2, <1>3, <2>6 DEF Due
    <3>2. Due(F)' = Due(F)
      BY <2>5, <2>6, <3>1 DEF addrBits
    <3> QED
      BY <1>2, <2>2, <2>6, <3>2, DueFollows DEF Fields1
  <2>7. CASE ~TakesSib(b, addrBits)
    <3>1. Due(F)' =
            FromDisplacement(opcode, b, 0, prefix, mode, position + 1, codeSize)
      BY <1>2, <1>3, <2>7 DEF Due
    <3>2. Due(F)' = Due(F)
      BY <2>5, <2>7, <3>1 DEF addrBits
    <3> QED
      BY <1>2, <2>2, <2>7, <3>2, DueFollows DEF Fields1
  <2> QED
    BY <2>6, <2>7
<1> QED
  BY <1>5, <1>6 DEF CursorFollows

LEMMA SibMissingFollows ==
  ASSUME TypeOK, CursorFollows, SibMissing
  PROVE  CursorFollows'
<1> DEFINE status == Req(1, position, codeSize)
<1>1. /\ pc = "sib" /\ Return(status) /\ mode' = mode /\ codeSize' = codeSize
      /\ prefix' = prefix /\ tape' = tape /\ pc' = "idle" /\ status # "OK"
  BY Links DEF SibMissing, Fail, decoder, Return
<1>2. ASSUME NEW F \in Streams, Agrees(F)'
      PROVE  Follows(F)'
  <2>1. FollowsFields(F)
    BY <1>1, <1>2, StillAgrees DEF CursorFollows, Follows
  <2>2. Due(F) =
          FromSib(F, opcode, encoding.modrm, prefix, mode, position, codeSize)
    BY <1>1 DEF Due
  <2>3. Due(F) = <<status, 0>>
    BY <1>1, <2>2 DEF FromSib
  <2> HIDE DEF status
  <2>4. Due(F)' = <<status, 0>>
    BY <1>1, ReturnDue
  <2> QED
    BY <1>1, <2>1, <2>3, <2>4, DueFollows DEF Fields1
<1>3. Started'
  BY <1>1 DEF Started, Scanning
<1> QED
  BY <1>2, <1>3 DEF CursorFollows

LEMMA SibFollows ==
  ASSUME TypeOK, CursorFollows, Sib
  PROVE  CursorFollows'
<1>1. PICK b \in Ahead("sib") :
        /\ LookAt(b)
        /\ encoding' = [encoding EXCEPT !.sibOffset = position, !.sib = b]
  BY DEF Sib
<1>2. /\ pc = "sib" /\ mode' = mode /\ codeSize' = codeSize /\ codeSize > 0
      /\ prefix' = prefix /\ opcode' = opcode /\ position <= Len(tape)
      /\ position' = position + 1 /\ pc' = "displacement"
      /\ Req(1, position, codeSize) = "OK" /\ encoding.immediates = <<>>
  BY Links DEF Sib, Goto, CursorFollows, Started, Scanning
<1>3. /\ encoding'.modrm = encoding.modrm /\ encoding'.sib = b
      /\ encoding'.immediates = <<>>
  BY <1>1, <1>2 DEF TypeOK, Encodings
<1>4. Started'
  BY <1>2, <1>3 DEF Started, Scanning
<1>5. ASSUME NEW F \in Streams, Agrees(F)'
      PROVE  Follows(F)'
  <2>1. Agrees(F) /\ F[position + 1] = b
    BY <1>1, <1>2, <1>5, LookedAt DEF Kinds
  <2>2. FollowsFields(F)
    BY <2>1 DEF CursorFollows, Follows
  <2>3. Due(F) =
          FromSib(F, opcode, encoding.modrm, prefix, mode, position, codeSize)
    BY <1>2 DEF Due
  <2>4. Due(F) = FromDisplacement(opcode, encoding.modrm, b, prefix, mode,
                                  position + 1, codeSize)
    BY <1>2, <2>1, <2>3 DEF FromSib
  <2>5. Due(F)' = FromDisplacement(opcode, encoding.modrm, b, prefix, mode,
                                   position + 1, codeSize)
    BY <1>2, <1>3 DEF Due
  <2> QED
    BY <1>2, <2>2, <2>4, <2>5, DueFollows DEF Fields1
<1> QED
  BY <1>4, <1>5 DEF CursorFollows

LEMMA DisplacementMissingFollows ==
  ASSUME TypeOK, CursorFollows, DisplacementMissing
  PROVE  CursorFollows'
<1> DEFINE size == DisplacementOf(opcode, encoding.modrm, encoding.sib, prefix, mode)
           status == Req(size, position, codeSize)
<1>1. /\ pc = "displacement" /\ Return(status) /\ mode' = mode
      /\ codeSize' = codeSize /\ prefix' = prefix /\ tape' = tape
      /\ pc' = "idle" /\ status # "OK"
  BY Links DEF DisplacementMissing, Fail, decoder, Return
<1>2. ASSUME NEW F \in Streams, Agrees(F)'
      PROVE  Follows(F)'
  <2>1. FollowsFields(F)
    BY <1>1, <1>2, StillAgrees DEF CursorFollows, Follows
  <2>2. Due(F) = FromDisplacement(opcode, encoding.modrm, encoding.sib, prefix,
                                  mode, position, codeSize)
    BY <1>1 DEF Due
  <2>3. Due(F) = <<status, 0>>
    BY <1>1, <2>2 DEF FromDisplacement
  <2> HIDE DEF status
  <2>4. Due(F)' = <<status, 0>>
    BY <1>1, ReturnDue
  <2> QED
    BY <1>1, <2>1, <2>3, <2>4, DueFollows DEF Fields1
<1>3. Started'
  BY <1>1 DEF Started, Scanning
<1> QED
  BY <1>2, <1>3 DEF CursorFollows

LEMMA DisplacementFollows ==
  ASSUME TypeOK, CursorFollows, Displacement
  PROVE  CursorFollows'
<1> DEFINE size == DisplacementOf(opcode, encoding.modrm, encoding.sib, prefix, mode)
           verdict == JudgedAs(opcode, encoding.modrm, prefix)
<1>1. /\ pc = "displacement" /\ mode' = mode /\ codeSize' = codeSize
      /\ codeSize > 0 /\ prefix' = prefix /\ opcode' = opcode /\ tape' = tape
      /\ position' = position + size /\ encoding.immediates = <<>>
      /\ Req(size, position, codeSize) = "OK"
      /\ IF verdict = "OK" THEN Goto("immediates") ELSE Return(verdict)
  BY Links DEF Displacement, stream, CursorFollows, Started
<1>2. /\ encoding'.modrm = encoding.modrm
      /\ encoding'.immediates = <<>>
  BY <1>1 DEF Displacement, TypeOK, Encodings
<1>3. pc' = IF verdict = "OK" THEN "immediates" ELSE "idle"
  BY <1>1 DEF Goto, Return
<1>4. ASSUME NEW F \in Streams, Agrees(F)'
      PROVE  Follows(F)'
  <2>1. FollowsFields(F)
    BY <1>1, <1>4, StillAgrees DEF CursorFollows, Follows
  <2>2. Due(F) = FromDisplacement(opcode, encoding.modrm, encoding.sib, prefix,
                                  mode, position, codeSize)
    BY <1>1 DEF Due
  <2>3. Due(F) =
          IF verdict # "OK" THEN <<verdict, 0>>
          ELSE FromImmediates(opcode, encoding.modrm, prefix,
                              ImmediatesOf(opcode, encoding.modrm, prefix, mode),
                              0, position + size, codeSize)
    BY <1>1, <2>2 DEF FromDisplacement
  <2> HIDE DEF size, verdict
  <2>4. CASE verdict = "OK"
    <3>1. pc' = "immediates" /\ Taken' = 0
      BY <1>2, <1>3, <2>4 DEF Taken
    <3>2. Due(F)' =
            FromImmediates(opcode, encoding.modrm, prefix,
                           ImmediatesOf(opcode, encoding.modrm, prefix, mode),
                           0, position + size, codeSize)
      BY <1>1, <1>2, <3>1 DEF Due
    <3> QED
      BY <1>1, <2>1, <2>3, <2>4, <3>1, <3>2, DueFollows DEF Fields1
  <2>5. CASE verdict # "OK"
    <3>1. pc' = "idle" /\ Due(F)' = <<verdict, 0>>
      BY <1>1, <2>5, ReturnDue
    <3> QED
      BY <1>1, <2>1, <2>3, <2>5, <3>1, DueFollows DEF Fields1
  <2> QED
    BY <2>4, <2>5
<1>5. Started'
  BY <1>1, <1>3 DEF Started, Scanning
<1> QED
  BY <1>4, <1>5 DEF CursorFollows

\* An immediate that has been read is one less to read.
LEMMA ImmediateRead ==
  ASSUME NEW op, NEW modrm, NEW x, NEW sizes \in Seq({1, 2, 4, 8}),
         Len(sizes) <= 2, NEW k \in Nat, k < Len(sizes),
         NEW p \in Nat, NEW n, Req(sizes[k + 1], p, n) = "OK"
  PROVE  FromImmediates(op, modrm, x, sizes, k, p, n)
           = FromImmediates(op, modrm, x, sizes, k + 1, p + sizes[k + 1], n)
<1> DEFINE one == sizes[k + 1]
           two == sizes[k + 2]
<1>1. k # Len(sizes) /\ k + 1 + 1 = k + 2 /\ Len(sizes) \in Nat
  OBVIOUS
<1>2. CASE k + 1 = Len(sizes)
  <2>1. FromImmediates(op, modrm, x, sizes, k, p, n) = Ended(op, modrm, x, p + one)
    BY <1>1, <1>2 DEF FromImmediates
  <2>2. FromImmediates(op, modrm, x, sizes, k + 1, p + one, n)
          = Ended(op, modrm, x, p + one)
    BY <1>2 DEF FromImmediates
  <2> QED
    BY <2>1, <2>2
<1>3. CASE k + 1 # Len(sizes)
  <2>1. k + 2 = Len(sizes)
    BY <1>1, <1>3
  <2>2. FromImmediates(op, modrm, x, sizes, k, p, n) =
          IF Req(two, p + one, n) # "OK" THEN <<Req(two, p + one, n), 0>>
          ELSE Ended(op, modrm, x, p + one + two)
    BY <1>1, <1>3 DEF FromImmediates
  <2>3. FromImmediates(op, modrm, x, sizes, k + 1, p + one, n) =
          IF Req(two, p + one, n) # "OK" THEN <<Req(two, p + one, n), 0>>
          ELSE Ended(op, modrm, x, p + one + two)
    BY <1>1, <1>3, <2>1 DEF FromImmediates
  <2> QED
    BY <2>2, <2>3
<1> QED
  BY <1>2, <1>3

LEMMA ImmediateMissingFollows ==
  ASSUME TypeOK, CursorFollows, ImmediateMissing
  PROVE  CursorFollows'
<1> DEFINE sizes == ImmediatesOf(opcode, encoding.modrm, prefix, mode)
           status == Req(sizes[Taken + 1], position, codeSize)
<1>1. /\ pc = "immediates" /\ Return(status) /\ mode' = mode
      /\ codeSize' = codeSize /\ prefix' = prefix /\ tape' = tape
      /\ pc' = "idle" /\ status # "OK" /\ Taken < Len(sizes)
  BY Links DEF ImmediateMissing, Fail, decoder, Return
<1>2. Taken # Len(sizes)
  <2>1. Taken \in Nat /\ Len(sizes) \in Nat
    BY ImmediatesFew DEF Taken, TypeOK, Encodings
  <2> QED
    BY <1>1, <2>1
<1>3. ASSUME NEW F \in Streams, Agrees(F)'
      PROVE  Follows(F)'
  <2>1. FollowsFields(F)
    BY <1>1, <1>3, StillAgrees DEF CursorFollows, Follows
  <2>2. Due(F) = FromImmediates(opcode, encoding.modrm, prefix, sizes, Taken,
                                position, codeSize)
    BY <1>1 DEF Due
  <2>3. Due(F) = <<status, 0>>
    BY <1>1, <1>2, <2>2 DEF FromImmediates
  <2> HIDE DEF status
  <2>4. Due(F)' = <<status, 0>>
    BY <1>1, ReturnDue
  <2> QED
    BY <1>1, <2>1, <2>3, <2>4, DueFollows DEF Fields1
<1>4. Started'
  BY <1>1 DEF Started, Scanning
<1> QED
  BY <1>3, <1>4 DEF CursorFollows

LEMMA ImmediateFollows ==
  ASSUME TypeOK, CursorFollows, Immediate
  PROVE  CursorFollows'
<1> DEFINE sizes == ImmediatesOf(opcode, encoding.modrm, prefix, mode)
           size == sizes[Taken + 1]
<1>1. /\ pc = "immediates" /\ pc' = "immediates" /\ mode' = mode
      /\ codeSize' = codeSize /\ codeSize > 0 /\ prefix' = prefix
      /\ opcode' = opcode /\ tape' = tape /\ Taken < Len(sizes)
      /\ Req(size, position, codeSize) = "OK"
      /\ position' = position + size
      /\ encoding' = [encoding EXCEPT !.immediates =
                        Append(encoding.immediates, <<position, size>>)]
  BY Links DEF Immediate, Goto, stream, CursorFollows, Started
<1>2. encoding.immediates \in Seq(Sizes \X {1, 2, 4, 8}) /\ Taken \in Nat
      /\ position \in Nat
  BY DEF TypeOK, Encodings, Taken, Sizes
<1>3. sizes \in Seq({1, 2, 4, 8}) /\ Len(sizes) <= 2
  BY ImmediatesFew
<1>4. encoding'.modrm = encoding.modrm /\ Taken' = Taken + 1
  <2>1. /\ encoding'.modrm = encoding.modrm
        /\ encoding'.immediates = Append(encoding.immediates, <<position, size>>)
    BY <1>1 DEF TypeOK, Encodings
  <2> QED
    BY <1>2, <2>1 DEF Taken
<1>5. ASSUME NEW F \in Streams, Agrees(F)'
      PROVE  Follows(F)'
  <2>1. FollowsFields(F)
    BY <1>1, <1>5, StillAgrees DEF CursorFollows, Follows
  <2>2. Due(F) = FromImmediates(opcode, encoding.modrm, prefix, sizes, Taken,
                                position, codeSize)
    BY <1>1 DEF Due
  <2>3. Due(F)' = FromImmediates(opcode, encoding.modrm, prefix, sizes, Taken + 1,
                                 position + size, codeSize)
    BY <1>1, <1>4 DEF Due
  <2> HIDE DEF sizes
  <2>4. Due(F)' = Due(F)
    BY <1>1, <1>2, <1>3, <2>2, <2>3, ImmediateRead
  <2> QED
    BY <1>1, <2>1, <2>4, DueFollows DEF Fields1
<1>6. Started'
  BY <1>1 DEF Started, Scanning
<1> QED
  BY <1>5, <1>6 DEF CursorFollows

LEMMA FinishFollows ==
  ASSUME TypeOK, CursorFollows, Finish
  PROVE  CursorFollows'
<1> DEFINE status == IF prefix.lock /\ ~TakesLock(opcode, encoding.modrm)
                     THEN "INVALID" ELSE "OK"
<1>1. /\ pc = "immediates" /\ Return(status) /\ mode' = mode
      /\ codeSize' = codeSize /\ prefix' = prefix /\ tape' = tape
      /\ pc' = "idle"
      /\ Taken = Len(ImmediatesOf(opcode, encoding.modrm, prefix, mode))
  BY Links DEF Finish, stream, decoder, Return
<1>2. ASSUME NEW F \in Streams, Agrees(F)'
      PROVE  Follows(F)'
  <2>1. FollowsFields(F)
    BY <1>1, <1>2, StillAgrees DEF CursorFollows, Follows
  <2>2. Due(F) = FromImmediates(opcode, encoding.modrm, prefix,
                                ImmediatesOf(opcode, encoding.modrm, prefix, mode),
                                Taken, position, codeSize)
    BY <1>1 DEF Due
  <2>3. Due(F) = Ended(opcode, encoding.modrm, prefix, position)
    BY <1>1, <2>2 DEF FromImmediates
  <2>4. Due(F) = <<status, IF status = "OK" THEN position ELSE 0>>
    BY <2>3 DEF Ended
  <2> HIDE DEF status
  <2>5. Due(F)' = <<status, IF status = "OK" THEN position ELSE 0>>
    BY <1>1, ReturnDue
  <2> QED
    BY <1>1, <2>1, <2>4, <2>5, DueFollows DEF Fields1
<1>3. Started'
  BY <1>1 DEF Started, Scanning
<1> QED
  BY <1>2, <1>3 DEF CursorFollows

LEMMA StutterFollows ==
  ASSUME CursorFollows, UNCHANGED vars
  PROVE  CursorFollows'
<1>1. /\ mode' = mode /\ tape' = tape /\ codeSize' = codeSize /\ pc' = pc
      /\ position' = position /\ prefix' = prefix /\ opcode' = opcode
      /\ encoding' = encoding /\ answer' = answer
  BY DEF vars, stream, decoder
<1>2. ASSUME NEW F \in Streams
      PROVE  (Agrees(F)' <=> Agrees(F)) /\ (Follows(F)' <=> Follows(F))
  BY <1>1 DEF Agrees, Follows, FollowsScan, FollowsPrefixes, FollowsFields, Due,
              Taken, Answered
<1>3. Started' <=> Started
  BY <1>1 DEF Started
<1> QED
  BY <1>2, <1>3 DEF CursorFollows

LEMMA NextFollows ==
  ASSUME TypeOK, CursorFollows, [Next]_vars
  PROVE  CursorFollows'
<1>1. TypeOK'
  BY NextTypes
<1>2. CASE Call
  BY <1>2, CallFollows
<1>3. CASE ScanForWait \/ ScanForAlias
  BY <1>1, <1>3, ScanForWaitFollows, ScanForAliasFollows
<1>4. CASE PrefixLimit \/ PrefixesTruncated \/ Prefix \/ Rex2Prefix \/ Opcode
  BY <1>1, <1>4, PrefixFailureFollows, PrefixFollows, Rex2Follows, OpcodeFollows
<1>5. CASE ModrmMissing \/ ModrmRejected \/ Modrm \/ SibMissing \/ Sib
  BY <1>5, ModrmMissingFollows, ModrmRejectedFollows, ModrmFollows,
     SibMissingFollows, SibFollows
<1>6. CASE DisplacementMissing \/ Displacement
  BY <1>6, DisplacementMissingFollows, DisplacementFollows
<1>7. CASE ImmediateMissing \/ Immediate \/ Finish
  BY <1>7, ImmediateMissingFollows, ImmediateFollows, FinishFollows
<1>8. CASE UNCHANGED vars
  BY <1>8, StutterFollows
<1> QED
  BY <1>2, <1>3, <1>4, <1>5, <1>6, <1>7, <1>8 DEF Next, Step

-----------------------------------------------------------------------------
(* What the history remembers.                                             *)

\* Every step is a new call, one on the way, or the end of a call.
LEMMA Steps ==
  ASSUME [Next]_vars
  PROVE  \/ Call
         \/ UNCHANGED vars
         \/ /\ pc # "idle" /\ mode' = mode /\ codeSize' = codeSize
            /\ \/ \E label \in Labels \ {"idle"} : Goto(label)
               \/ \E status : Return(status)
<1> DEFINE on == \/ \E label \in Labels \ {"idle"} : Goto(label)
                 \/ \E status : Return(status)
           same == pc # "idle" /\ mode' = mode /\ codeSize' = codeSize
<1>1. \A label \in {"wait", "alias", "prefixes", "modrm", "sib", "displacement",
                    "immediates"} : Goto(label) => on
  BY Zenon DEF Labels
<1>2. \A status : Return(status) => on
  OBVIOUS
<1>3. NoAlias => on
  BY <1>1 DEF NoAlias
<1>4. \A b, label : ScanPast(b, label) => Goto(label)
  BY DEF ScanPast
<1>5. \A status : Fail(status) => on
  BY <1>2 DEF Fail
<1> HIDE DEF on
<1>6. CASE ScanForWait
  <2>1. same
    BY <1>6 DEF ScanForWait
  <2>2. CASE ~InBuffer /\ NoAlias
    BY <1>3, <2>1, <2>2, Zenon DEF on
  <2>3. ASSUME NEW b,
               CASE position = 0 /\ b = Fwait -> ScanPast(b, "wait")
                 [] position > 0 /\ IsPrefix(b) -> ScanPast(b, "wait")
                 [] position > 0 /\ b \in X87 -> ScanPast(b, "alias")
                 [] OTHER -> LookAt(b) /\ NoAlias
        PROVE  on
    <3>1. ScanPast(b, "wait") \/ ScanPast(b, "alias") \/ NoAlias
      BY <2>3, Zenon
    <3> QED
      BY <1>1, <1>3, <1>4, <3>1
  <2>4. on
    BY <1>3, <1>6, <2>3, Zenon DEF ScanForWait
  <2> QED
    BY <2>1, <2>4, Zenon DEF on
<1>7. CASE ScanForAlias
  <2>1. same
    BY <1>7 DEF ScanForAlias
  <2>2. NoAlias \/ Goto("prefixes")
    BY <1>7 DEF ScanForAlias
  <2> QED
    BY <1>1, <1>3, <2>1, <2>2 DEF on
<1>8. CASE PrefixLimit \/ PrefixesTruncated \/ Prefix \/ Rex2Prefix
  <2>1. same
    BY <1>8 DEF PrefixLimit, PrefixesTruncated, Prefix, Rex2Prefix
  <2>2. on
    BY <1>1, <1>2, <1>5, <1>8
    DEF PrefixLimit, PrefixesTruncated, Prefix, Rex2Prefix
  <2> QED
    BY <2>1, <2>2 DEF on
<1>9. CASE Opcode
  <2>1. same
    BY <1>9 DEF Opcode
  <2>2. \/ Return("HANDED_ON") \/ Return("INVALID")
        \/ Goto("modrm") \/ Goto("displacement")
    BY <1>9, OpcodeCases
  <2> QED
    BY <1>1, <1>2, <2>1, <2>2 DEF on
<1>10. CASE ModrmMissing \/ ModrmRejected \/ Modrm
  <2>1. same
    BY <1>10 DEF ModrmMissing, ModrmRejected, Modrm
  <2>2. on
    BY <1>1, <1>2, <1>5, <1>10 DEF ModrmMissing, ModrmRejected, Modrm
  <2> QED
    BY <2>1, <2>2 DEF on
<1>11. CASE SibMissing \/ Sib \/ DisplacementMissing \/ Displacement
  <2>1. same
    BY <1>11 DEF SibMissing, Sib, DisplacementMissing, Displacement, stream
  <2>2. on
    BY <1>1, <1>2, <1>5, <1>11
    DEF SibMissing, Sib, DisplacementMissing, Displacement
  <2> QED
    BY <2>1, <2>2 DEF on
<1>12. CASE ImmediateMissing \/ Immediate \/ Finish
  <2>1. same
    BY <1>12 DEF ImmediateMissing, Immediate, Finish, stream
  <2>2. on
    BY <1>1, <1>2, <1>5, <1>12 DEF ImmediateMissing, Immediate, Finish
  <2> QED
    BY <2>1, <2>2 DEF on
<1> QED
  BY <1>6, <1>7, <1>8, <1>9, <1>10, <1>11, <1>12 DEF Next, Step

\* A step leaves the tape alone or looks at a byte.
LEMMA Looks ==
  ASSUME [Next]_vars
  PROVE  tape' = tape \/ \E kind \in Kinds : \E b \in Ahead(kind) : LookAt(b)
<1>1. CASE ScanForWait
  <2>1. ASSUME NEW b,
               CASE position = 0 /\ b = Fwait -> ScanPast(b, "wait")
                 [] position > 0 /\ IsPrefix(b) -> ScanPast(b, "wait")
                 [] position > 0 /\ b \in X87 -> ScanPast(b, "alias")
                 [] OTHER -> LookAt(b) /\ NoAlias
        PROVE  LookAt(b)
    BY <2>1, Zenon DEF ScanPast
  <2>2. UNCHANGED tape \/ \E b \in Ahead("opcode") : LookAt(b)
    BY <1>1, <2>1, Zenon DEF ScanForWait
  <2> QED
    BY <2>2 DEF Kinds
<1>2. CASE ScanForAlias
  BY <1>2 DEF ScanForAlias, Kinds
<1>3. CASE Prefix \/ Rex2Prefix \/ Opcode
  BY <1>3 DEF Prefix, Rex2Prefix, Opcode, Kinds
<1>4. CASE ModrmRejected \/ Modrm \/ Sib
  BY <1>4 DEF ModrmRejected, Modrm, Sib, Kinds
<1>5. CASE \/ PrefixLimit \/ PrefixesTruncated \/ ModrmMissing \/ SibMissing
           \/ DisplacementMissing \/ ImmediateMissing
  BY <1>5 DEF PrefixLimit, PrefixesTruncated, ModrmMissing, SibMissing,
              DisplacementMissing, ImmediateMissing, Fail
<1>6. CASE Call \/ Displacement \/ Immediate \/ Finish \/ UNCHANGED vars
  BY <1>6 DEF Call, Displacement, Immediate, Finish, vars, stream
<1> QED
  BY <1>1, <1>2, <1>3, <1>4, <1>5, <1>6 DEF Next, Step

LEMMA TapeOnlyGrows ==
  ASSUME TypeOK, [Next]_vars
  PROVE  /\ Len(tape) \in Nat /\ Len(tape') \in Nat
         /\ Len(tape') >= Len(tape)
         /\ \A i \in 1..Len(tape) : tape'[i] = tape[i]
<1>1. CASE tape' = tape
  BY <1>1 DEF TypeOK
<1>2. ASSUME NEW kind \in Kinds, NEW b \in Ahead(kind), LookAt(b)
      PROVE  /\ Len(tape) \in Nat /\ Len(tape') \in Nat
             /\ Len(tape') >= Len(tape)
             /\ \A i \in 1..Len(tape) : tape'[i] = tape[i]
  BY <1>2, TapeGrows, AheadIsByte, LookAtTypes DEF TypeOK
<1> QED
  BY <1>1, <1>2, Looks

\* A stream that agrees with the tape agreed with it before.
LEMMA AgreedBefore ==
  ASSUME TypeOK, [Next]_vars, NEW F \in Streams, Agrees(F)'
  PROVE  Agrees(F)
<1>1. \A i \in 1..Len(tape) : F[i] = tape[i]
  BY TapeOnlyGrows DEF Agrees
<1> QED
  BY <1>1 DEF Agrees

\* The last call that has been answered had this many bytes.
LastCall == IF pc = "idle" THEN codeSize ELSE codeSize - 1

Remembers(F) ==
  /\ settled = Unsettled /\ LastCall >= 1 =>
       Means(F, mode, LastCall, <<"TRUNCATED", 0>>)
  /\ settled # Unsettled =>
       /\ settled.size \in 1..LastCall
       /\ settled.status # "TRUNCATED"
       /\ Means(F, mode, settled.size, <<settled.status, settled.length>>)
       /\ settled.size > 1 =>
            Means(F, mode, settled.size - 1, <<"TRUNCATED", 0>>)

CursorRemembers == \A F \in Streams : Agrees(F) => Remembers(F)

LEMMA InitRemembers == Init => CursorRemembers
BY DEF Init, CursorRemembers, Remembers, LastCall

\* The end of a call: its answer is what it means.
LEMMA ReturnRemembers ==
  ASSUME TypeOK, Started, NEW F, Remembers(F), FollowsFields(F)', NEW status,
         Return(status), pc # "idle", mode' = mode, codeSize' = codeSize
  PROVE  Remembers(F)'
<1> DEFINE v == <<status, IF status = "OK" THEN position ELSE 0>>
<1>1. codeSize \in Nat /\ codeSize > 0
  BY DEF TypeOK, Started
<1>2. /\ pc' = "idle" /\ LastCall = codeSize - 1 /\ LastCall' = codeSize
      /\ Answered' /\ Due(F)' = v
  BY <1>1, ReturnDue DEF LastCall, Answered, Return
<1>3. Means(F, mode, codeSize, v)
  BY <1>2, Zenon DEF FollowsFields
<1>4. CASE settled = Unsettled /\ status # "TRUNCATED"
  <2>1. settled' = [status |-> status, length |-> IF status = "OK" THEN position ELSE 0,
                    size |-> codeSize]
    BY <1>4 DEF Return
  <2>2. /\ settled'.status = status /\ settled'.size = codeSize
        /\ <<settled'.status, settled'.length>> = v
    BY <2>1
  <2>3. settled' # Unsettled
    BY <1>1, <2>2 DEF Unsettled
  <2>4. settled'.size > 1 =>
          Means(F, mode, settled'.size - 1, <<"TRUNCATED", 0>>)
    BY <1>1, <1>2, <1>4, <2>2 DEF Remembers
  <2>5. settled'.size \in 1..LastCall'
    BY <1>1, <1>2, <2>2
  <2> HIDE DEF v
  <2> QED
    BY <1>3, <1>4, <2>2, <2>3, <2>4, <2>5 DEF Remembers
<1>5. CASE settled = Unsettled /\ status = "TRUNCATED"
  <2>1. settled' = Unsettled /\ v = <<"TRUNCATED", 0>>
    BY <1>5 DEF Return
  <2> HIDE DEF v
  <2> QED
    BY <1>2, <1>3, <2>1 DEF Remembers
<1>6. CASE settled # Unsettled
  <2>1. settled' = settled
    BY <1>6 DEF Return
  <2>2. settled.size \in 1..LastCall'
    BY <1>1, <1>2, <1>6 DEF Remembers
  <2> HIDE DEF v
  <2> QED
    BY <1>6, <2>1, <2>2 DEF Remembers
<1> QED
  BY <1>4, <1>5, <1>6

LEMMA NextRemembers ==
  ASSUME TypeOK, CursorFollows, CursorRemembers, [Next]_vars
  PROVE  CursorRemembers'
<1> SUFFICES ASSUME NEW F \in Streams, Agrees(F)'
             PROVE  Remembers(F)'
  BY DEF CursorRemembers
<1>1. Remembers(F)
  BY AgreedBefore DEF CursorRemembers
<1>2. codeSize \in Nat
  BY DEF TypeOK
<1>3. CASE Call \/ UNCHANGED vars
  <2>1. LastCall' = LastCall /\ settled' = settled /\ mode' = mode
    BY <1>2, <1>3 DEF Call, LastCall, vars, stream, decoder
  <2> QED
    BY <1>1, <2>1 DEF Remembers
<1>4. ASSUME NEW label \in Labels \ {"idle"}, Goto(label), pc # "idle",
             mode' = mode, codeSize' = codeSize
      PROVE  Remembers(F)'
  <2>1. LastCall' = LastCall /\ settled' = settled /\ mode' = mode
    BY <1>4 DEF Goto, LastCall
  <2> QED
    BY <1>1, <2>1 DEF Remembers
<1>5. ASSUME NEW status, Return(status), pc # "idle",
             mode' = mode, codeSize' = codeSize
      PROVE  Remembers(F)'
  <2>1. FollowsFields(F)'
    BY NextFollows DEF CursorFollows, Follows
  <2>2. Started
    BY DEF CursorFollows
  <2> QED
    BY <1>1, <1>5, <2>1, <2>2, ReturnRemembers
<1> QED
  BY <1>3, <1>4, <1>5, Steps

\* The stream that goes on with zeros behind the tape.
LEMMA SomeStream ==
  ASSUME TypeOK
  PROVE  \E F \in Streams : Agrees(F)
<1> DEFINE F == [i \in Nat \ {0} |-> IF i <= Len(tape) THEN tape[i] ELSE 0]
<1>1. ASSUME NEW i \in Nat \ {0}
      PROVE  (IF i <= Len(tape) THEN tape[i] ELSE 0) \in Byte
  <2>1. 0 \in Byte
    BY DEF Byte
  <2>2. i <= Len(tape) => tape[i] \in Byte
    BY DEF TypeOK
  <2> QED
    BY <2>1, <2>2
<1>2. F \in Streams
  BY <1>1 DEF Streams
<1>3. \A i \in 1..Len(tape) : F[i] = tape[i]
  BY DEF TypeOK
<1> QED
  BY <1>2, <1>3 DEF Agrees

CursorHistory == TypeOK /\ CursorFollows /\ CursorRemembers

LEMMA HistoryHolds == Spec => []CursorHistory
<1>1. Init => CursorHistory
  BY InitTypes, InitFollows, InitRemembers DEF CursorHistory
<1>2. CursorHistory /\ [Next]_vars => CursorHistory'
  BY NextTypes, NextFollows, NextRemembers DEF CursorHistory
<1> QED
  BY <1>1, <1>2, PTL DEF Spec

\* A caller may act on any answer but TRUNCATED: whatever the stream, the mode
\* and the limit, more bytes never change it, save for a FWAIT that is fused
\* with the x87 instruction they bring.
THEOREM AnswersAreFinal == Spec => []Final
<1>1. CursorHistory => Final
  <2> SUFFICES ASSUME TypeOK, CursorFollows, CursorRemembers, Answered,
                      settled # Unsettled
               PROVE  \/ answer.status = settled.status
                         /\ answer.length = settled.length
                      \/ Fused
    BY DEF CursorHistory, Final
  <2>1. PICK F \in Streams : Agrees(F)
    BY SomeStream
  <2> DEFINE u == <<settled.status, settled.length>>
             v == <<answer.status, answer.length>>
  <2>2. FollowsFields(F) /\ Remembers(F)
    BY <2>1 DEF CursorFollows, CursorRemembers, Follows
  <2>3. LastCall = codeSize /\ Due(F) = v
    BY DEF Answered, LastCall, Due
  <2>4. prefix.wait = Waits(F, mode, codeSize) /\ Means(F, mode, codeSize, v)
    BY <2>2, <2>3, Zenon DEF FollowsFields
  <2>5. /\ settled.size \in Nat \ {0} /\ settled.size <= codeSize
        /\ codeSize \in Nat
        /\ settled.status # "TRUNCATED" /\ Means(F, mode, settled.size, u)
    BY <2>2, <2>3 DEF Remembers, TypeOK
  <2>6. u[1] # "TRUNCATED"
    BY <2>5
  <2> HIDE DEF u, v
  <2>7. u = v \/ (Waits(F, mode, codeSize) /\ u = <<"OK", 1>>)
    BY <2>4, <2>5, <2>6, MeansStable
  <2> QED
    BY <2>4, <2>7 DEF u, v, Fused
<1> QED
  BY <1>1, HistoryHolds, PTL

\* An instruction is answered in the call that has its last byte: not later,
\* and not from bytes that are not there.
THEOREM AnswersArePrompt == Spec => []Prompt
<1>1. CursorHistory => Prompt
  <2> SUFFICES ASSUME TypeOK, CursorRemembers, settled.status = "OK"
               PROVE  settled.size = settled.length
    BY DEF CursorHistory, Prompt
  <2>1. PICK F \in Streams : Agrees(F)
    BY SomeStream
  <2>2. Remembers(F)
    BY <2>1 DEF CursorRemembers
  <2>3. settled # Unsettled
    BY DEF Unsettled
  <2> DEFINE size == settled.size
             length == settled.length
  <2>4. /\ size \in Nat \ {0} /\ Means(F, mode, size, <<"OK", length>>)
        /\ size > 1 => Means(F, mode, size - 1, <<"TRUNCATED", 0>>)
    BY <2>2, <2>3 DEF Remembers, TypeOK
  <2> HIDE DEF size, length
  <2>5. /\ length \in 1..size
        /\ \A k \in length..size : Means(F, mode, k, <<"OK", length>>)
    BY <2>4, MeansEnough
  <2>6. ~(length < size)
    <3> SUFFICES ASSUME length < size
                 PROVE  FALSE
      OBVIOUS
    <3> DEFINE k == size - 1
    <3>1. k \in Nat \ {0} /\ k \in length..size /\ size > 1
      BY <2>4, <2>5
    <3>2. Means(F, mode, k, <<"OK", length>>) /\ Means(F, mode, k, <<"TRUNCATED", 0>>)
      BY <2>4, <2>5, <3>1
    <3> HIDE DEF k
    <3>3. <<"OK", length>>[1] # "TRUNCATED" /\ <<"OK", length>> # <<"TRUNCATED", 0>>
      OBVIOUS
    <3> QED
      BY <3>1, <3>2, <3>3, MeansStable
  <2> QED
    BY <2>4, <2>5, <2>6 DEF size, length
<1> QED
  BY <1>1, HistoryHolds, PTL

-----------------------------------------------------------------------------
(* What parse_prefixes leaves is what the bytes before the opcode say.     *)

\* A class of one byte has a last one too, if it has any.
Singles == {{\hF0}, {\h66}, {\h67}}

Lasts(F, w, p) == \A class \in Singles : \E v : LastOf(F, w, p, class, v)

Told(F, p) ==
  /\ Run(F, mode, prefix.wait, p)
  /\ Says(F, mode, prefix.wait, p, prefix)
  /\ Lasts(F, prefix.wait, p)
  /\ prefix.wait => F[1] = Fwait

Opened == pc \in Fields1 \/ (Answered /\ answer.status = "OK")

Tells(F) ==
  /\ pc = "prefixes" => Told(F, position)
  /\ Opened =>
       /\ Told(F, encoding.prefixSize)
       /\ opcode = F[encoding.prefixSize + 1]

CursorTells ==
  /\ Opened => encoding.prefixSize + 1 <= Len(tape)
  /\ \A F \in Streams : Agrees(F) => Tells(F)

LEMMA NothingLast ==
  ASSUME NEW F
  PROVE  Lasts(F, FALSE, 0) /\ Lasts(F, TRUE, 1)
<1>1. First(FALSE)..0 = {} /\ First(TRUE)..1 = {}
  BY DEF First
<1>2. \A class : ~Has(F, FALSE, 0, class) /\ ~Has(F, TRUE, 1, class)
  BY <1>1 DEF Has
<1>3. \A class : LastOf(F, FALSE, 0, class, 0) /\ LastOf(F, TRUE, 1, class, 0)
  BY <1>2 DEF LastOf
<1> QED
  BY <1>3, Zenon DEF Lasts

LEMMA LastsOn ==
  ASSUME NEW F, NEW w \in BOOLEAN, NEW p \in Nat, p + 1 >= First(w),
         Lasts(F, w, p)
  PROVE  Lasts(F, w, p + 1)
<1> SUFFICES ASSUME NEW class \in Singles
             PROVE  \E v : LastOf(F, w, p + 1, class, v)
  BY DEF Lasts
<1>1. PICK v : LastOf(F, w, p, class, v)
  BY DEF Lasts
<1>2. LastOf(F, w, p + 1, class, IF F[p + 1] \in class THEN F[p + 1] ELSE v)
  BY <1>1, LastOn
<1> QED
  BY <1>2

\* A call on its way to the opcode has nothing to tell yet.
LEMMA EarlyLabels ==
  ASSUME Call \/ ScanForWait \/ ScanForAlias \/ Prefix
  PROVE  pc' \in {"wait", "alias", "prefixes"} /\ ~Opened'
<1> SUFFICES pc' \in {"wait", "alias", "prefixes"}
  BY DEF Opened, Fields1, Answered
<1>1. CASE ScanForWait
  <2>1. ASSUME NEW b,
               CASE position = 0 /\ b = Fwait -> ScanPast(b, "wait")
                 [] position > 0 /\ IsPrefix(b) -> ScanPast(b, "wait")
                 [] position > 0 /\ b \in X87 -> ScanPast(b, "alias")
                 [] OTHER -> LookAt(b) /\ NoAlias
        PROVE  ScanPast(b, "wait") \/ ScanPast(b, "alias") \/ NoAlias
    BY <2>1, Zenon
  <2>2. \/ NoAlias
        \/ \E b : ScanPast(b, "wait") \/ ScanPast(b, "alias")
    BY <1>1, <2>1, Zenon DEF ScanForWait
  <2> QED
    BY <2>2 DEF ScanPast, NoAlias, Goto
<1>2. CASE Call \/ ScanForAlias \/ Prefix
  BY <1>2 DEF Call, ScanForAlias, Prefix, NoAlias, Goto
<1> QED
  BY <1>1, <1>2

\* A call on its way to the prefixes, or on its way in them.
LEMMA TellsEarly ==
  ASSUME TypeOK, CursorFollows, CursorFollows', CursorTells,
         Call \/ ScanForWait \/ ScanForAlias \/ Prefix
  PROVE  CursorTells'
<1>1. pc' \in {"wait", "alias", "prefixes"} /\ ~Opened'
  BY EarlyLabels
<1>3. ASSUME pc' = "prefixes", NEW F \in Streams, Agrees(F)'
      PROVE  Told(F, position)'
  <2>1. FollowsPrefixes(F)'
    BY <1>3 DEF CursorFollows, Follows
  <2>2. /\ prefix'.wait = Waits(F, mode', codeSize')
        /\ Run(F, mode', prefix'.wait, position')
        /\ Says(F, mode', prefix'.wait, position', prefix')
    BY <1>3, <2>1, Zenon DEF FollowsPrefixes
  <2>3. prefix'.wait => F[1] = Fwait
    BY <2>2, Zenon DEF Waits
  <2>4. Lasts(F, prefix'.wait, position')
    <3>1. CASE ScanForWait \/ ScanForAlias
      <4>1. pc \in Scanning
        BY <3>1 DEF ScanForWait, ScanForAlias, Scanning
      <4>2. Agrees(F)
        BY <1>3, <3>1, AgreedBefore DEF Next, Step
      <4>3. prefix = NoPrefix
        BY <4>1, <4>2, Zenon DEF CursorFollows, Follows, FollowsScan
      <4>4. \/ position' = 0 /\ prefix' = prefix
            \/ position' = 1 /\ prefix' = [prefix EXCEPT !.wait = TRUE]
        <5>1. CASE ScanForAlias
          BY <5>1 DEF ScanForAlias, NoAlias
        <5>2. CASE ScanForWait
          <6>1. ASSUME NEW b,
                       CASE position = 0 /\ b = Fwait -> ScanPast(b, "wait")
                         [] position > 0 /\ IsPrefix(b) -> ScanPast(b, "wait")
                         [] position > 0 /\ b \in X87 -> ScanPast(b, "alias")
                         [] OTHER -> LookAt(b) /\ NoAlias
                PROVE  ScanPast(b, "wait") \/ ScanPast(b, "alias") \/ NoAlias
            BY <6>1, Zenon
          <6>2. \/ NoAlias
                \/ \E b : ScanPast(b, "wait") \/ ScanPast(b, "alias")
            BY <5>2, <6>1, Zenon DEF ScanForWait
          <6> QED
            BY <1>3, <6>2 DEF ScanPast, NoAlias, Goto
        <5> QED
          BY <3>1, <5>1, <5>2
      <4>5. \/ position' = 0 /\ prefix'.wait = FALSE
            \/ position' = 1 /\ prefix'.wait = TRUE
        BY <4>3, <4>4 DEF NoPrefix
      <4> QED
        BY <4>5, NothingLast, Zenon
    <3>2. CASE Prefix
      <4>1. /\ pc = "prefixes" /\ position' = position + 1
        BY <3>2 DEF Prefix
      <4>2. Agrees(F)
        BY <1>3, <3>2, AgreedBefore DEF Next, Step
      <4>3. /\ Lasts(F, prefix.wait, position)
            /\ position + 1 >= First(prefix.wait)
        BY <4>1, <4>2, Zenon
        DEF CursorTells, Tells, Told, CursorFollows, Follows, FollowsPrefixes
      <4>4. prefix'.wait = prefix.wait /\ prefix.wait \in BOOLEAN
        <5>1. PICK b : prefix' = IF b \in Legacy THEN WithLegacy(b)
                                 ELSE [prefix EXCEPT !.rex = b]
          BY <3>2 DEF Prefix
        <5>2. prefix \in Prefixes
          BY DEF TypeOK
        <5>3. [prefix EXCEPT !.rex = b].wait = prefix.wait
              /\ prefix.wait \in BOOLEAN
          BY <5>2 DEF Prefixes
        <5> QED
          BY <5>1, <5>2, <5>3, WithLegacyTypes
      <4>5. position \in Nat
        BY DEF TypeOK, Sizes
      <4> DEFINE w == prefix.wait
      <4>6. Lasts(F, w, position) /\ position + 1 >= First(w) /\ w \in BOOLEAN
        BY <4>3, <4>4, Zenon
      <4> HIDE DEF w
      <4>7. Lasts(F, w, position + 1)
        BY <4>5, <4>6, LastsOn
      <4> QED
        BY <4>1, <4>4, <4>7, Zenon DEF w
    <3>3. ~Call
      BY <1>3 DEF Call
    <3> QED
      BY <3>1, <3>2, <3>3
  <2> QED
    BY <2>2, <2>3, <2>4, Zenon DEF Told
<1> QED
  BY <1>1, <1>3 DEF CursorTells, Tells

LEMMA TellsOfOpcode ==
  ASSUME TypeOK, TypeOK', CursorFollows, CursorTells, Opcode
  PROVE  CursorTells'
<1>1. PICK b \in Ahead("opcode") : LookAt(b) /\ opcode' = b
  BY DEF Opcode
<1>2. /\ pc = "prefixes" /\ pc' # "prefixes" /\ mode' = mode
      /\ prefix' = prefix /\ position <= Len(tape)
  <2>1. \/ Return("HANDED_ON") \/ Return("INVALID")
        \/ Goto("modrm") \/ Goto("displacement")
    BY OpcodeCases
  <2> QED
    BY <2>1 DEF Opcode, Return, Goto, CursorFollows, Started
<1>3. encoding'.prefixSize = position
  BY DEF Opcode, TypeOK, Encodings
<1>4. position + 1 <= Len(tape')
  BY <1>1, <1>2, TapeGrows DEF Kinds
<1>5. ASSUME NEW F \in Streams, Agrees(F)'
      PROVE  Tells(F)'
  <2>1. Agrees(F) /\ F[position + 1] = b
    BY <1>1, <1>2, <1>5, LookedAt DEF Kinds
  <2>2. Told(F, position)
    BY <1>2, <2>1 DEF CursorTells, Tells
  <2>3. Told(F, encoding.prefixSize)'
    BY <1>2, <1>3, <2>2 DEF Told
  <2>4. opcode' = F[encoding'.prefixSize + 1]
    BY <1>1, <1>3, <2>1
  <2> QED
    BY <1>2, <2>3, <2>4 DEF Tells
<1> QED
  BY <1>3, <1>4, <1>5 DEF CursorTells

\* Past the opcode the prefixes stand.
LEMMA TellsLater ==
  ASSUME TypeOK, TypeOK', CursorTells, [Next]_vars,
         pc \in Fields1 \cup {"idle"}, pc' \in Fields1 \cup {"idle"},
         Opened' => Opened, mode' = mode, prefix' = prefix, opcode' = opcode,
         encoding'.prefixSize = encoding.prefixSize
  PROVE  CursorTells'
<1>1. pc' # "prefixes"
  BY DEF Fields1
<1>2. Opened' => encoding'.prefixSize + 1 <= Len(tape')
  <2>1. Opened => encoding.prefixSize + 1 <= Len(tape)
    BY DEF CursorTells
  <2>2. encoding.prefixSize \in Nat
    BY CursorAssumption DEF TypeOK, Encodings, Sizes
  <2>3. Len(tape) \in Nat /\ Len(tape') \in Nat /\ Len(tape') >= Len(tape)
    BY TapeOnlyGrows
  <2> QED
    BY <2>1, <2>2, <2>3
<1>3. ASSUME NEW F \in Streams, Agrees(F)'
      PROVE  Tells(F)'
  <2>1. Tells(F)
    BY <1>3, AgreedBefore DEF CursorTells
  <2>2. Told(F, encoding.prefixSize)' <=> Told(F, encoding.prefixSize)
    BY DEF Told
  <2> QED
    BY <1>1, <2>1, <2>2 DEF Tells
<1> QED
  BY <1>2, <1>3 DEF CursorTells

LEMMA NextTells ==
  ASSUME TypeOK, CursorFollows, CursorTells, [Next]_vars
  PROVE  CursorTells'
<1>1. TypeOK' /\ CursorFollows'
  BY NextTypes, NextFollows
<1>2. CASE Call \/ ScanForWait \/ ScanForAlias \/ Prefix
  BY <1>1, <1>2, TellsEarly
<1>3. CASE Opcode
  BY <1>1, <1>3, TellsOfOpcode
<1>4. CASE PrefixLimit \/ PrefixesTruncated \/ Rex2Prefix
  <2>1. PICK status \in {"INVALID", "TRUNCATED", "HANDED_ON"} : Return(status)
    BY <1>4, RequireStatus DEF PrefixLimit, PrefixesTruncated, Rex2Prefix, Fail
  <2>2. pc' = "idle" /\ ~Opened'
    BY <2>1 DEF Return, Opened, Fields1
  <2> QED
    BY <2>2 DEF CursorTells, Tells
<1>5. CASE \/ ModrmMissing \/ SibMissing \/ DisplacementMissing
           \/ ImmediateMissing \/ Finish \/ ModrmRejected
  <2>1. /\ pc \in Fields1 /\ pc' = "idle" /\ mode' = mode /\ prefix' = prefix
        /\ opcode' = opcode /\ encoding' = encoding
    BY <1>5 DEF ModrmMissing, SibMissing, DisplacementMissing, ImmediateMissing,
                Finish, ModrmRejected, Fail, Return, decoder, stream, Fields1
  <2> QED
    BY <1>1, <2>1, TellsLater DEF Opened
<1>6. CASE Modrm \/ Sib \/ Displacement \/ Immediate
  <2>1. /\ pc \in Fields1 /\ mode' = mode /\ prefix' = prefix
        /\ opcode' = opcode
    BY <1>6 DEF Modrm, Sib, Displacement, Immediate, stream, Fields1
  <2>2. encoding'.prefixSize = encoding.prefixSize
    BY <1>6 DEF Modrm, Sib, Displacement, Immediate, TypeOK, Encodings
  <2>3. pc' \in Fields1 \cup {"idle"}
    <3>1. CASE Displacement
      BY <3>1 DEF Displacement, Goto, Return, Fields1
    <3>2. CASE Modrm \/ Sib \/ Immediate
      BY <3>2 DEF Modrm, Sib, Immediate, Goto, Fields1
    <3> QED
      BY <1>6, <3>1, <3>2
  <2> QED
    BY <1>1, <2>1, <2>2, <2>3, TellsLater DEF Opened
<1>7. CASE UNCHANGED vars
  <2>1. /\ mode' = mode /\ tape' = tape /\ codeSize' = codeSize /\ pc' = pc
        /\ position' = position /\ prefix' = prefix /\ opcode' = opcode
        /\ encoding' = encoding /\ answer' = answer
    BY <1>7 DEF vars, stream, decoder
  <2>2. ASSUME NEW F \in Streams
        PROVE  (Agrees(F)' <=> Agrees(F)) /\ (Tells(F)' <=> Tells(F))
    BY <2>1 DEF Agrees, Tells, Told, Opened, Answered
  <2>3. Opened' <=> Opened
    BY <2>1 DEF Opened, Answered
  <2> QED
    BY <2>1, <2>2, <2>3 DEF CursorTells
<1> QED
  BY <1>2, <1>3, <1>4, <1>5, <1>6, <1>7 DEF Next, Step

\* The last byte of a class before the opcode, as the property finds it.
LEMMA LastPlace ==
  ASSUME NEW F \in Streams, encoding.prefixSize \in Nat, prefix.wait \in BOOLEAN,
         \A i \in 1..encoding.prefixSize : F[i] = tape[i], NEW class,
         NEW v, LastOf(F, prefix.wait, encoding.prefixSize, class, v)
  PROVE  LastPrefixIn(class) = v
<1> DEFINE n == encoding.prefixSize
           w == prefix.wait
           places == {i \in PrefixPlaces : tape[i] \in class}
<1>1. First(w) \in {1, 2} /\ \A i : i \in PrefixPlaces <=> i \in First(w)..n
  BY DEF PrefixPlaces, First
<1>2. \A i : i \in places <=> i \in First(w)..n /\ F[i] \in class
  BY <1>1
<1>3. LastPrefixIn(class) = IF places = {} THEN 0
                            ELSE tape[CHOOSE i \in places : \A j \in places : j <= i]
  BY Zenon DEF LastPrefixIn
<1> HIDE DEF places
<1>4. CASE v = 0 /\ ~Has(F, w, n, class)
  <2>1. places = {}
    BY <1>2, <1>4, Zenon DEF Has
  <2> QED
    BY <1>3, <1>4, <2>1
<1>5. ASSUME NEW i \in First(w)..n, v = F[i], F[i] \in class,
             \A j \in First(w)..n : j > i => F[j] \notin class
      PROVE  LastPrefixIn(class) = v
  <2>1. i \in places /\ \A j \in places : j <= i
    BY <1>1, <1>2, <1>5
  <2> DEFINE last == CHOOSE k \in places : \A j \in places : j <= k
  <2>2. last \in places /\ \A j \in places : j <= last
    BY <2>1, Zenon
  <2>3. last = i
    <3> HIDE DEF last
    <3>1. last <= i /\ i <= last /\ last \in Int /\ i \in Int
      BY <1>1, <1>2, <2>1, <2>2
    <3> QED
      BY <3>1
  <2>4. tape[last] = v
    <3>1. i \in 1..n
      BY <1>1
    <3> QED
      BY <1>5, <2>3, <3>1
  <2> HIDE DEF last
  <2>5. LastPrefixIn(class) = tape[last]
    BY <1>3, <2>1 DEF last
  <2> QED
    BY <2>4, <2>5
<1> QED
  BY <1>4, <1>5, Zenon DEF LastOf

\* What parse_prefixes leaves is what the bytes before the opcode say, for every
\* limit, stream and mode, however many prefixes there are.
THEOREM PrefixesAreRead == Spec => []PrefixesRead
<1>1. Init => CursorTells
  BY DEF Init, CursorTells, Tells, Opened, Fields1, Answered
<1>2. TypeOK /\ CursorFollows /\ CursorTells /\ [Next]_vars => CursorTells'
  BY NextTells
<1>3. TypeOK /\ CursorTells => PrefixesRead
  <2> SUFFICES ASSUME TypeOK, CursorTells, Answered, answer.status = "OK"
               PROVE  PrefixesRead
    BY DEF PrefixesRead
  <2>1. PICK F \in Streams : Agrees(F)
    BY SomeStream
  <2> DEFINE n == encoding.prefixSize
             w == prefix.wait
  <2>2. /\ n + 1 <= Len(tape) /\ Told(F, n) /\ opcode = F[n + 1]
    BY <2>1 DEF CursorTells, Opened, Tells
  <2>3. n \in Nat /\ Len(tape) \in Nat /\ w \in BOOLEAN
    BY DEF TypeOK, Encodings, Sizes, Prefixes
  <2>4. \A i \in 1..(n + 1) : F[i] = tape[i]
    BY <2>1, <2>2, <2>3 DEF Agrees
  <2>5. /\ Run(F, mode, w, n) /\ Says(F, mode, w, n, prefix)
        /\ Lasts(F, w, n) /\ (w => F[1] = Fwait)
    BY <2>2, Zenon DEF Told
  <2>6. First(w) \in {1, 2} /\ \A i : i \in PrefixPlaces <=> i \in First(w)..n
    BY <2>3 DEF PrefixPlaces, First
  <2>7. opcode = tape[n + 1] /\ (w => tape[1] = Fwait)
    BY <2>2, <2>3, <2>4, <2>5
  <2>8. \A i \in PrefixPlaces : IsPrefix(tape[i])
    <3> SUFFICES ASSUME NEW i \in First(w)..n
                 PROVE  IsPrefix(tape[i])
      BY <2>6
    <3>1. PrefixIn(F[i], mode)
      BY <2>5, Zenon DEF Run
    <3>2. F[i] = tape[i]
      BY <2>3, <2>4, <2>6
    <3> QED
      BY <3>1, <3>2, Links
  <2>9. ASSUME NEW class, 0 \notin class, NEW v, LastOf(F, w, n, class, v)
        PROVE  LastPrefixIn(class) = v /\ Has(F, w, n, class) = (v # 0)
    <3>1. LastPrefixIn(class) = v
      BY <2>3, <2>4, <2>9, LastPlace
    <3>2. v = 0 => ~Has(F, w, n, class)
      BY <2>9, Zenon DEF LastOf
    <3>3. v # 0 => Has(F, w, n, class)
      BY <2>9, Zenon DEF LastOf, Has
    <3>4. CASE v = 0
      <4>1. (v # 0) = FALSE
        BY <3>4
      <4>2. Has(F, w, n, class) = FALSE
        BY <3>2, <3>4, Zenon DEF Has
      <4> QED
        BY <3>1, <4>1, <4>2, Zenon
    <3>5. CASE v # 0
      <4>1. (v # 0) = TRUE
        BY <3>5
      <4>2. Has(F, w, n, class) = TRUE
        BY <3>3, <3>5, Zenon DEF Has
      <4> QED
        BY <3>1, <4>1, <4>2, Zenon
    <3> QED
      BY <3>4, <3>5, Zenon
  <2>10. ASSUME NEW class \in Singles
         PROVE  Has(F, w, n, class) = (LastPrefixIn(class) # 0)
    <3>1. 0 \notin class
      BY DEF Singles
    <3>2. PICK v : LastOf(F, w, n, class, v)
      BY <2>5, Zenon DEF Lasts
    <3> QED
      BY <2>9, <3>1, <3>2, Zenon
  <2>11. /\ {\hF0} \in Singles /\ {\h66} \in Singles /\ {\h67} \in Singles
    BY DEF Singles
  <2>12. /\ prefix.lock = (LastPrefixIn({\hF0}) # 0)
         /\ prefix.operand = (LastPrefixIn({\h66}) # 0)
         /\ prefix.address = (LastPrefixIn({\h67}) # 0)
    <3>1. /\ prefix.lock = Has(F, w, n, {\hF0})
          /\ prefix.operand = Has(F, w, n, {\h66})
          /\ prefix.address = Has(F, w, n, {\h67})
      BY <2>5, Zenon DEF Says
    <3>2. /\ Has(F, w, n, {\hF0}) = (LastPrefixIn({\hF0}) # 0)
          /\ Has(F, w, n, {\h66}) = (LastPrefixIn({\h66}) # 0)
          /\ Has(F, w, n, {\h67}) = (LastPrefixIn({\h67}) # 0)
      BY <2>10, <2>11
    <3>3. prefix.lock = (LastPrefixIn({\hF0}) # 0)
      BY <3>1, <3>2, Zenon
    <3>4. prefix.operand = (LastPrefixIn({\h66}) # 0)
      BY <3>1, <3>2, Zenon
    <3>5. prefix.address = (LastPrefixIn({\h67}) # 0)
      BY <3>1, <3>2, Zenon
    <3> QED
      BY <3>3, <3>4, <3>5, Zenon
  <2>13. /\ prefix.repeat = LastPrefixIn({\hF2, \hF3})
         /\ prefix.segment = LastPrefixIn(Segments)
    <3>1. /\ LastOf(F, w, n, {\hF2, \hF3}, prefix.repeat)
          /\ LastOf(F, w, n, Segments, prefix.segment)
      BY <2>5, Zenon DEF Says
    <3>2. 0 \notin {\hF2, \hF3} /\ 0 \notin Segments
      BY DEF Segments
    <3> QED
      BY <2>9, <3>1, <3>2
  <2>14. prefix.rex = IF n \in PrefixPlaces /\ IsRex(tape[n], mode)
                      THEN tape[n] ELSE 0
    <3>1. prefix.rex = IF n >= First(w) /\ IsRex(F[n], mode) THEN F[n] ELSE 0
      BY <2>5, Zenon DEF Says
    <3>2. n \in PrefixPlaces <=> n >= First(w)
      BY <2>3, <2>6
    <3>3. n >= First(w) => F[n] = tape[n]
      BY <2>3, <2>4, <2>6
    <3> QED
      BY <3>1, <3>2, <3>3
  <2> QED
    BY <2>7, <2>8, <2>12, <2>13, <2>14, Zenon DEF PrefixesRead
<1> QED
  BY <1>1, <1>2, <1>3, HistoryHolds, PTL DEF Spec, CursorHistory

-----------------------------------------------------------------------------
(* The fields of the encoding follow one another.                          *)

AfterModrm ==
  IF encoding.modrmOffset = 0 THEN encoding.prefixSize + 1
  ELSE encoding.modrmOffset + 1

AfterSib ==
  IF encoding.sibOffset = 0 THEN AfterModrm ELSE encoding.sibOffset + 1

AfterDisplacement ==
  IF encoding.displacementSize = 0 THEN AfterSib
  ELSE encoding.displacementOffset + encoding.displacementSize

FirstImmediate == encoding.immediates[1]
SecondImmediate == encoding.immediates[2]

AfterImmediates ==
  IF Taken = 0 THEN AfterDisplacement
  ELSE IF Taken = 1 THEN FirstImmediate[1] + FirstImmediate[2]
  ELSE SecondImmediate[1] + SecondImmediate[2]

Chained ==
  /\ encoding.modrmOffset \in {0, encoding.prefixSize + 1}
  /\ encoding.sibOffset \in {0, AfterModrm}
  /\ IF encoding.displacementSize = 0 THEN encoding.displacementOffset = 0
     ELSE encoding.displacementOffset = AfterSib
  /\ Taken <= 2
  /\ Taken >= 1 => FirstImmediate[1] = AfterDisplacement
  /\ Taken = 2 => SecondImmediate[1] = FirstImmediate[1] + FirstImmediate[2]
  /\ position = AfterImmediates

\* The offsets of what is still to be read are zero.
Unset ==
  /\ pc = "modrm" => encoding.modrmOffset = 0
  /\ pc \in {"modrm", "sib"} => encoding.sibOffset = 0
  /\ pc \in {"modrm", "sib", "displacement"} =>
       /\ encoding.displacementOffset = 0 /\ encoding.displacementSize = 0
       /\ encoding.immediates = <<>>
  /\ pc = "immediates" => Taken <= Len(immediates)

CursorChains ==
  /\ Opened => Chained /\ Unset
  /\ Answered /\ answer.status = "OK" => answer.length = position

LEMMA ChainsOfOpcode ==
  ASSUME TypeOK, Started, Opcode
  PROVE  CursorChains'
<1>1. /\ pc = "prefixes" /\ encoding = NoEncoding /\ position' = position + 1
      /\ encoding' = [encoding EXCEPT !.prefixSize = position]
  BY DEF Opcode, Started
<1>2. /\ encoding'.prefixSize = position /\ encoding'.modrmOffset = 0
      /\ encoding'.sibOffset = 0 /\ encoding'.displacementOffset = 0
      /\ encoding'.displacementSize = 0 /\ encoding'.immediates = <<>>
  BY <1>1 DEF NoEncoding
<1>3. \/ Return("HANDED_ON") \/ Return("INVALID")
      \/ Goto("modrm") \/ Goto("displacement")
  BY OpcodeCases
<1>4. /\ pc' \in {"idle", "modrm", "displacement"}
      /\ pc' = "idle" => answer'.status # "OK"
  BY <1>3 DEF Return, Goto
<1>5. Taken' = 0
  BY <1>2 DEF Taken
<1>6. Chained'
  BY <1>1, <1>2, <1>5 DEF Chained, AfterImmediates, AfterDisplacement, AfterSib,
                          AfterModrm
<1>7. Unset'
  BY <1>2, <1>4 DEF Unset
<1> QED
  BY <1>4, <1>6, <1>7 DEF CursorChains, Scanning, Answered

LEMMA ChainsOfModrm ==
  ASSUME TypeOK, CursorChains, Modrm \/ Sib
  PROVE  CursorChains'
<1>1. /\ pc \in {"modrm", "sib"} /\ position' = position + 1
      /\ pc' \in {"sib", "displacement"} /\ Chained /\ Unset
      /\ pc = "sib" => pc' = "displacement"
  BY DEF Modrm, Sib, Goto, CursorChains, Opened, Fields1
<1>2. position \in Nat /\ encoding.prefixSize \in Nat
      /\ encoding.modrmOffset \in Nat
  BY DEF TypeOK, Encodings, Sizes
<1>3. /\ encoding'.prefixSize = encoding.prefixSize
      /\ encoding'.displacementOffset = 0 /\ encoding'.displacementSize = 0
      /\ encoding'.immediates = <<>>
      /\ IF pc = "modrm"
         THEN encoding'.modrmOffset = position /\ encoding'.sibOffset = 0
         ELSE /\ encoding'.modrmOffset = encoding.modrmOffset
              /\ encoding'.sibOffset = position
  BY <1>1 DEF Modrm, Sib, Unset, TypeOK, Encodings
<1>4. Taken = 0 /\ Taken' = 0
  BY <1>1, <1>3 DEF Taken, Unset
<1>5. position = AfterModrm /\ (pc = "modrm" => position = encoding.prefixSize + 1)
  BY <1>1, <1>4 DEF Chained, Unset, AfterImmediates, AfterDisplacement, AfterSib,
                    AfterModrm
<1>6. Chained'
  <2>1. CASE pc = "modrm"
    BY <1>1, <1>2, <1>3, <1>4, <1>5, <2>1
    DEF Chained, AfterImmediates, AfterDisplacement, AfterSib, AfterModrm
  <2>2. CASE pc = "sib"
    <3>1. AfterModrm' = AfterModrm /\ position # 0
      BY <1>2, <1>3, <1>5, <2>2 DEF AfterModrm
    <3> QED
      BY <1>1, <1>2, <1>3, <1>4, <1>5, <2>2, <3>1
      DEF Chained, AfterImmediates, AfterDisplacement, AfterSib
  <2> QED
    BY <1>1, <2>1, <2>2
<1>7. Unset'
  BY <1>1, <1>3 DEF Unset
<1> QED
  BY <1>1, <1>6, <1>7 DEF CursorChains, Scanning, Answered

LEMMA ChainsOfDisplacement ==
  ASSUME TypeOK, CursorChains, Displacement
  PROVE  CursorChains'
<1>1. /\ pc = "displacement" /\ position' = position + displacement
      /\ Chained /\ Unset
      /\ IF Judged = "OK" THEN Goto("immediates") ELSE Return(Judged)
  BY DEF Displacement, CursorChains, Opened, Fields1
<1>2. displacement \in {0, 1, 2, 4, 8} /\ position \in Nat
  BY DisplacementSizes DEF TypeOK, Sizes
<1>3. /\ encoding'.prefixSize = encoding.prefixSize
      /\ encoding'.modrmOffset = encoding.modrmOffset
      /\ encoding'.sibOffset = encoding.sibOffset
      /\ encoding'.immediates = <<>>
      /\ encoding'.displacementSize = displacement
      /\ encoding'.displacementOffset = IF displacement = 0 THEN 0 ELSE position
  BY <1>1 DEF Displacement, Unset, TypeOK, Encodings
<1>4. Taken = 0 /\ Taken' = 0 /\ AfterSib' = AfterSib /\ AfterModrm' = AfterModrm
  BY <1>1, <1>3 DEF Taken, Unset, AfterSib, AfterModrm
<1>5. position = AfterSib
  BY <1>1, <1>4 DEF Chained, Unset, AfterImmediates, AfterDisplacement
<1>6. Chained'
  BY <1>1, <1>2, <1>3, <1>4, <1>5
  DEF Chained, AfterImmediates, AfterDisplacement
<1>7. pc' = IF Judged = "OK" THEN "immediates" ELSE "idle"
  BY <1>1 DEF Goto, Return
<1>8. pc' = "idle" => answer'.status # "OK"
  BY <1>1, <1>7 DEF Return
<1>9. Unset'
  <2>1. Len(immediates') \in Nat
    <3>1. immediates' = ImmediatesOf(opcode', encoding'.modrm, prefix', mode')
      BY DEF immediates, ImmediatesOf, opBits
    <3> QED
      BY <3>1, ImmediatesFew
  <2> QED
    BY <1>4, <1>7, <2>1 DEF Unset
<1> QED
  BY <1>6, <1>7, <1>8, <1>9 DEF CursorChains, Scanning, Answered

LEMMA ChainsOfImmediate ==
  ASSUME TypeOK, CursorChains, Immediate
  PROVE  CursorChains'
<1> DEFINE size == immediates[Taken + 1]
           field == <<position, size>>
<1>1. /\ pc = "immediates" /\ pc' = "immediates" /\ position' = position + size
      /\ Taken < Len(immediates) /\ Chained /\ Unset
      /\ encoding' = [encoding EXCEPT !.immediates =
                        Append(encoding.immediates, field)]
  BY DEF Immediate, Goto, CursorChains, Opened, Fields1
<1>2. Taken \in Nat /\ position \in Nat
      /\ encoding.immediates \in Seq(Sizes \X {1, 2, 4, 8})
  BY DEF TypeOK, Encodings, Taken, Sizes
<1>3. immediates \in Seq({1, 2, 4, 8}) /\ Len(immediates) <= 2
  BY Links, ImmediatesFew
<1>4. Taken \in {0, 1} /\ size \in Nat
  BY <1>1, <1>2, <1>3
<1>5. /\ encoding'.prefixSize = encoding.prefixSize
      /\ encoding'.modrmOffset = encoding.modrmOffset
      /\ encoding'.modrm = encoding.modrm
      /\ encoding'.sibOffset = encoding.sibOffset
      /\ encoding'.displacementSize = encoding.displacementSize
      /\ encoding'.displacementOffset = encoding.displacementOffset
      /\ encoding'.immediates = Append(encoding.immediates, field)
  BY <1>1 DEF TypeOK, Encodings
<1> HIDE DEF size, field
<1>6. /\ AfterDisplacement' = AfterDisplacement /\ AfterSib' = AfterSib
      /\ AfterModrm' = AfterModrm
  BY <1>5 DEF AfterDisplacement, AfterSib, AfterModrm
<1>7. /\ Taken' = Taken + 1
      /\ encoding'.immediates[Taken + 1] = field
      /\ Taken = 1 => encoding'.immediates[1] = encoding.immediates[1]
  BY <1>2, <1>5 DEF Taken
<1>8. field[1] = position /\ field[2] = size
  BY DEF field
<1>9. Chained'
  <2>1. CASE Taken = 0
    <3>1. /\ Taken' = 1 /\ FirstImmediate' = field /\ position = AfterDisplacement
      BY <1>1, <1>7, <2>1 DEF FirstImmediate, Chained, AfterImmediates
    <3> QED
      BY <1>1, <1>5, <1>6, <1>8, <3>1 DEF Chained, AfterImmediates
  <2>2. CASE Taken = 1
    <3>1. /\ Taken' = 2 /\ SecondImmediate' = field
          /\ FirstImmediate' = FirstImmediate
          /\ position = FirstImmediate[1] + FirstImmediate[2]
      <4>1. Taken + 1 = 2 /\ Taken' = 2
        BY <1>7, <2>2
      <4>2. encoding'.immediates[2] = field
        BY <1>7, <4>1, Zenon
      <4>3. SecondImmediate' = field
        BY <4>2 DEF SecondImmediate
      <4>4. FirstImmediate' = FirstImmediate
        BY <1>7, <2>2 DEF FirstImmediate
      <4>5. position = FirstImmediate[1] + FirstImmediate[2]
        BY <1>1, <2>2 DEF Chained, AfterImmediates
      <4> QED
        BY <4>1, <4>3, <4>4, <4>5
    <3> QED
      BY <1>1, <1>5, <1>6, <1>8, <2>2, <3>1 DEF Chained, AfterImmediates
  <2> QED
    BY <1>4, <2>1, <2>2
<1>10. Unset'
  <2>1. immediates' = immediates
    BY <1>5 DEF Immediate, immediates, opBits, stream
  <2>2. Taken' <= Len(immediates')
    BY <1>1, <1>2, <1>3, <1>7, <2>1
  <2> QED
    BY <1>1, <2>2 DEF Unset
<1> QED
  BY <1>1, <1>9, <1>10 DEF CursorChains, Scanning, Answered

LEMMA NextChains ==
  ASSUME TypeOK, CursorFollows, CursorChains, [Next]_vars
  PROVE  CursorChains'
<1>1. CASE Call \/ ScanForWait \/ ScanForAlias \/ Prefix
  BY <1>1, EarlyLabels DEF CursorChains, Opened
<1>2. CASE Opcode
  BY <1>2, ChainsOfOpcode DEF CursorFollows
<1>3. CASE \/ PrefixLimit \/ PrefixesTruncated \/ Rex2Prefix \/ ModrmMissing
           \/ ModrmRejected \/ SibMissing \/ DisplacementMissing
           \/ ImmediateMissing
  <2>1. PICK status : Return(status) /\ status # "OK"
    <3>1. CASE PrefixLimit \/ PrefixesTruncated \/ Rex2Prefix
      BY <3>1, RequireStatus DEF PrefixLimit, PrefixesTruncated, Rex2Prefix, Fail
    <3>2. CASE ModrmMissing
      BY <3>2 DEF ModrmMissing, NoModrm, Fail
    <3>3. CASE ModrmRejected
      BY <3>3 DEF ModrmRejected
    <3>4. CASE SibMissing \/ DisplacementMissing \/ ImmediateMissing
      BY <3>4 DEF SibMissing, DisplacementMissing, ImmediateMissing, Fail
    <3> QED
      BY <1>3, <3>1, <3>2, <3>3, <3>4
  <2>2. ~Opened'
    BY <2>1 DEF Return, Opened, Fields1
  <2> QED
    BY <2>2 DEF CursorChains, Opened
<1>4. CASE Modrm \/ Sib
  BY <1>4, ChainsOfModrm
<1>5. CASE Displacement
  BY <1>5, ChainsOfDisplacement
<1>6. CASE Immediate
  BY <1>6, ChainsOfImmediate
<1>7. CASE Finish
  <2>1. PICK status : Return(status)
    BY <1>7 DEF Finish
  <2>2. /\ pc = "immediates" /\ encoding' = encoding /\ position' = position
    BY <1>7 DEF Finish, decoder
  <2>3. Chained
    BY <2>2 DEF CursorChains, Opened, Fields1
  <2>4. Chained'
    BY <2>2, <2>3
    DEF Chained, AfterImmediates, AfterDisplacement, AfterSib, AfterModrm, Taken,
        FirstImmediate, SecondImmediate
  <2>5. Unset'
    BY <2>1 DEF Return, Unset
  <2>6. answer'.status = "OK" => answer'.length = position'
    BY <2>1, <2>2 DEF Return
  <2> QED
    BY <2>4, <2>5, <2>6 DEF CursorChains
<1>8. CASE UNCHANGED vars
  <2>1. /\ mode' = mode /\ codeSize' = codeSize /\ pc' = pc
        /\ position' = position /\ prefix' = prefix /\ opcode' = opcode
        /\ encoding' = encoding /\ answer' = answer
    BY <1>8 DEF vars, stream, decoder
  <2>2. Chained' <=> Chained
    BY <2>1 DEF Chained, AfterImmediates, AfterDisplacement, AfterSib, AfterModrm,
                Taken, FirstImmediate, SecondImmediate
  <2>3. Unset' <=> Unset
    BY <2>1 DEF Unset, Taken, immediates, opBits
  <2> QED
    BY <2>1, <2>2, <2>3 DEF CursorChains, Opened, Answered
<1> QED
  BY <1>1, <1>2, <1>3, <1>4, <1>5, <1>6, <1>7, <1>8 DEF Next, Step

\* Where the fields meet: each that is there goes from one of these places to the
\* next, and where one is absent the two are the same.
Bounds ==
  << 0, encoding.prefixSize, encoding.prefixSize + 1, AfterModrm, AfterSib,
     AfterDisplacement,
     IF Taken = 0 THEN AfterDisplacement ELSE FirstImmediate[1] + FirstImmediate[2],
     AfterImmediates >>

LEMMA FieldsMeet ==
  ASSUME TypeOK, Chained
  PROVE  /\ \A i \in 1..8 : Bounds[i] \in Nat
         /\ \A i \in 1..7 :
              /\ Bounds[i] <= Bounds[i + 1]
              /\ IF i \in There
                 THEN Fields[i][1] = Bounds[i] /\ End(Fields[i]) = Bounds[i + 1]
                 ELSE Bounds[i + 1] = Bounds[i]
         /\ There \subseteq 1..7
<1> DEFINE e == encoding
           one(offset) == <<offset, IF offset = 0 THEN 0 ELSE 1>>
           five == << <<0, e.prefixSize>>, <<e.prefixSize, 1>>,
                      one(e.modrmOffset), one(e.sibOffset),
                      <<e.displacementOffset, e.displacementSize>> >>
<1>1. /\ e.prefixSize \in Nat /\ e.modrmOffset \in Nat /\ e.sibOffset \in Nat
      /\ e.displacementOffset \in Nat /\ e.displacementSize \in Nat
      /\ e.immediates \in Seq(Sizes \X {1, 2, 4, 8})
  BY DEF TypeOK, Encodings, Sizes
<1>2. Taken \in {0, 1, 2} /\ Len(e.immediates) = Taken
  <2>1. Len(e.immediates) = Taken
    BY DEF Taken
  <2>2. Taken \in Nat
    BY <1>1, <2>1
  <2>3. Taken <= 2
    BY DEF Chained
  <2> QED
    BY <2>1, <2>2, <2>3
<1>3. /\ Taken >= 1 => FirstImmediate[1] \in Nat /\ FirstImmediate[2] \in Nat \ {0}
      /\ Taken = 2 => SecondImmediate[1] \in Nat /\ SecondImmediate[2] \in Nat \ {0}
  <2>1. \A i \in 1..Taken : e.immediates[i] \in Sizes \X {1, 2, 4, 8}
    BY <1>1, <1>2
  <2>2. Taken >= 1 => FirstImmediate \in Sizes \X {1, 2, 4, 8}
    BY <1>2, <2>1 DEF FirstImmediate
  <2>3. Taken = 2 => SecondImmediate \in Sizes \X {1, 2, 4, 8}
    BY <1>2, <2>1 DEF SecondImmediate
  <2> QED
    BY <2>2, <2>3, CursorAssumption DEF Sizes
<1>4. /\ DOMAIN Fields = 1..(5 + Taken)
      /\ \A i \in 1..5 : Fields[i] = five[i]
      /\ Taken >= 1 => Fields[6] = FirstImmediate
      /\ Taken = 2 => Fields[7] = SecondImmediate
  <2>1. Fields = five \o e.immediates
    BY DEF Fields
  <2>2. five \in Seq(Nat \X Nat) /\ Len(five) = 5
    BY <1>1
  <2> HIDE DEF five
  <2>3. e.immediates \in Seq(Nat \X Nat)
    <3>1. Sizes \X {1, 2, 4, 8} \subseteq Nat \X Nat
      BY CursorAssumption DEF Sizes
    <3> QED
      BY <1>1, <3>1
  <2> DEFINE imm == e.immediates
  <2> HIDE DEF imm
  <2>4. /\ five \o imm \in Seq(Nat \X Nat)
        /\ Len(five \o imm) = Len(five) + Len(imm)
        /\ \A i \in 1..(Len(five) + Len(imm)) :
             (five \o imm)[i] = IF i <= Len(five) THEN five[i]
                                ELSE imm[i - Len(five)]
    <3>1. imm \in Seq(Nat \X Nat)
      BY <2>3 DEF imm
    <3> QED
      BY <2>2, <3>1, ConcatProperties
  <2>5. /\ DOMAIN Fields = 1..(5 + Taken)
        /\ \A i \in 1..(5 + Taken) :
             Fields[i] = IF i <= 5 THEN five[i] ELSE imm[i - 5]
    <3>1. Len(imm) = Taken /\ Fields = five \o imm
      BY <1>2, <2>1 DEF imm
    <3>2. DOMAIN (five \o imm) = 1..Len(five \o imm)
      BY <2>4
    <3> QED
      BY <2>2, <2>4, <3>1, <3>2
  <2>6. imm[1] = FirstImmediate /\ imm[2] = SecondImmediate
    BY DEF imm, FirstImmediate, SecondImmediate
  <2>7. /\ Taken >= 1 => 6 \in 1..(5 + Taken)
        /\ Taken = 2 => 7 \in 1..(5 + Taken)
        /\ \A i \in 1..5 : i \in 1..(5 + Taken)
    BY <1>2
  <2>8. Taken >= 1 => Fields[6] = imm[6 - 5]
    BY <2>5, <2>7
  <2>9. Taken = 2 => Fields[7] = imm[7 - 5]
    BY <2>5, <2>7
  <2>10. \A i \in 1..5 : Fields[i] = five[i]
    BY <2>5, <2>7
  <2> QED
    BY <2>5, <2>6, <2>8, <2>9, <2>10
<1>5. /\ Bounds[1] = 0 /\ Bounds[2] = e.prefixSize
      /\ Bounds[3] = e.prefixSize + 1 /\ Bounds[4] = AfterModrm
      /\ Bounds[5] = AfterSib /\ Bounds[6] = AfterDisplacement
      /\ Bounds[7] = IF Taken = 0 THEN AfterDisplacement
                     ELSE FirstImmediate[1] + FirstImmediate[2]
      /\ Bounds[8] = AfterImmediates
  BY DEF Bounds
<1>6. /\ \A i \in There : i \in 1..(5 + Taken) /\ Fields[i][2] > 0
      /\ \A i \in 1..(5 + Taken) : Fields[i][2] > 0 => i \in There
  BY <1>4 DEF There
<1>7. /\ Fields[1][1] = 0 /\ Fields[1][2] = e.prefixSize
      /\ Fields[2][1] = e.prefixSize /\ Fields[2][2] = 1
      /\ Fields[3][1] = e.modrmOffset
      /\ Fields[3][2] = IF e.modrmOffset = 0 THEN 0 ELSE 1
      /\ Fields[4][1] = e.sibOffset
      /\ Fields[4][2] = IF e.sibOffset = 0 THEN 0 ELSE 1
      /\ Fields[5][1] = e.displacementOffset
      /\ Fields[5][2] = e.displacementSize
  BY <1>4
<1> DEFINE meets(i) ==
      /\ Bounds[i] \in Nat /\ Bounds[i + 1] \in Nat
      /\ Bounds[i] <= Bounds[i + 1]
      /\ IF i \in There
         THEN Fields[i][1] = Bounds[i] /\ End(Fields[i]) = Bounds[i + 1]
         ELSE Bounds[i + 1] = Bounds[i]
<1> HIDE DEF five
<1>8. meets(1) /\ meets(2)
  BY <1>1, <1>2, <1>5, <1>6, <1>7, SMTT(40) DEF End
<1>9. /\ 3 \in There <=> e.modrmOffset # 0
      /\ 4 \in There <=> e.sibOffset # 0
      /\ 5 \in There <=> e.displacementSize # 0
      /\ 6 \in There <=> Taken >= 1
      /\ 7 \in There <=> Taken = 2
  <2>1. 3 \in 1..(5 + Taken) /\ 4 \in 1..(5 + Taken) /\ 5 \in 1..(5 + Taken)
    BY <1>2
  <2>2. 3 \in There <=> Fields[3][2] > 0
    BY <1>6, <2>1
  <2>3. 4 \in There <=> Fields[4][2] > 0
    BY <1>6, <2>1
  <2>4. 5 \in There <=> Fields[5][2] > 0
    BY <1>6, <2>1
  <2>5. 6 \in There <=> Taken >= 1
    <3>1. CASE Taken = 0
      BY <1>6, <3>1
    <3>2. CASE Taken >= 1
      <4>1. 6 \in 1..(5 + Taken) /\ Fields[6][2] > 0
        BY <1>2, <1>3, <1>4, <3>2
      <4> QED
        BY <1>6, <3>2, <4>1
    <3> QED
      BY <1>2, <3>1, <3>2
  <2>6. 7 \in There <=> Taken = 2
    <3>1. CASE Taken # 2
      BY <1>2, <1>6, <3>1
    <3>2. CASE Taken = 2
      <4>1. 7 \in 1..(5 + Taken) /\ Fields[7][2] > 0
        BY <1>3, <1>4, <3>2
      <4> QED
        BY <1>6, <3>2, <4>1
    <3> QED
      BY <3>1, <3>2
  <2> QED
    BY <1>1, <1>7, <2>2, <2>3, <2>4, <2>5, <2>6
<1>10. /\ AfterModrm \in Nat
       /\ e.modrmOffset = 0 => AfterModrm = e.prefixSize + 1
       /\ e.modrmOffset # 0 => /\ e.modrmOffset = e.prefixSize + 1
                               /\ AfterModrm = e.modrmOffset + 1
  <2>1. e.modrmOffset \in {0, e.prefixSize + 1}
    BY DEF Chained
  <2> QED
    BY <1>1, <2>1 DEF AfterModrm
<1>11. /\ AfterSib \in Nat
       /\ e.sibOffset = 0 => AfterSib = AfterModrm
       /\ e.sibOffset # 0 => e.sibOffset = AfterModrm /\ AfterSib = e.sibOffset + 1
  <2>1. e.sibOffset \in {0, AfterModrm}
    BY DEF Chained
  <2> QED
    BY <1>1, <1>10, <2>1 DEF AfterSib
<1>12. /\ AfterDisplacement \in Nat
       /\ e.displacementSize = 0 => AfterDisplacement = AfterSib
       /\ e.displacementSize # 0 =>
            /\ e.displacementOffset = AfterSib
            /\ AfterDisplacement = e.displacementOffset + e.displacementSize
  <2>1. e.displacementSize # 0 => e.displacementOffset = AfterSib
    BY DEF Chained
  <2> QED
    BY <1>1, <1>11, <2>1 DEF AfterDisplacement
<1>13. /\ Taken = 0 => AfterImmediates = AfterDisplacement
       /\ Taken >= 1 => FirstImmediate[1] = AfterDisplacement
       /\ Taken = 1 => AfterImmediates = FirstImmediate[1] + FirstImmediate[2]
       /\ Taken = 2 =>
            /\ SecondImmediate[1] = FirstImmediate[1] + FirstImmediate[2]
            /\ AfterImmediates = SecondImmediate[1] + SecondImmediate[2]
  BY <1>2 DEF Chained, AfterImmediates
<1>14. meets(3)
  BY <1>1, <1>5, <1>7, <1>9, <1>10, SMTT(40) DEF End
<1>15. meets(4)
  BY <1>1, <1>5, <1>7, <1>9, <1>10, <1>11, SMTT(40) DEF End
<1>16. meets(5)
  BY <1>1, <1>5, <1>7, <1>9, <1>11, <1>12, SMTT(40) DEF End
<1>17. meets(6)
  <2>1. CASE Taken = 0
    <3>1. 6 \notin There /\ Bounds[7] = Bounds[6]
      BY <1>5, <1>9, <2>1
    <3> QED
      BY <1>5, <1>12, <3>1
  <2>2. CASE Taken >= 1
    <3>1. /\ Fields[6][1] = Bounds[6]
          /\ End(Fields[6]) = Bounds[7]
          /\ Bounds[7] = Bounds[6] + FirstImmediate[2]
      BY <1>4, <1>5, <1>13, <2>2 DEF End
    <3> QED
      BY <1>3, <1>5, <1>9, <1>12, <2>2, <3>1
  <2> QED
    BY <1>2, <2>1, <2>2
<1>18. meets(7)
  <2>1. Bounds[7] \in Nat
    BY <1>17
  <2>2. CASE Taken # 2
    <3>1. 7 \notin There /\ Bounds[8] = Bounds[7]
      BY <1>2, <1>5, <1>9, <1>13, <2>2
    <3> QED
      BY <2>1, <3>1
  <2>3. CASE Taken = 2
    <3>1. /\ Fields[7][1] = Bounds[7]
          /\ End(Fields[7]) = Bounds[8]
          /\ Bounds[8] = Bounds[7] + SecondImmediate[2]
      BY <1>4, <1>5, <1>13, <2>3 DEF End
    <3> QED
      BY <1>3, <1>9, <2>1, <2>3, <3>1
  <2> QED
    BY <2>2, <2>3
<1>19. There \subseteq 1..7
  BY <1>2, <1>6
<1>20. \A i \in 1..7 : meets(i)
  <2>1. \A i \in 1..7 : i = 1 \/ i = 2 \/ i = 3 \/ i = 4 \/ i = 5 \/ i = 6 \/ i = 7
    OBVIOUS
  <2> HIDE DEF meets
  <2> QED
    BY <1>8, <1>14, <1>15, <1>16, <1>17, <1>18, <2>1
<1>21. \A i \in 1..8 : Bounds[i] \in Nat
  <2>1. Bounds[7 + 1] = Bounds[8] /\ \A i \in 1..8 : i \in 1..7 \/ i = 8
    OBVIOUS
  <2> QED
    BY <1>18, <1>20, <2>1
<1> QED
  BY <1>19, <1>20, <1>21

\* The fields of the encoding follow one another without an overlap or a gap,
\* from the first byte of the instruction to its last, for every limit, stream
\* and mode.
THEOREM FieldsPartition == Spec => []Partition
<1>1. Init => CursorChains
  BY DEF Init, CursorChains, Opened, Fields1, Answered
<1>2. TypeOK /\ CursorFollows /\ CursorChains /\ [Next]_vars => CursorChains'
  BY NextChains
<1>3. TypeOK /\ CursorChains => Partition
  <2> SUFFICES ASSUME TypeOK, CursorChains, Answered, answer.status = "OK"
               PROVE  Partition
    BY DEF Partition
  <2>1. Chained /\ answer.length = position
    BY DEF CursorChains, Opened
  <2>2. /\ \A i \in 1..8 : Bounds[i] \in Nat
        /\ \A i \in 1..7 :
             /\ Bounds[i] <= Bounds[i + 1]
             /\ IF i \in There
                THEN Fields[i][1] = Bounds[i] /\ End(Fields[i]) = Bounds[i + 1]
                ELSE Bounds[i + 1] = Bounds[i]
        /\ There \subseteq 1..7
    BY <2>1, FieldsMeet
  <2>3. Bounds[1] = 0 /\ Bounds[8] = answer.length
    BY <2>1 DEF Bounds, Chained
  <2>4. /\ Bounds[1] <= Bounds[2] /\ Bounds[2] <= Bounds[3]
        /\ Bounds[3] <= Bounds[4] /\ Bounds[4] <= Bounds[5]
        /\ Bounds[5] <= Bounds[6] /\ Bounds[6] <= Bounds[7]
        /\ Bounds[7] <= Bounds[8]
    BY <2>2
  <2>5. \A i, j \in 1..8 : i <= j => Bounds[i] <= Bounds[j]
    <3>1. /\ Bounds[1] \in Nat /\ Bounds[2] \in Nat /\ Bounds[3] \in Nat
          /\ Bounds[4] \in Nat /\ Bounds[5] \in Nat /\ Bounds[6] \in Nat
          /\ Bounds[7] \in Nat /\ Bounds[8] \in Nat
      BY <2>2
    <3> QED
      BY <2>4, <3>1
  <2>6. \A i, j \in There : i < j => End(Fields[i]) <= Fields[j][1]
    <3> SUFFICES ASSUME NEW i \in There, NEW j \in There, i < j
                 PROVE  End(Fields[i]) <= Fields[j][1]
      OBVIOUS
    <3>1. i \in 1..7 /\ j \in 1..7 /\ i + 1 \in 1..8 /\ j \in 1..8 /\ i + 1 <= j
      BY <2>2
    <3>2. End(Fields[i]) = Bounds[i + 1] /\ Fields[j][1] = Bounds[j]
      BY <2>2, <3>1
    <3> QED
      BY <2>5, <3>1, <3>2
  <2>7. \A i \in There : End(Fields[i]) <= answer.length
    <3> SUFFICES ASSUME NEW i \in There
                 PROVE  End(Fields[i]) <= answer.length
      OBVIOUS
    <3>1. i \in 1..7 /\ i + 1 \in 1..8 /\ 8 \in 1..8 /\ i + 1 <= 8
      BY <2>2
    <3> QED
      BY <2>2, <2>3, <2>5, <3>1
  <2>8. \A byte \in 0..(answer.length - 1) :
          \E i \in There : byte \in Fields[i][1]..(End(Fields[i]) - 1)
    <3> SUFFICES ASSUME NEW byte \in 0..(answer.length - 1)
                 PROVE  \E i \in There : byte \in Fields[i][1]..(End(Fields[i]) - 1)
      OBVIOUS
    <3>1. byte \in Nat /\ byte < Bounds[8]
      BY <2>2, <2>3
    <3>2. PICK i \in 1..7 : Bounds[i] <= byte /\ byte < Bounds[i + 1]
      <4>1. \/ Bounds[1] <= byte /\ byte < Bounds[2]
            \/ Bounds[2] <= byte /\ byte < Bounds[3]
            \/ Bounds[3] <= byte /\ byte < Bounds[4]
            \/ Bounds[4] <= byte /\ byte < Bounds[5]
            \/ Bounds[5] <= byte /\ byte < Bounds[6]
            \/ Bounds[6] <= byte /\ byte < Bounds[7]
            \/ Bounds[7] <= byte /\ byte < Bounds[8]
        BY <2>2, <2>3, <3>1
      <4> QED
        BY <4>1
    <3>3. Bounds[i] \in Nat /\ Bounds[i + 1] \in Nat
      BY <2>2
    <3>4. i \in There
      BY <2>2, <3>2, <3>3
    <3> QED
      BY <2>2, <3>1, <3>2, <3>3, <3>4
  <2>9. encoding.displacementSize = 0 => encoding.displacementOffset = 0
    BY <2>1 DEF Chained
  <2> QED
    BY <2>6, <2>7, <2>8, <2>9 DEF Partition
<1> QED
  BY <1>1, <1>2, <1>3, HistoryHolds, PTL DEF Spec, CursorHistory

=============================================================================
