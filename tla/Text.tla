-------------------------------- MODULE Text --------------------------------
(***************************************************************************)
(* The text both systems read and write: command lines, numbers, names,    *)
(* pins, hexadecimal keys and the requests of the ATM.  The functions of   *)
(* the root directory (bank/bank.c and atm/atm.c hold the same ones) and   *)
(* of the archived submission are operators on sequences of characters;    *)
(* the state machine types every text of MaxLength characters, and the     *)
(* properties compare the operators with definitions that are not loops,   *)
(* and with each other.                                                    *)
(*                                                                         *)
(* The bases 10 and 16 are parameters, and one letter stands for all that  *)
(* are treated alike.                                                      *)
(***************************************************************************)
EXTENDS Integers, Sequences, FiniteSets, SequencesExt, FiniteSetsExt

CONSTANTS
  Base,          \* 10, the base of numbers; that of keys is Base + 1
  IntMax,        \* INT_MAX
  LongMax,       \* LONG_MAX
  NameMax,       \* 250
  PinLength,     \* 4
  SecretSize,    \* SECRET_SIZE
  MaxLength      \* bound of the model: characters typed

\* A long is wide enough for INT_MAX and one more digit, as it is with 64 bits.
ASSUME TextAssumption ==
  /\ Base \in 2 .. 10
  /\ IntMax \in Nat /\ LongMax \in Nat /\ LongMax >= IntMax * Base + Base - 1
  /\ NameMax \in Nat /\ PinLength \in Nat \ {0}
  /\ SecretSize \in Nat \ {0}

VARIABLE text

Failed == -1

\* The characters.  (A keyword of a request is a character of its own.)
Numeral   == <<"0", "1", "2", "3", "4", "5", "6", "7", "8", "9">>
Digit     == {Numeral[i] : i \in 1 .. Base}
HexLetter == {"a", "A"}
Letter    == HexLetter \cup {"z"}
Separator == {" "}
Char      == Digit \cup Letter \cup Separator \cup {"+", "-"}

UintMax  == 2 * IntMax + 1
UlongMax == 2 * LongMax + 1

\* What a signed long holds after an operation that may overflow.
Long(n) == ((n + LongMax + 1) % (UlongMax + 1)) - LongMax - 1

Over(t, set) == \A i \in DOMAIN t : t[i] \in set

-----------------------------------------------------------------------------
(* Command lines.                                                          *)

\* strtok, called until it returns NULL: the words found, and the one it is in.
ScanStep(acc, c) ==
  IF c \notin Separator THEN [acc EXCEPT !.word = Append(@, c)]
  ELSE IF acc.word = <<>> THEN acc
  ELSE [words |-> Append(acc.words, acc.word), word |-> <<>>]

Scanned(t) == FoldLeft(ScanStep, [words |-> <<>>, word |-> <<>>], t)

Words(t) ==
  LET end == Scanned(t)
  IN  IF end.word = <<>> THEN end.words ELSE Append(end.words, end.word)

\* Faulty variant: as many arguments as there is room for count as too many.
SplitFull(t, max) ==
  LET words == Words(t)
  IN  IF Len(words) < max THEN [argc |-> Len(words), argv |-> words]
      ELSE [argc |-> max + 1, argv |-> SubSeq(words, 1, max)]

Split(t, max) ==
  LET words == Words(t)
  IN  IF Len(words) <= max THEN [argc |-> Len(words), argv |-> words]
      ELSE [argc |-> max + 1, argv |-> SubSeq(words, 1, max)]

-----------------------------------------------------------------------------
(* Numbers.                                                                *)

ValueOf(c) == CHOOSE v \in 0 .. Base - 1 : Numeral[v + 1] = c

\* Faulty variant: INT_MAX is compared with the result alone.
ParseAmountLate(t) ==
  LET Step(val, c) ==
        IF val = Failed \/ c \notin Digit THEN Failed ELSE Long(val * Base + ValueOf(c))
      val == FoldLeft(Step, 0, t)
  IN  IF t = <<>> \/ val > IntMax \/ val < 0 THEN Failed ELSE val

\* parse_amount: val is a long, and is compared with INT_MAX after each digit.
AmountStep(val, c) ==
  IF val = Failed \/ c \notin Digit THEN Failed
  ELSE LET next == Long(val * Base + ValueOf(c))
       IN  IF next > IntMax THEN Failed ELSE next

Accumulated(t) == FoldLeft(AmountStep, 0, t)

ParseAmount(t) == IF t = <<>> THEN Failed ELSE Accumulated(t)

Power(n) == LET p[k \in 0 .. n] == IF k = 0 THEN 1 ELSE Base * p[k - 1] IN p[n]

\* The number a row of digits denotes.
Number(t) == MapThenSumSet(LAMBDA i : ValueOf(t[i]) * Power(Len(t) - i), DOMAIN t)

\* strtol and strtoul, on a text they consume to the last character: white space
\* in front, a sign, and the magnitude.
Trimmed(t) == LET words == {i \in DOMAIN t : t[i] \notin Separator}
              IN  IF words = {} THEN <<>> ELSE SubSeq(t, Min(words), Len(t))

Unsigned(t) ==
  LET u == Trimmed(t) IN IF u # <<>> /\ u[1] \in {"+", "-"} THEN Tail(u) ELSE u

IsNumeral(t) == Unsigned(t) # <<>> /\ Over(Unsigned(t), Digit)

Magnitude(t) == Number(Unsigned(t))

Negative(t) == Trimmed(t)[1] = "-"

\* Faulty variant: the result is not compared with INT_MAX before it is cast.
ParseNonnegativeIntCast(t) ==
  IF ~IsNumeral(t) THEN Failed
  ELSE IF Magnitude(t) > LongMax THEN Failed
  ELSE IF Negative(t) /\ Magnitude(t) > 0 THEN Failed
  ELSE Magnitude(t) % (IntMax + 1)

\* parse_nonnegative_int: strtol succeeds and the result is in 0 .. INT_MAX.
ParseNonnegativeInt(t) ==
  IF ~IsNumeral(t) THEN Failed
  ELSE LET parsed == IF Negative(t) THEN -Magnitude(t) ELSE Magnitude(t)
       IN  IF parsed \in 0 .. IntMax THEN parsed ELSE Failed

\* Faulty variant: parsed as an int.
ParseCounterSigned(t) == ParseNonnegativeInt(t)

\* parse_counter: strtoul, which negates modulo ULONG_MAX + 1.
ParseCounter(t) ==
  IF ~IsNumeral(t) THEN Failed
  ELSE IF Magnitude(t) > UlongMax THEN Failed
  ELSE LET parsed == IF Negative(t) THEN (-Magnitude(t)) % (UlongMax + 1) ELSE Magnitude(t)
       IN  IF parsed <= UintMax THEN parsed ELSE Failed

\* snprintf of %d, for a number that is not negative, and of %u.
Decimal(n) ==
  LET d[k \in 0 .. n] == IF k < Base THEN <<Numeral[k + 1]>>
                         ELSE Append(d[k \div Base], Numeral[(k % Base) + 1])
  IN  d[n]

-----------------------------------------------------------------------------
(* Names, pins, keys.                                                      *)

\* valid_name, and is_valid_username of the archived submission.
ValidName(t) == Len(t) \in 1 .. NameMax /\ Over(t, Letter)

ValidPin(t) == Len(t) = PinLength /\ Over(t, Digit)

HexDigit == Digit \cup HexLetter

\* hex_val and hex_value: -1 for anything else.
HexValue(c) == IF c \in Digit THEN ValueOf(c) ELSE IF c \in HexLetter THEN Base ELSE -1

ValidHex(t, length) == Len(t) = length /\ Over(t, HexDigit)

Byte(hi, lo) == HexValue(hi) * (Base + 1) + HexValue(lo)

Bytes(t, n) == [i \in 1 .. n |-> Byte(t[2 * i - 1], t[2 * i])]

\* from_hex: whatever follows the first 2 * n characters is not looked at.
FromHex(t, n) ==
  IF Len(t) >= 2 * n /\ Over(SubSeq(t, 1, 2 * n), HexDigit) THEN Bytes(t, n) ELSE <<>>

\* Faulty variant: the length is not compared.
HexToBytesAnyLength(t, n) == FromHex(t, n)

\* hex_to_bytes of the archived submission.
HexToBytes(t, n) ==
  IF Len(t) = 2 * n /\ Over(t, HexDigit) THEN Bytes(t, n) ELSE <<>>

HexNumeral(v) == IF v = Base THEN "a" ELSE Numeral[v + 1]

\* to_hex and bytes_to_hex.
ToHex(bytes) ==
  [i \in 1 .. 2 * Len(bytes) |->
     LET byte == bytes[(i + 1) \div 2]
     IN  HexNumeral(IF i % 2 = 1 THEN byte \div (Base + 1) ELSE byte % (Base + 1))]

-----------------------------------------------------------------------------
(* Requests: what the ATM formats and what the bank makes of it.           *)

FormatRequest(r) ==
  CASE r.op = "exists"   -> <<"exists", " ">> \o r.user
    [] r.op = "balance"  -> <<"balance", " ">> \o r.user
    [] r.op = "auth"     -> <<"auth", " ">> \o r.user \o <<" ">> \o r.pin \o <<" ">> \o r.secret
    [] r.op = "withdraw" -> <<"withdraw", " ">> \o r.user \o <<" ">> \o Decimal(r.amount)

\* The arguments handle_request acts on; any other text gets the answer "NO".
ParseRequest(t) ==
  LET s == Split(t, 4)
  IN  CASE s.argc = 2 /\ s.argv[1] = <<"exists">> ->
             [op |-> "exists", user |-> s.argv[2]]
        [] s.argc = 4 /\ s.argv[1] = <<"auth">> ->
             [op |-> "auth", user |-> s.argv[2], pin |-> s.argv[3], secret |-> s.argv[4]]
        [] s.argc = 2 /\ s.argv[1] = <<"balance">> ->
             [op |-> "balance", user |-> s.argv[2]]
        [] s.argc = 3 /\ s.argv[1] = <<"withdraw">> /\ ParseAmount(s.argv[3]) # Failed ->
             [op |-> "withdraw", user |-> s.argv[2], amount |-> ParseAmount(s.argv[3])]
        [] OTHER -> [op |-> "none"]

AuthRequest(pin, secret) == [op |-> "auth", user |-> <<"z">>, pin |-> pin, secret |-> secret]

\* What the ATM may ask for when the user name is t, or the pin, or the secret.
RequestsWith(t) ==
  IF ValidName(t)
    THEN {[op |-> op, user |-> t] : op \in {"exists", "balance"}}
           \cup {[op |-> "withdraw", user |-> t, amount |-> a] : a \in 0 .. IntMax}
    ELSE (IF ValidPin(t) THEN {AuthRequest(t, ToHex([i \in 1 .. SecretSize |-> Base]))} ELSE {})
           \cup (IF ValidHex(t, 2 * SecretSize)
                   THEN {AuthRequest([i \in 1 .. PinLength |-> "0"], t)} ELSE {})

-----------------------------------------------------------------------------

Type == Len(text) < MaxLength /\ \E c \in Char : text' = Append(text, c)

Init == text = <<>>

Spec == Init /\ [][Type]_text

-----------------------------------------------------------------------------
(* Properties.                                                             *)

\* The maximal runs of characters that are not white space, and their order.
Runs(t) ==
  {r \in (1 .. Len(t)) \X (1 .. Len(t)) :
     /\ r[1] <= r[2]
     /\ \A i \in r[1] .. r[2] : t[i] \notin Separator
     /\ r[1] > 1 => t[r[1] - 1] \in Separator
     /\ r[2] < Len(t) => t[r[2] + 1] \in Separator}

Nth(runs, r) == Cardinality({q \in runs : q[1] <= r[1]})

\* split returns the maximal runs of characters that are not white space, in
\* order, or says that there are too many: however many separators precede,
\* follow or part them.
SplitFindsTheWords ==
  LET runs == Runs(text)
  IN \A max \in 1 .. 5 :
       LET s == Split(text, max)
       IN  /\ s.argc = IF Cardinality(runs) <= max THEN Cardinality(runs) ELSE max + 1
           /\ \A r \in runs :
                Nth(runs, r) <= max => s.argv[Nth(runs, r)] = SubSeq(text, r[1], r[2])

\* parse_amount accepts exactly the rows of digits that denote at most INT_MAX, with
\* that value: leading zeros do not matter, and no text, however long, gets by
\* because an intermediate result overflows.
AmountIsExact ==
  ParseAmount(text) =
    IF text # <<>> /\ Over(text, Digit) /\ Number(text) <= IntMax THEN Number(text) ELSE Failed

\* The archived submission's strtol accepts what parse_amount accepts, with the same
\* value, and besides only white space and a sign in front of it (a minus before zero
\* alone).
ParsersAgree ==
  LET t == Trimmed(text)
  IN  ParseNonnegativeInt(text) =
        IF t = <<>> \/ t[1] \notin {"+", "-"} THEN ParseAmount(t)
        ELSE IF t[1] = "-" /\ ParseAmount(Tail(t)) # 0 THEN Failed
        ELSE ParseAmount(Tail(t))

\* Both sides of both systems read numbers alike, and a number survives the wire: what
\* one side read, prints and sends is what the other side reads, for amounts up to
\* INT_MAX and counters up to UINT_MAX.
NumbersTravel ==
  /\ ParsersAgree
  /\ ParseAmount(text) # Failed =>
       /\ ParseAmount(Decimal(ParseAmount(text))) = ParseAmount(text)
       /\ ParseNonnegativeInt(Decimal(ParseAmount(text))) = ParseAmount(text)
  /\ text # <<>> /\ Over(text, Digit) /\ Number(text) <= UintMax =>
       ParseCounter(Decimal(Number(text))) = Number(text)

\* A card's secret that the ATM lets pass is one the bank can decode; both systems
\* decode it to the same bytes, and those bytes print as the same key again.
KeysDecode ==
  LET bytes == FromHex(text, SecretSize)
  IN  /\ HexToBytes(text, SecretSize) # <<>> <=> ValidHex(text, 2 * SecretSize)
      /\ ValidHex(text, 2 * SecretSize) =>
           /\ bytes # <<>> /\ HexToBytes(text, SecretSize) = bytes
           /\ FromHex(ToHex(bytes), SecretSize) = bytes

\* The bank understands a request as the ATM meant it: same operation, same
\* arguments, whatever name, pin, secret and amount went through the ATM's checks.
RequestsAreUnderstood ==
  \A r \in RequestsWith(text) : ParseRequest(FormatRequest(r)) = r

=============================================================================
