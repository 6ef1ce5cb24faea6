----------------------------- MODULE TokenCodec -----------------------------
(***************************************************************************)
(* The text of a token: TokenService writes the claims as JSON, encodes it *)
(* in base64url and signs it; ValidateToken decodes it and looks for the   *)
(* keys in the text.                                                       *)
(*                                                                         *)
(* A text is a sequence of bytes.  The keys "sub", "username", "role",     *)
(* "iat" and "exp" are abbreviated to their first letters, which occur in  *)
(* user names too; "rid", which nobody reads, and the constant header are  *)
(* left out.  The signature of a payload is the payload: HMAC is taken to  *)
(* be injective and unknown to all who do not have the secret.             *)
(***************************************************************************)
EXTENDS Integers, SequencesExt

Quote == 34
Comma == 44
Minus == 45
Zero == 48
Colon == 58
Backslash == 92
Newline == 10
CarriageReturn == 13
Tab == 9
Sub == 115
Username == 117
Role == 114
Iat == 105
Exp == 101

\* s[1], s[2], ..., s[n] folded into start.
Folded(Step(_, _), start, s) ==
    LET upTo[n \in 0 .. Len(s)] == IF n = 0 THEN start ELSE Step(upTo[n - 1], s[n])
    IN  upTo[Len(s)]

-----------------------------------------------------------------------------
(* base64url *)

\* value is an int that is shifted left for ever; what is read are its low bits,
\* so it is kept modulo 2^16 here, and modulo 2^32 there.
Shifted(value, width, next) == (value * 2^width + next) % 2^16

\* (value >> bits) & (2^width - 1)
Bits(value, bits, width) == (value \div 2^bits) % 2^width

\* kBase64UrlAlphabet and Base64UrlValue.
Base64UrlChar(v) ==
    IF v < 26 THEN 65 + v ELSE IF v < 52 THEN 97 + v - 26 ELSE IF v < 62 THEN 48 + v - 52
    ELSE IF v = 62 THEN 45 ELSE 95
Base64UrlValue(c) ==
    IF c \in 65 .. 90 THEN c - 65 ELSE IF c \in 97 .. 122 THEN c - 97 + 26
    ELSE IF c \in 48 .. 57 THEN c - 48 + 52 ELSE IF c = 45 THEN 62 ELSE IF c = 95 THEN 63 ELSE -1

\* A byte is shifted in and the six bits that are complete are taken out.
EncodeStep(s, b) ==
    LET value == Shifted(s.value, 8, b)
        bits == s.bits + 8
        sextets == IF bits < 6 THEN <<Bits(value, bits, 6)>>
                   ELSE <<Bits(value, bits, 6), Bits(value, bits - 6, 6)>>
    IN  [value |-> value, bits |-> bits - 6 * Len(sextets), out |-> s.out \o sextets]
Sextets(bytes) ==
    LET end == Folded(EncodeStep, [value |-> 0, bits |-> -6, out |-> <<>>], bytes)
        rest == IF end.bits > -6 THEN <<Bits(end.value * 2^8, end.bits + 8, 6)>> ELSE <<>>
    IN  end.out \o rest
Base64UrlEncode(bytes) ==
    LET sextets == Sextets(bytes)
    IN  [i \in 1 .. Len(sextets) |-> Base64UrlChar(sextets[i])]

\* Six bits are shifted in and the eight that are complete are taken out.
DecodeStep(s, c) ==
    LET value == Shifted(s.value, 6, Base64UrlValue(c))
        bits == s.bits + 6
    IN  IF bits < 0 THEN [value |-> value, bits |-> bits, out |-> s.out]
        ELSE [value |-> value, bits |-> bits - 8, out |-> Append(s.out, Bits(value, bits, 8))]

\* The bytes, or none for a character that is not of the alphabet.
Base64UrlDecode(text) ==
    IF \E i \in 1 .. Len(text) : Base64UrlValue(text[i]) = -1 THEN <<>>
    ELSE <<Folded(DecodeStep, [value |-> 0, bits |-> -8, out |-> <<>>], text).out>>

-----------------------------------------------------------------------------
(* JSON *)

\* Mutation: a quote is written as it is.
JsonEscapeNoQuote(text) ==
    Folded(LAMBDA out, c : out \o (IF c = Backslash THEN <<Backslash, c>> ELSE <<c>>), <<>>, text)

\* What stands for a character behind a backslash: "n", "r" and "t" for the
\* control characters that have a case, else the character itself.
LetterOf(c) ==
    IF c = Newline THEN 110 ELSE IF c = CarriageReturn THEN 114 ELSE IF c = Tab THEN 116 ELSE c

\* Other control characters are written as they are.
Controls == {Newline, CarriageReturn, Tab}
Escaped(c) ==
    IF c \in {Quote, Backslash} \cup Controls THEN <<Backslash, LetterOf(c)>> ELSE <<c>>
EscapeStep(out, c) == out \o Escaped(c)
JsonEscape(text) == Folded(EscapeStep, <<>>, text)

\* Integers as operator<< writes them and std::stoll reads them.
Digits(n) ==
    LET digits[i \in 0 .. n] ==
          IF i < 10 THEN <<Zero + i>> ELSE Append(digits[i \div 10], Zero + (i % 10))
    IN  digits[n]
IntText(n) == IF n < 0 THEN <<Minus>> \o Digits(-n) ELSE Digits(n)
DigitStep(n, c) == 10 * n + (c - Zero)
Number(text) == Folded(DigitStep, 0, text)
IntOf(text) == IF Head(text) = Minus THEN -Number(Tail(text)) ELSE Number(text)

\* find: where the text behind the first marker begins, 0 if there is none.
After(json, marker) ==
    LET found == {i \in 1 .. Len(json) - Len(marker) + 1 :
                    SubSeq(json, i, i + Len(marker) - 1) = marker}
    IN  IF found = {} THEN 0
        ELSE (CHOOSE i \in found : \A j \in found : i <= j) + Len(marker)

\* A character of a string: the quote that is not escaped ends it.
ReadStep(s, c) ==
    IF s.done THEN s
    ELSE IF s.escaped THEN [s EXCEPT !.escaped = FALSE, !.value = Append(s.value, c)]
    ELSE IF c = Backslash THEN [s EXCEPT !.escaped = TRUE]
    ELSE IF c = Quote THEN [s EXCEPT !.done = TRUE]
    ELSE [s EXCEPT !.value = Append(s.value, c)]

\* The value of a key, or none.
JsonStringValue(json, key) ==
    LET start == After(json, <<Quote, key, Quote, Colon, Quote>>)
        end == Folded(ReadStep, [done |-> FALSE, escaped |-> FALSE, value |-> <<>>],
                      SubSeq(json, start, Len(json)))
    IN  IF start = 0 \/ ~end.done THEN <<>> ELSE <<end.value>>

\* The digits behind a key, or none.
JsonIntValue(json, key) ==
    LET start == After(json, <<Quote, key, Quote, Colon>>)
        stops == {i \in start .. Len(json) : json[i] # Minus /\ json[i] \notin Zero .. Zero + 9}
        end == CHOOSE i \in stops \cup {Len(json) + 1} : \A j \in stops : i <= j
    IN  IF start = 0 \/ end = start THEN <<>> ELSE <<IntOf(SubSeq(json, start, end - 1))>>

-----------------------------------------------------------------------------
(* TokenService *)

StringField(key, text) == <<Quote, key, Quote, Colon, Quote>> \o JsonEscape(text) \o <<Quote>>
IntField(key, n) == <<Quote, key, Quote, Colon>> \o IntText(n)

\* IssueToken: the payload for a user, from the time now on.
TokenText(user_id, username, role, now, ttl) ==
    Base64UrlEncode(
        IntField(Sub, user_id) \o <<Comma>> \o StringField(Username, username) \o <<Comma>>
        \o StringField(Role, role) \o <<Comma>> \o IntField(Iat, now) \o <<Comma>>
        \o IntField(Exp, now + ttl) \o <<125>>)

\* ValidateToken but for the clock: the claims of a payload whose signature is
\* right, or none.  A token without a role is a user's.
TokenClaims(payload, defaultRole) ==
    LET decoded == Base64UrlDecode(payload)
        json == decoded[1]
        user_id == JsonIntValue(json, Sub)
        username == JsonStringValue(json, Username)
        role == JsonStringValue(json, Role)
        iat == JsonIntValue(json, Iat)
        exp == JsonIntValue(json, Exp)
    IN  IF decoded = <<>> \/ user_id = <<>> \/ username = <<>> \/ iat = <<>> \/ exp = <<>> THEN <<>>
        ELSE <<[user_id |-> user_id[1], username |-> username[1],
                role |-> IF role = <<>> THEN defaultRole ELSE role[1], exp |-> exp[1]]>>

\* What JsonStringValue, which drops the backslash only, makes of a text that
\* JsonEscape wrote.
Letters(text) == [i \in 1 .. Len(text) |-> LetterOf(text[i])]
=============================================================================
