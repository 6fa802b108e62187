------------------------------ MODULE HourBlocks ------------------------------
(***************************************************************************)
(* The immutable rows of an hour: one-second observations encoded into      *)
(* channels, each an Arrow table in a frame of its own, and the digest over *)
(* all of them by which a row is compared, imported and referenced.         *)
(*                                                                         *)
(* Decimals are exact and are written as canonical text, because a second   *)
(* processing of an hour, here or on the remote worker, must produce the    *)
(* very bytes of the first.  A digest is modelled as what it digests; Arrow *)
(* and zstd as a deterministic function of the table.                       *)
(***************************************************************************)
EXTENDS Integers, Sequences, FiniteSets

CONSTANTS
    Slots,          \* the rows of a database
    Decimals,       \* exact decimals [digits, exponent]
    TextLimit,      \* longest text of a decimal
    CountLimit,     \* largest count of a count channel
    Null, Refused

Point == 10         \* the character between the digits 0 .. 9

-----------------------------------------------------------------------------
(* Decimal text.                                                           *)

RECURSIVE Stripped(_)
Stripped(d) ==
    IF Len(d.digits) > 1 /\ d.digits[Len(d.digits)] = 0
    THEN Stripped([digits |-> SubSeq(d.digits, 1, Len(d.digits) - 1),
                   exponent |-> d.exponent + 1])
    ELSE d

RECURSIVE Coefficient(_)
Coefficient(digits) ==
    IF digits = <<>> THEN 0
    ELSE 10 * Coefficient(SubSeq(digits, 1, Len(digits) - 1)) + digits[Len(digits)]

(* The value of an exact decimal; the exponents reach down to -4.            *)
Scaled(d) == Coefficient(d.digits) * 10 ^ (d.exponent + 4)

SameNumber(d, e) == Scaled(d) = Scaled(e)
AtMost(d, e) == Scaled(d) =< Scaled(e)

Zeros(n) == [i \in 1 .. n |-> 0]

IsZero(d) == \A i \in 1 .. Len(d.digits) : d.digits[i] = 0

(* Slip: trailing zeros of the coefficient are kept.                         *)
TextUnstripped(d) ==
    LET point == Len(d.digits) + d.exponent
    IN  IF IsZero(d) THEN <<0>>
        ELSE IF d.exponent >= 0 THEN d.digits \o Zeros(d.exponent)
        ELSE IF point > 0 THEN SubSeq(d.digits, 1, point) \o <<Point>>
                               \o SubSeq(d.digits, point + 1, Len(d.digits))
        ELSE <<0, Point>> \o Zeros(-point) \o d.digits

(* The shortest fixed-point text of the exact value.                         *)
Text(d) ==
    LET s == Stripped(d)
        point == Len(s.digits) + s.exponent
    IN  IF IsZero(d) THEN <<0>>
        ELSE IF s.exponent >= 0 THEN s.digits \o Zeros(s.exponent)
        ELSE IF point > 0 THEN SubSeq(s.digits, 1, point) \o <<Point>>
                               \o SubSeq(s.digits, point + 1, Len(s.digits))
        ELSE <<0, Point>> \o Zeros(-point) \o s.digits

(* Decimal(text), which drops the zeros before the coefficient.              *)
Digits(text) == SelectSeq(text, LAMBDA c : c # Point)

RECURSIVE Significant(_)
Significant(digits) ==
    IF Len(digits) > 1 /\ digits[1] = 0 THEN Significant(Tail(digits)) ELSE digits

Fraction(text) ==
    IF \E i \in 1 .. Len(text) : text[i] = Point
    THEN Len(text) - (CHOOSE i \in 1 .. Len(text) : text[i] = Point)
    ELSE 0

Parsed(text) == [digits |-> Significant(Digits(text)), exponent |-> -Fraction(text)]

(* Only the text the encoder writes is accepted.                             *)
ParseCanonical(text) ==
    IF text # <<>> /\ Len(text) =< TextLimit /\ Text(Parsed(text)) = text
    THEN Parsed(text) ELSE Refused

-----------------------------------------------------------------------------
(* The channels of the two kinds of rows, and the columns of each.          *)
Kinds == {"price", "liquidity"}

Channels(k) ==
    IF k = "price" THEN {"OHLC", "VALIDITY", "TRADE_COUNT"}
    ELSE {"BID_LIQUIDITY", "ASK_LIQUIDITY", "VALIDITY", "SOURCE_COUNT"}

Columns(c) ==
    CASE c = "OHLC" -> {"open", "high", "low", "close"}
      [] c = "BID_LIQUIDITY" -> {"bid"}
      [] c = "ASK_LIQUIDITY" -> {"ask"}
      [] c = "VALIDITY" -> {"quality", "reason"}
      [] OTHER -> {"count"}

Exact(k) == IF k = "price" THEN {"open", "high", "low", "close"} ELSE {"bid", "ask"}

(* What a price observation may be: a valid one owns ordered prices and its   *)
(* trades, any other a reason and neither.                                   *)
SoundPrice(o) ==
    IF o.quality = "valid"
    THEN /\ o.reason = Null /\ o.count > 0
         /\ \A x \in {"open", "high", "low", "close"} : o[x] # Null /\ ~IsZero(o[x])
         /\ \A x \in {"open", "close"} : AtMost(o.low, o[x]) /\ AtMost(o[x], o.high)
    ELSE /\ o.reason # Null /\ o.count = 0
         /\ \A x \in {"open", "high", "low", "close"} : o[x] = Null

(* A liquidity observation likewise; a depth may be zero.                    *)
SoundDepth(o) ==
    IF o.quality = "valid"
    THEN o.reason = Null /\ o.count > 0 /\ o.bid # Null /\ o.ask # Null
    ELSE o.reason # Null /\ o.count = 0 /\ o.bid = Null /\ o.ask = Null

SoundObservation(k, o) ==
    /\ o.count \in 0 .. CountLimit
    /\ IF k = "price" THEN SoundPrice(o) ELSE SoundDepth(o)

(* A table cell: exact values as text, everything else as it is.             *)
Cell(k, o, x) == IF x \in Exact(k) /\ o[x] # Null THEN Text(o[x]) ELSE o[x]

Payload(k, hour, c) ==
    [i \in 1 .. Len(hour) |-> [x \in Columns(c) |-> Cell(k, hour[i], x)]]

(* The frame around a payload: kind and channel, rows, length and digest.    *)
Wrap(k, c, payload) ==
    [magic |-> k, channel |-> c, rows |-> Len(payload), length |-> Len(payload),
     digest |-> payload, payload |-> payload]

Unwrap(k, c, rows, frame) ==
    IF /\ frame.magic = k
       /\ frame.channel = c
       /\ frame.rows = rows
       /\ Len(frame.payload) = frame.length
       /\ frame.digest = frame.payload
    THEN frame.payload ELSE Refused

(* Slip: the digest covers the first channel only.                           *)
ContentDigestOfValues(k, blocks) ==
    LET first == IF k = "price" THEN "OHLC" ELSE "BID_LIQUIDITY"
    IN  <<k, [c \in {first} |-> blocks[c]]>>

(* The digest over every channel in its fixed order, each behind its length. *)
ContentDigest(k, blocks) == <<k, blocks>>

Encode(k, hour) ==
    LET blocks == [c \in Channels(k) |-> Wrap(k, c, Payload(k, hour, c))]
    IN  [kind |-> k, rows |-> Len(hour), blocks |-> blocks,
         digest |-> ContentDigest(k, blocks)]

-----------------------------------------------------------------------------
Owner(k, x) == CHOOSE c \in Channels(k) : x \in Columns(c)

Value(k, row, i, x) ==
    LET cell == Unwrap(k, Owner(k, x), row.rows, row.blocks[Owner(k, x)])[i][x]
    IN  IF x \in Exact(k) /\ cell # Null THEN ParseCanonical(cell) ELSE cell

Observation(k, row, i) ==
    [x \in UNION {Columns(c) : c \in Channels(k)} |-> Value(k, row, i, x)]

(* Slip: a row is read without its digest.                                   *)
DecodeUnchecked(row) ==
    LET k == row.kind
        hour == [i \in 1 .. row.rows |-> Observation(k, row, i)]
    IN  IF \E c \in Channels(k) : Unwrap(k, c, row.rows, row.blocks[c]) = Refused
        THEN Refused
        ELSE IF \E i \in 1 .. row.rows :
                    \/ \E x \in Exact(k) : hour[i][x] = Refused
                    \/ ~SoundObservation(k, hour[i])
        THEN Refused
        ELSE hour

(* Every frame, the digest over all of them, every text and every            *)
(* observation is verified before a value of the row is used.                *)
Decode(row) ==
    LET k == row.kind
        hour == [i \in 1 .. row.rows |-> Observation(k, row, i)]
    IN  IF ContentDigest(k, row.blocks) # row.digest THEN Refused
        ELSE IF \E c \in Channels(k) : Unwrap(k, c, row.rows, row.blocks[c]) = Refused
        THEN Refused
        ELSE IF \E i \in 1 .. row.rows :
                    \/ \E x \in Exact(k) : hour[i][x] = Refused
                    \/ ~SoundObservation(k, hour[i])
        THEN Refused
        ELSE hour

-----------------------------------------------------------------------------
(* Rows are written once and read later; in between a channel may be torn    *)
(* off, cut short, or come to hold what belongs to another row or channel.   *)
VARIABLES
    written,    \* slot -> the observations it was written with
    stored,     \* slot -> the row it holds
    kindOf,     \* slot -> the kind of its observations
    damages     \* how often a row was damaged

vars == <<written, stored, kindOf, damages>>

CONSTANTS
    Hours(_),   \* the sequences of observations of a kind
    MaxDamage   \* bound

Init ==
    /\ kindOf \in [Slots -> Kinds]
    /\ written \in [Slots -> UNION {Hours(k) : k \in Kinds}]
    /\ \A s \in Slots : written[s] \in Hours(kindOf[s])
    /\ stored = [s \in Slots |-> Encode(kindOf[s], written[s])]
    /\ damages = 0

Misplace(s, c, t, d) ==
    /\ <<s, c>> # <<t, d>>
    /\ stored' = [stored EXCEPT ![s].blocks[c] = stored[t].blocks[d]]

Cut(s, c) ==
    /\ Len(stored[s].blocks[c].payload) > 0
    /\ stored' = [stored EXCEPT ![s].blocks[c].payload = SubSeq(@, 1, Len(@) - 1)]

Next ==
    /\ damages < MaxDamage
    /\ damages' = damages + 1
    /\ UNCHANGED <<written, kindOf>>
    /\ \E s \in Slots :
        \/ \E c \in Channels(kindOf[s]) : Cut(s, c)
        \/ \E t \in Slots : \E c \in Channels(kindOf[s]), d \in Channels(kindOf[t]) :
               Misplace(s, c, t, d)

Spec == Init /\ [][Next]_vars

-----------------------------------------------------------------------------
SameCell(k, x, v, w) ==
    IF x \in Exact(k) /\ v # Null /\ w # Null THEN SameNumber(v, w) ELSE v = w

SameHour(k, hour, other) ==
    /\ Len(hour) = Len(other)
    /\ \A i \in 1 .. Len(hour) : \A x \in DOMAIN hour[i] :
           SameCell(k, x, hour[i][x], other[i][x])

(* A row that can be read reads as it was written, number by number, however *)
(* its channels were torn, cut, mixed with those of another row or swapped.   *)
RowReadsAsWritten ==
    \A s \in Slots :
        LET hour == Decode(stored[s])
        IN  hour # Refused => SameHour(kindOf[s], hour, written[s])

(* Two encodings are equal, bytes and digest, exactly when the hours hold the *)
(* same numbers: a second processing of the same hour never conflicts with    *)
(* the first over the spelling of a decimal, and never hides a difference.    *)
(* An undamaged row is always readable.                                      *)
EncodingIsCanonical ==
    damages = 0 =>
        /\ \A s, t \in Slots : kindOf[s] = kindOf[t] =>
               (Encode(kindOf[s], written[s]) = Encode(kindOf[t], written[t])
                    <=> SameHour(kindOf[s], written[s], written[t]))
        /\ \A s \in Slots : Decode(Encode(kindOf[s], written[s])) # Refused
        /\ \A d, e \in Decimals : Text(d) = Text(e) <=> SameNumber(d, e)
        /\ \A d \in Decimals : Len(Text(d)) =< TextLimit =>
               ParseCanonical(Text(d)) # Refused /\ SameNumber(ParseCanonical(Text(d)), d)
=============================================================================
