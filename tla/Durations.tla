------------------------------ MODULE Durations -----------------------------
(***************************************************************************)
(* ISO 8601 durations, as the twin and the local configuration write them: *)
(* the parser, which takes one unit of the date or of the time at a time,  *)
(* and the writer of the reported configuration with its fixed buffer.     *)
(*                                                                         *)
(* Every unit is a whole number of seconds, so times are counted in        *)
(* seconds: a sum of such times exceeds UINT32_MAX milliseconds exactly    *)
(* when it exceeds UINT32_MAX \div 1000 seconds.                           *)
(***************************************************************************)
EXTENDS Integers, Sequences

CONSTANT Texts     \* the durations that are asked for

(* A number, the letter after it, and how often the number exceeds 32      *)
(* bits.  The letter "X" stands for any other character and for none.      *)
Field(n, letter, wraps) == [n |-> n, letter |-> letter, wraps |-> wraps]

(* A text is a date and, after a T, a time.                                *)
Letters == {"Y", "M", "W", "D", "H", "S", "X"}
Fields == [n : Nat, letter : Letters, wraps : Nat]
FieldSeqs == Seq(Fields)
AllTexts == [p : BOOLEAN, date : FieldSeqs, t : BOOLEAN, time : FieldSeqs]

ASSUME DurationsAssumption ==
    Texts \subseteq AllTexts /\ \A d \in Texts : ~d.t => d.time = << >>

VARIABLES
    pc,        \* "parse", "units", "sum", "write", "unreported", "end"
    text,      \* the duration being parsed
    part,      \* "date" or "time"
    rest,      \* the fields of the part that are not consumed
    at,        \* the unit the code tests next
    result,    \* what the fields of the part add up to
    dateResult,
    answer,    \* of the parser: "none", "false" or "true"
    milisec,   \* what it returned; in the writer, what is left to write
    fields,    \* written so far: the fields of each part
    len,       \* room in the buffer, as the writer counts it
    used,      \* history: characters written, without the final zero
    first      \* history: the duration and its value, when written

durationVars == <<pc, text, part, rest, at, result, dateResult, answer,
                  milisec, fields, len, used, first>>

DateUnits == <<"Y", "M", "W", "D">>
TimeUnits == <<"H", "M", "S">>
Units(p) == IF p = "date" THEN DateUnits ELSE TimeUnits

(* MILLISECONDS_IN_A_..., in seconds.                                      *)
Seconds ==
    [date |-> [Y |-> 365 * 86400, M |-> 30 * 86400, W |-> 7 * 86400, D |-> 86400],
     time |-> [H |-> 3600, M |-> 60, S |-> 1]]
Unit(p, letter) == Seconds[p][letter]
UInt32Max == 4294967

DurationMaxLength == 19

(* Mutant: the largest number of a unit is refused.                        *)
MaxInUInt32Less(p, letter) == (UInt32Max \div Unit(p, letter)) - 1
MaxInUInt32(p, letter) == UInt32Max \div Unit(p, letter)

(* sscanf with %u of a number that exceeds 32 bits: the value of its low   *)
(* bits where unsigned long is longer, the largest number where it is not. *)
Scanned(f) == IF f.wraps = 0 THEN {f.n} ELSE {f.n, UInt32Max + 1}

Blank == [date |-> << >>, time |-> << >>]

Start(t) ==
    [text |-> t, rest |-> IF t.date = << >> /\ t.t THEN t.time ELSE t.date,
     part |-> IF t.date = << >> /\ t.t THEN "time" ELSE "date"]

DurationInit ==
    /\ text \in Texts
    /\ pc = "parse"
    /\ part = "date" /\ rest = << >> /\ at = 1
    /\ result = 0 /\ dateResult = 0
    /\ answer = "none" /\ milisec = 0
    /\ fields = Blank /\ len = 0 /\ used = 0
    /\ first = << >>

---------------------------------------------------------------------------
(* TimeUtils_ISO8601DurationStringToMilliseconds.                          *)

Answer(a) == answer' = a /\ pc' = "end"
Reject ==
    /\ Answer("false")
    /\ UNCHANGED <<text, part, rest, at, result, dateResult, milisec, fields,
                   len, used, first>>

(* No P, or a part without a first field.                                  *)
ParseFails ==
    /\ pc = "parse"
    /\ ~text.p \/ Start(text).rest = << >>
    /\ Reject

ParsePart ==
    /\ pc = "parse"
    /\ text.p /\ Start(text).rest # << >>
    /\ pc' = "units"
    /\ part' = Start(text).part /\ rest' = Start(text).rest
    /\ at' = 1 /\ result' = 0 /\ dateResult' = 0
    /\ UNCHANGED <<text, answer, milisec, fields, len, used, first>>

(* TimeUtils_ParseDateString and TimeUtils_ParseTimeString: one test of    *)
(* the specifier against a unit, and what follows it.                      *)
Tested == Units(part)[at]
Matches == at <= Len(Units(part)) /\ Head(rest).letter = Tested

SkipUnit ==
    /\ pc = "units" /\ at <= Len(Units(part))
    /\ ~Matches
    /\ at' = at + 1
    /\ UNCHANGED <<pc, text, part, rest, result, dateResult, answer, milisec,
                   fields, len, used, first>>

AddWithOverflowCheck(a, b) == a <= UInt32Max - b

UnitOverflows ==
    /\ pc = "units" /\ Matches
    /\ \E n \in Scanned(Head(rest)) :
           n <= MaxInUInt32(part, Tested)
           => ~AddWithOverflowCheck(result, n * Unit(part, Tested))
    /\ Reject

(* A part ends with its last field; the date also at the T.                *)
TakeUnit ==
    /\ pc = "units" /\ Matches
    /\ \E n \in Scanned(Head(rest)) :
           /\ n <= MaxInUInt32(part, Tested)
           /\ AddWithOverflowCheck(result, n * Unit(part, Tested))
           /\ result' = result + n * Unit(part, Tested)
    /\ rest' = Tail(rest)
    /\ at' = at + 1
    /\ pc' = IF Tail(rest) = << >> THEN "sum" ELSE "units"
    /\ UNCHANGED <<text, part, dateResult, answer, milisec, fields, len, used,
                   first>>

(* Fields are left after the last unit, or none was of a known unit.       *)
UnitsEnd ==
    /\ pc = "units" /\ at > Len(Units(part))
    /\ Reject

DateDone ==
    /\ pc = "sum" /\ part = "date" /\ text.t /\ text.time # << >>
    /\ dateResult' = result
    /\ part' = "time" /\ rest' = text.time
    /\ at' = 1 /\ result' = 0
    /\ pc' = "units"
    /\ UNCHANGED <<text, answer, milisec, fields, len, used, first>>

DateWithoutTime ==
    /\ pc = "sum" /\ part = "date" /\ text.t /\ text.time = << >>
    /\ Reject

(* The two parts are added; zero is not a duration.                        *)
Add ==
    /\ pc = "sum" /\ (part = "time" \/ ~text.t)
    /\ LET sum == dateResult + result
       IN IF AddWithOverflowCheck(dateResult, result) /\ sum # 0
          THEN Answer("true") /\ milisec' = sum
          ELSE Answer("false") /\ milisec' = milisec
    /\ UNCHANGED <<text, part, rest, at, result, dateResult, fields, len,
                   used, first>>

---------------------------------------------------------------------------
(* TimeUtils_MillisecondsToISO8601DurationString.  Values were parsed, so  *)
(* none is below a second.                                                 *)

WriteUnits == <<"M", "W", "D", "H", "M", "S">>
WritePart(i) == IF i <= 3 THEN "date" ELSE "time"

(* Utils_ConcatenateToString: the text must be shorter than the room.      *)
Digits(n) == IF n < 10 THEN 1 ELSE IF n < 100 THEN 2 ELSE 7
Concatenates(size) == size < len

StartReport ==
    /\ pc = "end" /\ answer = "true" /\ first = << >>
    /\ first' = <<text, milisec>>
    /\ pc' = "write"
    /\ at' = 1
    /\ fields' = Blank
    /\ len' = DurationMaxLength - 1     \* the P
    /\ used' = 1
    /\ UNCHANGED <<text, part, rest, result, dateResult, answer, milisec>>

(* Mutant: with the days, what is less than a day is taken off too.        *)
LeftAfterDay(unit) == IF unit = 86400 THEN 0 ELSE milisec % unit
LeftAfter(unit) == milisec % unit

(* A field that does not fit ends the report.  The T is written without    *)
(* counting it.                                                            *)
WriteUnit ==
    /\ pc = "write" /\ at <= Len(WriteUnits)
    /\ LET unit == Unit(WritePart(at), WriteUnits[at])
           n == milisec \div unit
           fits == n > 0 => Concatenates(Digits(n) + 1)
           size == IF n > 0 /\ fits THEN Digits(n) + 1 ELSE 0
           needsT == at = 4 /\ milisec > 0
           field == Field(n, WriteUnits[at], 0)
       IN /\ pc' = IF fits THEN "write" ELSE "unreported"
          /\ milisec' = LeftAfter(unit)
          /\ fields' = IF size > 0
                       THEN [fields EXCEPT ![WritePart(at)] = Append(@, field)]
                       ELSE fields
          /\ len' = len - size
          /\ used' = used + size + (IF needsT THEN 1 ELSE 0)
    /\ at' = at + 1
    /\ UNCHANGED <<text, part, rest, result, dateResult, answer, first>>

(* The report, given back as the duration that is asked for.               *)
DesireReport ==
    /\ pc = "write" /\ at > Len(WriteUnits)
    /\ text' = [p |-> TRUE, date |-> fields.date,
                t |-> fields.time # << >>, time |-> fields.time]
    /\ pc' = "parse"
    /\ answer' = "none"
    /\ milisec' = 0
    /\ UNCHANGED <<part, rest, at, result, dateResult, fields, len, used,
                   first>>

DurationNext ==
    \/ ParseFails \/ ParsePart
    \/ SkipUnit \/ UnitOverflows \/ TakeUnit \/ UnitsEnd
    \/ DateDone \/ DateWithoutTime \/ Add
    \/ StartReport \/ WriteUnit \/ DesireReport

DurationSpec == DurationInit /\ [][DurationNext]_durationVars

---------------------------------------------------------------------------
(* Properties.                                                             *)

(* The reference: what ISO 8601 makes of a text.  In both parts the units  *)
(* are in order, none twice; a part that is announced has a field; the     *)
(* total is not zero and fits.                                             *)
InOrder(p, fs) ==
    \E place \in [1..Len(fs) -> 1..Len(Units(p))] :
        /\ \A i \in 1..Len(fs) : fs[i].letter = Units(p)[place[i]]
        /\ \A i, j \in 1..Len(fs) : i < j => place[i] < place[j]
Sums(p, fs) ==
    LET sum[i \in 0..Len(fs)] ==
            IF i = 0 THEN 0
                     ELSE sum[i - 1] + fs[i].n * Unit(p, fs[i].letter)
    IN sum
Total(p, fs) == Sums(p, fs)[Len(fs)]
Short(fs) == \A i \in 1..Len(fs) : fs[i].wraps = 0
WellFormed(t) ==
    /\ t.p
    /\ t.t => t.time # << >>
    /\ ~t.t => t.date # << >>
    /\ InOrder("date", t.date) /\ InOrder("time", t.time)
    /\ Short(t.date) /\ Short(t.time)
Value(t) == Total("date", t.date) + Total("time", t.time)
Accepted(t) == WellFormed(t) /\ Value(t) \in 1..UInt32Max

(***************************************************************************)
(* The times are 32-bit times, the position is one of a unit, and the room *)
(* that is left in the report's buffer is not negative.                    *)
(***************************************************************************)
DurationTypeOK ==
    /\ pc \in {"parse", "units", "sum", "write", "unreported", "end"}
    /\ part \in {"date", "time"}
    /\ at \in 1..(Len(WriteUnits) + 1)
    /\ {result, dateResult, milisec} \subseteq 0..UInt32Max
    /\ answer \in {"none", "false", "true"}
    /\ len \in 0..DurationMaxLength

(***************************************************************************)
(* The parser accepts exactly the durations of the reference, and returns  *)
(* their value: the guards for each number and for each sum together       *)
(* refuse every overflow and nothing else (a year never fits, so only zero *)
(* years are accepted).                                                    *)
(***************************************************************************)
ParsedIsValue ==
    /\ (pc = "end" /\ answer = "true") => Accepted(text) /\ milisec = Value(text)
    /\ (pc = "end" /\ answer = "false") => ~Accepted(text)

(***************************************************************************)
(* A reported duration means what was configured: parsed again it gives    *)
(* the same value, though the report is written in other units than the    *)
(* text that was asked for.  Every duration that was accepted can be       *)
(* reported, and the report with its final zero stays inside the buffer    *)
(* although the writer does not count the T.                               *)
(***************************************************************************)
ReportFaithful ==
    /\ (pc = "end" /\ first # << >>) => answer = "true" /\ milisec = first[2]
    /\ pc # "unreported" /\ used + 1 <= DurationMaxLength

=============================================================================
