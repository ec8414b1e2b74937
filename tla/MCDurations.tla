---------------------------- MODULE MCDurations ----------------------------
(***************************************************************************)
(* Texts of up to two fields in each part.  Every unit comes with numbers  *)
(* at its limits; the seconds also with the longest report and with other  *)
(* large values.                                                           *)
(***************************************************************************)
EXTENDS Durations

(* The largest number of a unit whose value fits in 32 bits.               *)
Largest(p, letter) == UInt32Max \div Unit(p, letter)

Numbers(p, letter) ==
    {0, 1, Largest(p, letter), Largest(p, letter) + 1}
    \cup IF letter = "S" THEN {59, 86399, 4233599, 4294966} ELSE {}

FieldsOf(p) ==
    {Field(7, "X", 0)}
    \cup UNION {{Field(n, u, 0) : n \in Numbers(p, u)} :
                u \in {Units(p)[i] : i \in 1..Len(Units(p))}}

UpToTwo(S) == {<< >>} \cup {<<f>> : f \in S} \cup {<<f, g>> : f, g \in S}

MCTexts ==
    {[p |-> TRUE, date |-> d, t |-> TRUE, time |-> t] :
        d \in UpToTwo(FieldsOf("date")), t \in UpToTwo(FieldsOf("time"))}
    \cup {[p |-> p, date |-> d, t |-> FALSE, time |-> << >>] :
        p \in BOOLEAN, d \in UpToTwo(FieldsOf("date"))}

(* One number of more than 32 bits.                                        *)
MCLongTexts ==
    {[p |-> TRUE, date |-> << >>, t |-> TRUE, time |-> <<Field(n, u, w)>>] :
        n \in {0, 1, 30}, u \in {"H", "M", "S"}, w \in {0, 1}}

=============================================================================
