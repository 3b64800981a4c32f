------------------------------- MODULE MCDaily -------------------------------
(* Instances of Daily for TLC: short calendars.                            *)
EXTENDS Daily, TLC

\* Three days: a week ends after the first, a month after the second.
ThreeWeeks == <<1, 2, 2>>
ThreeMonths == <<1, 1, 2>>

\* A single day.
OneWeek == <<1>>

\* An account that does one thing, with and without starter data.
Account(kinds, rows) == [offered |-> kinds, giftRows |-> rows]
OneThing ==
    {Account({o}, Gift) : o \in {"milestone", "card", "gift", "goods"}} \cup {Account({"gift"}, {})}
Gifted == {Account({"gift"}, Gift)}

ConnSymmetry == Permutations(Conn)
=============================================================================
