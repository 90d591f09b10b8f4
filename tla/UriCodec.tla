------------------------------ MODULE UriCodec ------------------------------
(***************************************************************************)
(* URI encoding and decoding (httpuv.cpp) over strings of a few            *)
(* characters: a string is a sequence of characters, and the table of      *)
(* codes has those that the functions tell apart.                          *)
(***************************************************************************)
EXTENDS Naturals, Sequences, TLC

\* A character and the two digits of its code, in upper case.  Unnamed stands
\* for every character that is not in the table.
Coded == {"%", "/", ".", "\\", "?", " ", "a", "b", "c", "e", "x", "2", "5", "C", "F"}
Code == "%" :> <<"2", "5">> @@ "/" :> <<"2", "F">> @@ "." :> <<"2", "E">> @@
        "\\" :> <<"5", "C">> @@ "?" :> <<"3", "F">> @@ " " :> <<"2", "0">> @@
        "a" :> <<"6", "1">> @@ "b" :> <<"6", "2">> @@ "c" :> <<"6", "3">> @@
        "e" :> <<"6", "5">> @@ "x" :> <<"7", "8">> @@ "2" :> <<"3", "2">> @@
        "5" :> <<"3", "5">> @@ "C" :> <<"4", "3">> @@ "F" :> <<"4", "6">>
Unnamed == "other"

\* hexToInt takes digits of both cases.
HexDigits == {"0", "1", "2", "3", "4", "5", "6", "7", "8", "9", "A", "B", "C", "D", "E", "F"}
Upper == "a" :> "A" @@ "b" :> "B" @@ "c" :> "C" @@ "d" :> "D" @@ "e" :> "E" @@ "f" :> "F"
Digits(hi, lo) == [i \in 1..2 |-> LET d == <<hi, lo>>[i]
                                  IN IF d \in DOMAIN Upper THEN Upper[d] ELSE d]

isReservedUrlChar(c) == c \in {"/", "?"}
needsEscape(c, encodeReserved) ==
  c \in {"%", "\\", " "} \/ (isReservedUrlChar(c) /\ encodeReserved)

doEncodeURI(s, encodeReserved) ==
  LET from[i \in 1..(Len(s) + 1)] ==
        IF i > Len(s) THEN <<>>
        ELSE (IF needsEscape(s[i], encodeReserved) THEN <<"%">> \o Code[s[i]] ELSE <<s[i]>>)
               \o from[i + 1]
  IN from[1]

\* An escape is three characters, and stands for the one they are the code of.
EscapeAt(s, i) == i <= Len(s) - 2 /\ s[i] = "%"
DigitsAt(s, i) == Digits(s[i + 1], s[i + 2])
CharAt(s, i) == IF \E c \in Coded : Code[c] = DigitsAt(s, i)
                THEN CHOOSE c \in Coded : Code[c] = DigitsAt(s, i) ELSE Unnamed

\* The text from position i on: an escape that is cut off by the end, has other
\* digits, or stands for a reserved character (unless component), stays.
DecodeAt(s, component, i, from) ==
  IF i > Len(s) THEN <<>>
  ELSE IF ~EscapeAt(s, i) THEN <<s[i]>> \o from[i + 1]
  ELSE IF \/ ~(DigitsAt(s, i)[1] \in HexDigits /\ DigitsAt(s, i)[2] \in HexDigits)
          \/ ~component /\ isReservedUrlChar(CharAt(s, i))
       THEN SubSeq(s, i, i + 2) \o from[i + 3]
  ELSE <<CharAt(s, i)>> \o from[i + 3]

doDecodeURI(s, component) ==
  LET from[i \in 1..(Len(s) + 1)] == DecodeAt(s, component, i, from) IN from[1]

\* The URL before its query.
splitQueryString(url) ==
  LET marks == {i \in DOMAIN url : url[i] = "?"}
  IN IF marks = {} THEN url
     ELSE SubSeq(url, 1, (CHOOSE i \in marks : \A j \in marks : i <= j) - 1)
=============================================================================
